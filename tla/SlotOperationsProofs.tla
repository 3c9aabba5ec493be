------------------------ MODULE SlotOperationsProofs ------------------------
(***************************************************************************)
(* Theorems about SlotOperations, for any number of tasks, slots,          *)
(* operations and faults and dumps of any size.                            *)
(***************************************************************************)
EXTENDS SlotOperations, DumpFileProofs, FiniteSetTheorems

-----------------------------------------------------------------------------
(* Commands and programs. *)

Block == [1..BLOCK -> Bytes]
NickCmd == "get_slot_tag_nick"

(* What the device can make of a command. *)
Valid(cmd) ==
  /\ cmd.name \in {"set_active_slot", "set_slot_tag_type", "set_slot_enable", NickCmd} =>
       cmd.slot \in Slots
  /\ cmd.name = "set_slot_tag_type" => cmd.arg = "MF1_1K"
  /\ cmd.name \in {"set_slot_enable", "set_emulation_sense"} => cmd.arg \in BOOLEAN
  /\ cmd.name = "set_anti_coll_data" => cmd.arg \in Block
  /\ cmd.name = "write_emu_block_data" => cmd.arg.start \in Nat /\ cmd.arg.data \in Seq(Bytes)
  /\ cmd.name = NickCmd => cmd.arg = 1

(* The commands that change what a saving operation saves. *)
Marks(cmd) ==
  cmd.name \in {"set_active_slot", "set_anti_coll_data", "write_emu_block_data",
                "save_slot_config"}
Reads == {"get_active_slot", "get_slot_info", "get_enabled_slots"}

(* The kinds of operations. *)
LEMMA Kinds ==
  ASSUME NEW what \in Operations
  PROVE  \/ /\ what.kind = "load_dump" /\ what.slot \in Slots /\ what.dump \in Dumps
            /\ Len(dump_data[what.dump]) >= BLOCK
         \/ what.kind = "select" /\ what.slot \in Slots
         \/ what.kind = "switch" /\ what.slot \in Slots /\ what.enable \in BOOLEAN
         \/ what = [kind |-> "unlock"]
         \/ what = [kind |-> "poll"]
         \/ what = SetUp /\ what.kind = "set_up"
  BY DEF Operations, SetUp

(* The set-up of a connection is told from the others by its kind. *)
LEMMA SetUpKind ==
  SetUp \in Operations /\ SetUp # None /\ SetUp.kind = "set_up"
  BY NoneAssumption DEF Operations, SetUp

(* A whole block of a dump, as a sequence of bytes. *)
LEMMA BlockOfDump ==
  ASSUME NEW dump \in Seq(Bytes), NEW b \in Nat, b < BlocksOf(dump)
  PROVE  Slice(dump, b, b + 1) \in Block
  <1>1. BLOCK \in Nat \ {0} /\ BlocksOf(dump) \in Nat
    BY SizesAssumption, DivFacts DEF BlocksOf
  <1>2. b + 1 \in Nat /\ b <= b + 1 /\ b + 1 <= BlocksOf(dump) /\ (b + 1) - b = 1
    BY <1>1
  <1>3. /\ Slice(dump, b, b + 1) \in Seq(Bytes)
        /\ Len(Slice(dump, b, b + 1)) = ((b + 1) - b) * BLOCK
    BY <1>2, SlicesAreWhole
  <1>4. ((b + 1) - b) * BLOCK = BLOCK
    BY <1>1, <1>2
  <1> QED BY <1>3, <1>4 DEF Block

(* A chunk that cannot be sent begins after the last block with a number that is
   a byte. *)
CutFrom(d, cmd) ==
  ~Sendable(cmd) => cmd.arg.start > MAX_BYTE /\ BlocksOf(dump_data[d]) > cmd.arg.start

(* The writes of a dump are valid, whole blocks and no more than can be sent. *)
LEMMA WritesOfDump ==
  ASSUME NEW d \in Dumps
  PROVE  LET w == Writes(dump_data[d]) IN
         /\ Len(w) \in Nat
         /\ \E S : w \in Seq(S)
         /\ \A i \in 1..Len(w) :
              w[i].name = "write_emu_block_data" /\ Valid(w[i]) /\ CutFrom(d, w[i])
  <1> DEFINE dump == dump_data[d]
             total == BlocksOf(dump)
             n == NumberOfChunks(total)
             Start(i) == ChunkStart(i)
             Chunk(i) == Slice(dump, ChunkStart(i), ChunkEnd(i, total))
             One(i) == Cmd("write_emu_block_data", None, [start |-> Start(i), data |-> Chunk(i)])
  <1>1. dump \in Seq(Bytes) /\ total \in Nat
    <2>1. dump \in Seq(Bytes)
      BY DumpsAssumption
    <2> HIDE DEF dump
    <2>2. Len(dump) \in Nat /\ BLOCK \in Nat \ {0}
      BY <2>1, SizesAssumption
    <2> QED BY <2>1, <2>2, DivFacts DEF BlocksOf
  <1>2. n \in Nat
    BY <1>1, ChunkCount
  <1>3. Writes(dump) = [i \in 1..n |-> One(i)]
    BY Zenon DEF Writes
  <1> HIDE DEF dump
  <1>4. ASSUME NEW i \in 1..n
        PROVE  /\ One(i).name = "write_emu_block_data"
               /\ Valid(One(i)) /\ CutFrom(d, One(i))
    <2>1. /\ Start(i) \in Nat /\ ChunkEnd(i, total) \in Nat
          /\ Start(i) < ChunkEnd(i, total) /\ ChunkEnd(i, total) <= total
          /\ ChunkEnd(i, total) - Start(i) <= chunk_size
      BY <1>1, ChunksFit
    <2> DEFINE end == ChunkEnd(i, total)
    <2>2. /\ Chunk(i) \in Seq(Bytes)
          /\ Len(Chunk(i)) = (end - Start(i)) * BLOCK
          /\ Len(Chunk(i)) % BLOCK = 0
      BY <1>1, <2>1, SlicesAreWhole
    <2>3. Len(Chunk(i)) <= MAX_WRITE * BLOCK
      <3>1. end - Start(i) \in Nat /\ MAX_WRITE \in Nat /\ BLOCK \in Nat
            /\ end - Start(i) <= MAX_WRITE
        BY <2>1, CountsAssumption, SizesAssumption
      <3> QED BY <3>1, <2>2, MulMono
    <2>4. Start(i) < BlocksOf(dump_data[d]) /\ MAX_BYTE \in Nat
      BY <1>1, <2>1, CountsAssumption DEF dump
    <2> DEFINE arg == [start |-> Start(i), data |-> Chunk(i)]
    <2>5. arg.start = Start(i) /\ arg.data = Chunk(i)
      OBVIOUS
    <2>6. One(i).name = "write_emu_block_data" /\ One(i).arg = arg
      BY DEF Cmd
    <2> HIDE DEF One, arg, Chunk, Start
    <2>7. Valid(One(i))
      BY <2>1, <2>2, <2>5, <2>6 DEF Valid, NickCmd
    <2>8. ~Sendable(One(i)) => Start(i) > MAX_BYTE
      BY <2>1, <2>2, <2>3, <2>4, <2>5, <2>6 DEF Sendable
    <2> DEFINE total_of == BlocksOf(dump_data[d])
    <2>9. CutFrom(d, One(i))
      <3>1. Start(i) < total_of /\ One(i).arg.start = Start(i)
        BY <2>4, <2>5, <2>6
      <3>2. CutFrom(d, One(i)) <=>
              (~Sendable(One(i)) => One(i).arg.start > MAX_BYTE /\ total_of > One(i).arg.start)
        BY DEF CutFrom
      <3>3. total_of \in Nat
        BY <1>1 DEF dump
      <3> HIDE DEF total_of
      <3> QED BY <2>1, <2>8, <3>1, <3>2, <3>3
    <2> QED BY <2>6, <2>7, <2>9
  <1> HIDE DEF One, n
  <1> DEFINE w == Writes(dump)
  <1>5. Len(w) = n /\ \A i \in 1..n : w[i] = One(i)
    BY <1>2, <1>3
  <1>6. w \in Seq({One(i) : i \in 1..n})
    BY <1>2, <1>3
  <1> QED BY <1>2, <1>4, <1>5, <1>6 DEF dump

(* A sequence put together from a first part, the writes of a dump, and a last
   part keeps what holds of each. *)
LEMMA ThreeParts ==
  ASSUME NEW A, NEW B, NEW C, NEW a \in Seq(A), NEW b \in Seq(B), NEW c \in Seq(C)
  PROVE  LET s == a \o b \o c IN
         /\ s \in Seq(A \union B \union C)
         /\ Len(s) = Len(a) + Len(b) + Len(c)
         /\ \A i \in 1..Len(s) :
              \/ i <= Len(a) /\ s[i] = a[i]
              \/ i - Len(a) \in 1..Len(b) /\ s[i] = b[i - Len(a)]
              \/ i - (Len(a) + Len(b)) \in 1..Len(c) /\ s[i] = c[i - (Len(a) + Len(b))]
  <1> DEFINE S == A \union B \union C
             s == a \o b \o c
  <1>1. a \in Seq(S) /\ b \in Seq(S) /\ c \in Seq(S)
    OBVIOUS
  <1> HIDE DEF S
  <1> QED BY <1>1 DEF S

(* The two halves of a program to load a dump, and what each command is. *)
LEMMA LoadProgram ==
  ASSUME NEW slot \in Slots, NEW d \in Dumps, Len(dump_data[d]) >= BLOCK
  PROVE  LET p == LoadDump(slot, d) IN
         /\ \E S : p \in Seq(S)
         /\ Len(p) >= 5
         /\ p[Len(p)].name = "save_slot_config"
         /\ \A i \in 1..Len(p) :
              /\ Valid(p[i]) /\ CutFrom(d, p[i])
              /\ p[i].name \in {"set_active_slot", "set_slot_tag_type", "set_anti_coll_data",
                                "write_emu_block_data", "set_slot_enable", "save_slot_config"}
  <1> DEFINE first == <<Cmd("set_active_slot", slot, None),
                        Cmd("set_slot_tag_type", slot, "MF1_1K"),
                        Cmd("set_anti_coll_data", None, AntiColl(dump_data[d]))>>
             w == Writes(dump_data[d])
             last == <<Cmd("set_slot_enable", slot, TRUE), Cmd("save_slot_config", None, None)>>
             Good(c) == /\ Valid(c) /\ CutFrom(d, c)
                        /\ c.name \in {"set_active_slot", "set_slot_tag_type",
                                       "set_anti_coll_data", "write_emu_block_data",
                                       "set_slot_enable", "save_slot_config"}
             p == first \o w \o last
  <1>1. AntiColl(dump_data[d]) \in Block
    <2>1. dump_data[d] \in Seq(Bytes) /\ Len(dump_data[d]) \in Nat
      BY DumpsAssumption
    <2>2. BlocksOf(dump_data[d]) > 0
      <3> DEFINE n == Len(dump_data[d])
      <3>1. n \in Nat /\ n >= BLOCK /\ BLOCK \in Nat \ {0}
        BY <2>1, SizesAssumption
      <3> HIDE DEF n
      <3>2. n \div BLOCK \in Nat /\ n < (n \div BLOCK) * BLOCK + BLOCK
        BY <3>1, DivFacts
      <3>3. n \div BLOCK # 0
        BY <3>1, <3>2
      <3> QED BY <3>2, <3>3 DEF n, BlocksOf
    <2>3. Slice(dump_data[d], 0, 0 + 1) \in Block
      BY <2>1, <2>2, BlockOfDump
    <2>4. 0 + 1 = 1
      OBVIOUS
    <2> QED BY <2>3, <2>4, Zenon DEF AntiColl
  <1>2. /\ first \in Seq({first[1], first[2], first[3]}) /\ Len(first) = 3
        /\ last \in Seq({last[1], last[2]}) /\ Len(last) = 2
        /\ last[2].name = "save_slot_config"
    BY DEF Cmd
  <1>3. \A i \in 1..3 : Good(first[i])
    <2>1. Good(first[1]) /\ Good(first[2])
      BY DEF Cmd, Valid, CutFrom, Sendable, NickCmd
    <2>2. Good(first[3])
      BY <1>1 DEF Cmd, Valid, CutFrom, Sendable, NickCmd
    <2> QED BY <2>1, <2>2
  <1>4. \A i \in 1..2 : Good(last[i])
    <2>1. Good(last[1])
      BY DEF Cmd, Valid, CutFrom, Sendable, NickCmd
    <2>2. Good(last[2])
      BY DEF Cmd, Valid, CutFrom, Sendable, NickCmd
    <2> HIDE DEF Good, last
    <2> QED BY <2>1, <2>2
  <1>5. PICK S : w \in Seq(S)
    BY WritesOfDump
  <1>6. Len(w) \in Nat /\ \A i \in 1..Len(w) : Good(w[i])
    BY WritesOfDump
  <1> HIDE DEF first, last, w, Good
  <1> DEFINE F == {first[1], first[2], first[3]}
             L == {last[1], last[2]}
  <1>7. /\ p \in Seq(F \union S \union L)
        /\ Len(p) = Len(first) + Len(w) + Len(last)
        /\ \A i \in 1..Len(p) :
             \/ i <= Len(first) /\ p[i] = first[i]
             \/ i - Len(first) \in 1..Len(w) /\ p[i] = w[i - Len(first)]
             \/ /\ i - (Len(first) + Len(w)) \in 1..Len(last)
                /\ p[i] = last[i - (Len(first) + Len(w))]
    <2>1. first \in Seq(F) /\ last \in Seq(L)
      BY <1>2
    <2> HIDE DEF F, L
    <2> QED BY <2>1, <1>5, ThreeParts
  <1> HIDE DEF F, L, p
  <1>8. ASSUME NEW i \in 1..Len(p) PROVE Good(p[i])
    <2>1. CASE i <= Len(first) /\ p[i] = first[i]
      <3>1. i \in 1..3
        BY <1>2, <2>1
      <3> QED BY <1>3, <2>1, <3>1, Zenon
    <2>2. CASE i - Len(first) \in 1..Len(w) /\ p[i] = w[i - Len(first)]
      BY <1>6, <2>2, Zenon
    <2>3. CASE /\ i - (Len(first) + Len(w)) \in 1..Len(last)
               /\ p[i] = last[i - (Len(first) + Len(w))]
      <3>1. i - (Len(first) + Len(w)) \in 1..2
        BY <1>2, <2>3
      <3> QED BY <1>4, <2>3, <3>1, Zenon
    <2> QED BY <1>7, <2>1, <2>2, <2>3, Zenon
  <1>9. p[Len(p)] = last[2] /\ Len(p) >= 5
    BY <1>2, <1>6, <1>7
  <1>10. LoadDump(slot, d) = p
    BY Zenon DEF LoadDump, first, last, w, p
  <1> QED BY <1>2, <1>7, <1>8, <1>9, <1>10 DEF Good

(* A poll: six commands, then the nickname of each slot in order. *)
LEMMA PollProgram ==
  /\ \E S : Poll \in Seq(S)
  /\ Len(Poll) = 6 + SLOT_COUNT
  /\ \A i \in 1..6 : /\ Valid(Poll[i]) /\ Sendable(Poll[i])
                     /\ Poll[i].name \in Reads \union
                          {"get_battery_info", "get_device_mode", "get_git_version"}
                     /\ Poll[i].name = "get_active_slot" <=> i = 2
                     /\ Poll[i].name = "get_slot_info" <=> i = 3
                     /\ Poll[i].name = "get_enabled_slots" <=> i = 4
  /\ \A i \in 7..(6 + SLOT_COUNT) : Poll[i] = Cmd(NickCmd, i - 7, 1)
  <1> DEFINE first ==
        <<Cmd("get_battery_info", None, None),
          Cmd("get_active_slot", None, None),
          Cmd("get_slot_info", None, None),
          Cmd("get_enabled_slots", None, None),
          Cmd("get_device_mode", None, None),
          Cmd("get_git_version", None, None)>>
             One(i) == Cmd(NickCmd, i - 1, 1)
             nicks == [i \in 1..SLOT_COUNT |-> One(i)]
             F == {first[1], first[2], first[3], first[4], first[5], first[6]}
             N == {One(i) : i \in 1..SLOT_COUNT}
             Good(c, i) == /\ Valid(c) /\ Sendable(c)
                           /\ c.name \in Reads \union
                                {"get_battery_info", "get_device_mode", "get_git_version"}
                           /\ c.name = "get_active_slot" <=> i = 2
                           /\ c.name = "get_slot_info" <=> i = 3
                           /\ c.name = "get_enabled_slots" <=> i = 4
  <1>1. SLOT_COUNT \in Nat
    BY CountsAssumption
  <1>2. first \in Seq(F) /\ Len(first) = 6
    OBVIOUS
  <1>4. Poll = first \o nicks
    BY Zenon DEF Poll, NickCmd
  <1>6. \A i \in 1..SLOT_COUNT : nicks[i] = Cmd(NickCmd, i - 1, 1)
    OBVIOUS
  <1> HIDE DEF One
  <1>3. nicks \in Seq(N) /\ Len(nicks) = SLOT_COUNT
    BY <1>1
  <1>5. \A i \in 1..6 : Good(first[i], i)
    <2>1. Good(first[1], 1) /\ Good(first[2], 2)
      BY DEF Cmd, Valid, Sendable, Reads, NickCmd
    <2>2. Good(first[3], 3) /\ Good(first[4], 4)
      BY DEF Cmd, Valid, Sendable, Reads, NickCmd
    <2>3. Good(first[5], 5) /\ Good(first[6], 6)
      BY DEF Cmd, Valid, Sendable, Reads, NickCmd
    <2> HIDE DEF Good, first
    <2> QED BY <2>1, <2>2, <2>3
  <1> HIDE DEF first, nicks, F, N
  <1> DEFINE s == first \o nicks
             S == F \union N
  <1>7. first \in Seq(S) /\ nicks \in Seq(S)
    BY <1>2, <1>3
  <1> HIDE DEF S
  <1>8. /\ s \in Seq(S) /\ Len(s) = 6 + SLOT_COUNT
        /\ \A i \in 1..6 : s[i] = first[i]
        /\ \A i \in 7..(6 + SLOT_COUNT) : s[i] = nicks[i - 6]
    <2>1. /\ s \in Seq(S) /\ Len(s) = Len(first) + Len(nicks)
          /\ \A i \in 1..Len(s) : s[i] = IF i <= Len(first) THEN first[i]
                                                            ELSE nicks[i - Len(first)]
      BY <1>7, ConcatProperties
    <2> HIDE DEF s
    <2> QED BY <2>1, <1>1, <1>2, <1>3
  <1> HIDE DEF s
  <1>9. ASSUME NEW i \in 7..(6 + SLOT_COUNT) PROVE s[i] = Cmd(NickCmd, i - 7, 1)
    <2>1. i - 6 \in 1..SLOT_COUNT /\ (i - 6) - 1 = i - 7 /\ s[i] = nicks[i - 6]
      BY <1>1, <1>8
    <2> QED BY <2>1, <1>6
  <1>10. Poll = s
    BY <1>4 DEF s
  <1>11. \A i \in 1..6 : Good(s[i], i)
    BY <1>5, <1>8
  <1> QED BY <1>8, <1>9, <1>10, <1>11 DEF Good

(* What every program p of an operation is made of. *)
Sound(what, p) ==
  /\ \E S : p \in Seq(S)
  /\ Len(p) # 0
  /\ \A i \in 1..Len(p) : Valid(p[i]) /\ CutFrom(what.dump, p[i])
  /\ Saves(what) => p[Len(p)].name = "save_slot_config"
  /\ ~Saves(what) => \A i \in 1..Len(p) : ~Marks(p[i])
  /\ ~Quiets(what) => \A i \in 1..Len(p) : p[i].name # "set_emulation_sense"
  /\ what.kind # "poll" => \A i \in 1..Len(p) : p[i].name \notin Reads \union {NickCmd}

(* That of a poll is. *)
LEMMA PollSound ==
  ASSUME NEW what \in Operations, what.kind = "poll"
  PROVE  Sound(what, Poll)
  <1>1. /\ \E S : Poll \in Seq(S)
        /\ Len(Poll) = 6 + SLOT_COUNT /\ SLOT_COUNT \in Nat
    BY PollProgram, CountsAssumption
  <1>2. ASSUME NEW i \in 1..Len(Poll)
        PROVE  /\ Valid(Poll[i]) /\ Sendable(Poll[i]) /\ ~Marks(Poll[i])
               /\ Poll[i].name # "set_emulation_sense"
    <2>1. CASE i \in 1..6
      BY <2>1, PollProgram DEF Marks, Reads
    <2>2. CASE i \in 7..(6 + SLOT_COUNT)
      <3>1. Poll[i] = Cmd(NickCmd, i - 7, 1) /\ i - 7 \in Slots
        BY <2>2, <1>1, PollProgram DEF Slots
      <3> QED BY <3>1 DEF Cmd, NickCmd, Marks, Valid, Sendable
    <2> QED BY <1>1, <2>1, <2>2
  <1> QED BY <1>1, <1>2 DEF Sound, CutFrom, Saves, Quiets

(* So are those of the others. *)
LEMMA LoadSound ==
  ASSUME NEW what \in Operations, what.kind = "load_dump"
  PROVE  Sound(what, LoadDump(what.slot, what.dump))
  <1>1. what.slot \in Slots /\ what.dump \in Dumps /\ Len(dump_data[what.dump]) >= BLOCK
    BY Kinds
  <1> DEFINE p == LoadDump(what.slot, what.dump)
  <1>2. /\ \E S : p \in Seq(S)
        /\ Len(p) >= 5
        /\ p[Len(p)].name = "save_slot_config"
        /\ \A i \in 1..Len(p) :
             /\ Valid(p[i]) /\ CutFrom(what.dump, p[i])
             /\ p[i].name \in {"set_active_slot", "set_slot_tag_type", "set_anti_coll_data",
                               "write_emu_block_data", "set_slot_enable", "save_slot_config"}
    BY <1>1, LoadProgram
  <1> HIDE DEF p
  <1>3. Sound(what, p)
    BY <1>2 DEF Sound, Saves, Quiets, Reads, NickCmd
  <1> QED BY <1>3 DEF p

(* A program of two commands at the most. *)
LEMMA ShortSound ==
  ASSUME NEW what \in Operations, what.kind \in {"select", "switch", "unlock", "set_up"}
  PROVE  Sound(what, Program(what))
  <1>1. CASE what.kind = "select"
    <2> DEFINE a == Cmd("set_active_slot", what.slot, None)
               z == Cmd("save_slot_config", None, None)
    <2>1. Program(what) = <<a, z>>
      BY <1>1, Zenon DEF Program, SelectOption
    <2>2. what.slot \in Slots
      BY <1>1, Kinds
    <2>3. /\ Valid(a) /\ Sendable(a) /\ a.name = "set_active_slot"
          /\ Valid(z) /\ Sendable(z) /\ z.name = "save_slot_config"
      BY <2>2 DEF Cmd, Valid, Sendable, NickCmd
    <2> HIDE DEF a, z
    <2> DEFINE p == <<a, z>>
    <2>4. p \in Seq({a, z}) /\ Len(p) = 2 /\ p[1] = a /\ p[2] = z
      OBVIOUS
    <2> HIDE DEF p
    <2>5. \A i \in 1..Len(p) : p[i] = a \/ p[i] = z
      BY <2>4
    <2>6. Sound(what, p)
      BY <1>1, <2>3, <2>4, <2>5 DEF Sound, CutFrom, Saves, Quiets, Reads, NickCmd
    <2> QED BY <2>1, <2>6 DEF p
  <1>2. CASE what.kind = "switch"
    <2> DEFINE a == Cmd("set_slot_enable", what.slot, what.enable)
    <2>1. Program(what) = <<a>>
      BY <1>2, Zenon DEF Program, Turn
    <2>2. what.slot \in Slots /\ what.enable \in BOOLEAN
      BY <1>2, Kinds
    <2>3. Valid(a) /\ Sendable(a) /\ a.name = "set_slot_enable"
      BY <2>2 DEF Cmd, Valid, Sendable, NickCmd
    <2> HIDE DEF a
    <2> DEFINE p == <<a>>
    <2>4. p \in Seq({a}) /\ Len(p) = 1 /\ p[1] = a
      OBVIOUS
    <2> HIDE DEF p
    <2>5. \A i \in 1..Len(p) : p[i] = a
      BY <2>4
    <2>6. Sound(what, p)
      BY <1>2, <2>3, <2>4, <2>5 DEF Sound, CutFrom, Saves, Quiets, Reads, NickCmd, Marks
    <2> QED BY <2>1, <2>6 DEF p
  <1>3. CASE what.kind = "unlock"
    <2> DEFINE a == Cmd("set_emulation_sense", None, TRUE)
               z == Cmd("set_emulation_sense", None, FALSE)
    <2>1. Program(what) = <<a, z>>
      BY <1>3, Zenon DEF Program, Unlock
    <2>3. /\ Valid(a) /\ Sendable(a) /\ a.name = "set_emulation_sense"
          /\ Valid(z) /\ Sendable(z) /\ z.name = "set_emulation_sense"
      BY DEF Cmd, Valid, Sendable, NickCmd
    <2> HIDE DEF a, z
    <2> DEFINE p == <<a, z>>
    <2>4. p \in Seq({a, z}) /\ Len(p) = 2 /\ p[1] = a /\ p[2] = z
      OBVIOUS
    <2> HIDE DEF p
    <2>5. \A i \in 1..Len(p) : p[i] = a \/ p[i] = z
      BY <2>4
    <2>6. Sound(what, p)
      BY <1>3, <2>3, <2>4, <2>5 DEF Sound, CutFrom, Saves, Quiets, Reads, NickCmd, Marks
    <2> QED BY <2>1, <2>6 DEF p
  <1>4. CASE what.kind = "set_up"
    <2> DEFINE z == Cmd("set_emulation_sense", None, FALSE)
    <2>1. Program(what) = <<z>>
      BY <1>4, Zenon DEF Program, Quiet
    <2>3. Valid(z) /\ Sendable(z) /\ z.name = "set_emulation_sense"
      BY DEF Cmd, Valid, Sendable, NickCmd
    <2> HIDE DEF z
    <2> DEFINE p == <<z>>
    <2>4. p \in Seq({z}) /\ Len(p) = 1 /\ p[1] = z
      OBVIOUS
    <2> HIDE DEF p
    <2>5. \A i \in 1..Len(p) : p[i] = z
      BY <2>4
    <2>6. Sound(what, p)
      BY <1>4, <2>3, <2>4, <2>5 DEF Sound, CutFrom, Saves, Quiets, Reads, NickCmd, Marks
    <2> QED BY <2>1, <2>6 DEF p
  <1> QED BY <1>1, <1>2, <1>3, <1>4

(* Every program is sound, and Commands are the commands of the programs. *)
LEMMA Programs ==
  ASSUME NEW what \in Operations
  PROVE  /\ Sound(what, Program(what))
         /\ Program(what) \in Seq(Commands) /\ Len(Program(what)) \in Nat \ {0}
         /\ \A i \in 1..Len(Program(what)) : Program(what)[i] \in Commands
  <1> DEFINE p == Program(what)
  <1>1. Sound(what, p)
    <2>1. what.kind = "load_dump" => Program(what) = LoadDump(what.slot, what.dump)
      BY Zenon DEF Program
    <2>2. what.kind = "poll" => Program(what) = Poll
      BY Zenon DEF Program
    <2> QED BY <2>1, <2>2, LoadSound, PollSound, ShortSound, Kinds
  <1>2. ToSet(p) \subseteq Commands
    BY Zenon DEF Commands
  <1> HIDE DEF p
  <1>3. PICK S : p \in Seq(S)
    BY <1>1 DEF Sound
  <1>4. Len(p) \in Nat \ {0} /\ \A i \in 1..Len(p) : p[i] \in Commands
    <2>1. \A i \in 1..Len(p) : p[i] \in ToSet(p)
      BY DEF ToSet
    <2> QED BY <1>1, <1>2, <1>3, <2>1 DEF Sound
  <1>5. p \in Seq(Commands)
    BY <1>3, <1>4
  <1> QED BY <1>1, <1>4, <1>5 DEF p

(* What is known of a command wherever it comes from. *)
LEMMA AnyCommand ==
  ASSUME NEW cmd \in Commands
  PROVE  Valid(cmd)
  <1>1. PICK what \in Operations : cmd \in ToSet(Program(what))
    BY Zenon DEF Commands
  <1>2. PICK i \in 1..Len(Program(what)) : cmd = Program(what)[i]
    BY <1>1 DEF ToSet
  <1> QED BY <1>2, Programs DEF Sound

-----------------------------------------------------------------------------
(* The device. *)

(* The parts of the configuration that operations save. *)
Same(conf, other) ==
  /\ conf.active = other.active
  /\ \A s \in Slots : conf.slots[s].uid = other.slots[s].uid
                      /\ conf.slots[s].blocks = other.slots[s].blocks

(* Writing blocks leaves blocks. *)
LEMMA WrittenTyped ==
  ASSUME NEW blocks \in [Blocks -> Contents], NEW start \in Nat, NEW d \in Seq(Bytes),
         NEW write, write.start = start, write.data = d
  PROVE  Written(blocks, write) \in [Blocks -> Contents]
  <1>1. ASSUME NEW b \in Blocks, b \in start..(start + BlocksOf(d) - 1)
        PROVE  Slice(d, b - start, b - start + 1) \in Contents
    <2>1. Len(d) \in Nat /\ BlocksOf(d) \in Nat
      BY DivFacts, SizesAssumption DEF BlocksOf
    <2>2. b - start \in Nat /\ b - start < BlocksOf(d)
      BY <1>1, <2>1
    <2> DEFINE here == b - start
    <2> HIDE DEF here
    <2>3. Slice(d, here, here + 1) \in Block
      BY <2>2, BlockOfDump DEF here
    <2> QED BY <2>3 DEF here, Block, Contents
  <1> QED BY <1>1 DEF Written

(* A configuration with one slot changed. *)
LEMMA OneSlotTyped ==
  ASSUME NEW conf \in Configs, NEW s \in Slots, NEW slot \in SlotConfigs
  PROVE  [conf EXCEPT !.slots[s] = slot] \in Configs
  <1> DEFINE slots == [conf.slots EXCEPT ![s] = slot]
  <1>1. slots \in [Slots -> SlotConfigs]
    BY DEF Configs
  <1>2. [conf EXCEPT !.slots[s] = slot] = [conf EXCEPT !.slots = slots]
    BY DEF Configs
  <1> HIDE DEF slots
  <1> QED BY <1>1, <1>2 DEF Configs

(* A configuration stays one. *)
LEMMA ConfiguredTyped ==
  ASSUME NEW conf \in Configs, NEW cmd, Valid(cmd)
  PROVE  Configured(conf, cmd) \in Configs
  <1> DEFINE new == Configured(conf, cmd)
  <1>1. CASE cmd.name = "set_active_slot"
    <2>1. new = [conf EXCEPT !.active = cmd.slot]
      BY <1>1, Zenon DEF Configured
    <2>2. cmd.slot \in Slots
      BY <1>1 DEF Valid
    <2> QED BY <2>1, <2>2 DEF Configs
  <1>2. CASE cmd.name = "set_slot_tag_type"
    <2>1. new = [conf EXCEPT !.slots[cmd.slot].type = cmd.arg]
      BY <1>2, Zenon DEF Configured
    <2>2. cmd.slot \in Slots /\ cmd.arg \in {"UNKNOWN", "MF1_1K"}
      BY <1>2 DEF Valid
    <2> HIDE DEF new
    <2> DEFINE slot == [conf.slots[cmd.slot] EXCEPT !.type = cmd.arg]
    <2>4. slot \in SlotConfigs
      BY <2>2 DEF Configs, SlotConfigs
    <2>5. new = [conf EXCEPT !.slots[cmd.slot] = slot]
      BY <2>1 DEF Configs
    <2> HIDE DEF slot
    <2> QED BY <2>2, <2>4, <2>5, OneSlotTyped DEF new
  <1>3. CASE cmd.name = "set_slot_enable"
    <2>1. new = [conf EXCEPT !.slots[cmd.slot].enabled = cmd.arg]
      BY <1>3, Zenon DEF Configured
    <2>2. cmd.slot \in Slots /\ cmd.arg \in BOOLEAN
      BY <1>3 DEF Valid
    <2> HIDE DEF new
    <2> DEFINE slot == [conf.slots[cmd.slot] EXCEPT !.enabled = cmd.arg]
    <2>4. slot \in SlotConfigs
      BY <2>2 DEF Configs, SlotConfigs
    <2>5. new = [conf EXCEPT !.slots[cmd.slot] = slot]
      BY <2>1 DEF Configs
    <2> HIDE DEF slot
    <2> QED BY <2>2, <2>4, <2>5, OneSlotTyped DEF new
  <1>4. CASE cmd.name = "set_anti_coll_data"
    <2>1. new = [conf EXCEPT !.slots[conf.active].uid = cmd.arg]
      BY <1>4, Zenon DEF Configured
    <2>2. conf.active \in Slots /\ cmd.arg \in Contents
      BY <1>4 DEF Valid, Configs, Contents, Block
    <2> HIDE DEF new
    <2> DEFINE slot == [conf.slots[conf.active] EXCEPT !.uid = cmd.arg]
    <2>4. slot \in SlotConfigs
      BY <2>2 DEF Configs, SlotConfigs
    <2>5. new = [conf EXCEPT !.slots[conf.active] = slot]
      BY <2>1 DEF Configs
    <2> HIDE DEF slot
    <2> QED BY <2>2, <2>4, <2>5, OneSlotTyped DEF new
  <1>5. CASE cmd.name = "write_emu_block_data"
    <2> DEFINE old == conf.slots[conf.active].blocks
               blocks == Written(old, cmd.arg)
    <2>1. new = [conf EXCEPT !.slots[conf.active].blocks = blocks]
      BY <1>5, Zenon DEF Configured
    <2>2. conf.active \in Slots /\ old \in [Blocks -> Contents]
      BY DEF Configs, SlotConfigs
    <2>3. blocks \in [Blocks -> Contents]
      BY <1>5, <2>2, WrittenTyped DEF Valid
    <2> HIDE DEF new, blocks
    <2> DEFINE slot == [conf.slots[conf.active] EXCEPT !.blocks = blocks]
    <2>4. slot \in SlotConfigs
      BY <2>2, <2>3 DEF Configs, SlotConfigs
    <2>5. new = [conf EXCEPT !.slots[conf.active] = slot]
      BY <2>1 DEF Configs
    <2> HIDE DEF slot
    <2> QED BY <2>2, <2>4, <2>5, OneSlotTyped DEF new
  <1>6. CASE cmd.name \notin {"set_active_slot", "set_slot_tag_type", "set_slot_enable",
                             "set_anti_coll_data", "write_emu_block_data"}
    <2>1. new = conf
      BY <1>6, Zenon DEF Configured
    <2> QED BY <2>1
  <1> QED BY <1>1, <1>2, <1>3, <1>4, <1>5, <1>6

(* Most commands leave what is saved alone. *)
LEMMA ConfiguredSame ==
  ASSUME NEW conf \in Configs, NEW cmd, Valid(cmd), ~Marks(cmd)
  PROVE  Same(Configured(conf, cmd), conf)
  <1> DEFINE new == Configured(conf, cmd)
  <1>1. CASE cmd.name = "set_slot_tag_type"
    <2>1. new = [conf EXCEPT !.slots[cmd.slot].type = cmd.arg]
      BY <1>1, Zenon DEF Configured
    <2> HIDE DEF new
    <2> QED BY <2>1, <1>1 DEF Configs, SlotConfigs, Same, Valid, new
  <1>2. CASE cmd.name = "set_slot_enable"
    <2>1. new = [conf EXCEPT !.slots[cmd.slot].enabled = cmd.arg]
      BY <1>2, Zenon DEF Configured
    <2> HIDE DEF new
    <2> QED BY <2>1, <1>2 DEF Configs, SlotConfigs, Same, Valid, new
  <1>3. CASE cmd.name \notin {"set_slot_tag_type", "set_slot_enable"}
    <2>1. new = conf
      BY <1>3, Zenon DEF Configured, Marks
    <2> QED BY <2>1 DEF Same
  <1> QED BY <1>1, <1>2, <1>3

(* Saving changes no configuration. *)
LEMMA ConfiguredBySave ==
  ASSUME NEW conf, NEW cmd, cmd.name = "save_slot_config"
  PROVE  Configured(conf, cmd) = conf
  BY Zenon DEF Configured

-----------------------------------------------------------------------------
(* The inductive invariant. *)

Replies ==
  Slots \union [Slots -> {"UNKNOWN", "MF1_1K"}] \union [Slots -> BOOLEAN]
  \union {nick(s, 1) : s \in Slots} \union {None}

(* How many of the commands of t's operation are over. *)
Place(t) == Len(Program(op[t])) - Len(todo[t])

(* What is to do is the rest of the program, and a poll has one reply, or a gap,
   for every command that is over. *)
UnderWay(t) ==
  /\ Len(todo[t]) \in 1..Len(Program(op[t]))
  /\ \A i \in 1..Len(todo[t]) : todo[t][i] = Program(op[t])[Place(t) + i]
  /\ op[t].kind = "poll" => Len(got[t]) = Place(t)
  /\ op[t].kind # "poll" => got[t] = <<>>

TaskInv ==
  /\ op \in [Tasks -> Operations \union {None}]
  /\ todo \in [Tasks -> Seq(Commands)]
  /\ got \in [Tasks -> Seq(Replies)]
  /\ \A t \in Tasks : op[t] = None => todo[t] = <<>> /\ got[t] = <<>>
  /\ \A t \in Tasks : op[t] # None => UnderWay(t)
  /\ \A t, u \in Tasks : op[t] = [kind |-> "poll"] /\ op[u] = op[t] => t = u
  /\ lost \subseteq {t \in Tasks : op[t] # None}

DeviceInv ==
  /\ connected \in BOOLEAN
  /\ fw \in Configs /\ flash \in Configs
  /\ sensing \in BOOLEAN /\ interrupted \in BOOLEAN /\ unsaved \in BOOLEAN

(* A late command of an operation is one of its program, and history knows. *)
LateInv ==
  /\ late \in LateCommands \union {None}
  /\ late # None => /\ \E i \in 1..Len(Program(late.op)) : late.cmd = Program(late.op)[i]
                    /\ Saves(late.op) => unsaved
                    /\ Quiets(late.op) => interrupted

(* What is not saved yet, some operation whose connection is there goes on to
   save. *)
SaveInv ==
  unsaved \/ Same(fw, flash) \/ \E t \in Tasks \ lost : op[t] # None /\ Saves(op[t])

SenseInv == SensingNeedsUnlock

(* The nicknames a poll has got; how far a late answer to one may be off. *)
Shown(t) == SubSeq(got[t], 7, Len(got[t]))
Off(nicks, slot) ==
  /\ slot < Len(nicks)
  /\ Len(nicks) - slot <= Cardinality(Gaps(nicks, Len(nicks) + 1))

NickInv ==
  /\ \A t \in Tasks : op[t] = [kind |-> "poll"] => Aligned(Shown(t))
  /\ late # None /\ late.cmd.name = NickCmd =>
       \A t \in Tasks : op[t] = [kind |-> "poll"] =>
         got[t] = <<>> \/ (Len(got[t]) > 6 /\ Off(Shown(t), late.cmd.slot))

(* The reply at each place of a poll. *)
Fits(replies) ==
  /\ Len(replies) >= 2 => replies[2] \in Slots
  /\ Len(replies) >= 3 => replies[3] \in [Slots -> {"UNKNOWN", "MF1_1K"}]
  /\ Len(replies) >= 4 => replies[4] \in [Slots -> BOOLEAN]

DataInv ==
  /\ \A t \in Tasks : op[t] = [kind |-> "poll"] => Fits(got[t])
  /\ data.active_slot \in Slots
  /\ data.slot_info \in [Slots -> {"UNKNOWN", "MF1_1K"}]
  /\ data.enabled_slots \in [Slots -> BOOLEAN]
  /\ data.slot_nicks \in Seq(Replies)
  /\ Len(data.slot_nicks) <= SLOT_COUNT
  /\ Aligned(data.slot_nicks)

CountInv ==
  /\ ops \in 0..MaxOps /\ faults \in 0..MaxFaults
  /\ disturbed \in [Tasks -> SUBSET Disturbances]

Inv == TaskInv /\ DeviceInv /\ LateInv /\ SaveInv /\ SenseInv /\ NickInv /\ DataInv /\ CountInv

-----------------------------------------------------------------------------
(* Operations under way. *)

(* The next command of an operation, and what its place says of it. *)
LEMMA NextCommand ==
  ASSUME TaskInv, NEW t \in Tasks, op[t] # None
  PROVE  LET cmd == Head(todo[t]) IN
         /\ op[t] \in Operations /\ Place(t) \in Nat /\ Len(todo[t]) \in Nat \ {0}
         /\ Place(t) + 1 \in 1..Len(Program(op[t]))
         /\ cmd = Program(op[t])[Place(t) + 1]
         /\ cmd \in Commands /\ Valid(cmd)
         /\ Saves(op[t]) /\ Len(todo[t]) = 1 => cmd.name = "save_slot_config"
         /\ ~Saves(op[t]) => ~Marks(cmd)
         /\ ~Quiets(op[t]) => cmd.name # "set_emulation_sense"
         /\ op[t].kind # "poll" => cmd.name \notin Reads \union {NickCmd}
  <1> DEFINE p == Program(op[t])
             cmd == Head(todo[t])
  <1>1. op[t] \in Operations /\ UnderWay(t) /\ todo[t] \in Seq(Commands)
    BY DEF TaskInv
  <1>2. /\ Sound(op[t], p) /\ Len(p) \in Nat \ {0}
        /\ \A i \in 1..Len(p) : p[i] \in Commands
    BY <1>1, Programs
  <1> HIDE DEF p
  <1>3. /\ Len(todo[t]) \in 1..Len(p) /\ Place(t) = Len(p) - Len(todo[t])
        /\ cmd = p[Place(t) + 1]
    <2> DEFINE rest == todo[t]
    <2>1. /\ Len(rest) \in 1..Len(p) /\ Place(t) = Len(p) - Len(rest)
          /\ \A i \in 1..Len(rest) : rest[i] = p[Place(t) + i]
      BY <1>1 DEF UnderWay, Place, p
    <2>2. rest \in Seq(Commands) /\ Len(p) \in Nat
      BY <1>1, <1>2
    <2> HIDE DEF rest
    <2>3. Len(rest) \in 1..Len(p) /\ Place(t) = Len(p) - Len(rest) /\ rest[1] = p[Place(t) + 1]
      BY <2>1, <2>2
    <2>4. Head(rest) = rest[1]
      BY <2>2, <2>3
    <2> QED BY <2>3, <2>4 DEF rest
  <1> HIDE DEF cmd
  <1>4. Place(t) \in Nat /\ Place(t) + 1 \in 1..Len(p)
    BY <1>2, <1>3
  <1>5. Len(todo[t]) = 1 => Place(t) + 1 = Len(p)
    BY <1>2, <1>3
  <1>6. /\ Valid(cmd) /\ cmd \in Commands
        /\ Saves(op[t]) /\ Len(todo[t]) = 1 => cmd.name = "save_slot_config"
        /\ ~Saves(op[t]) => ~Marks(cmd)
        /\ ~Quiets(op[t]) => cmd.name # "set_emulation_sense"
        /\ op[t].kind # "poll" => cmd.name \notin Reads \union {NickCmd}
    <2> DEFINE i == Place(t) + 1
    <2> HIDE DEF i
    <2>1. i \in 1..Len(p) /\ cmd = p[i] /\ (Len(todo[t]) = 1 => i = Len(p))
      BY <1>3, <1>4, <1>5 DEF i
    <2> QED BY <1>2, <2>1 DEF Sound
  <1>7. Len(todo[t]) \in Nat \ {0}
    BY <1>2, <1>3
  <1> QED BY <1>1, <1>3, <1>4, <1>6, <1>7 DEF p, cmd

(* The commands of a poll by their place. *)
LEMMA PollPlace ==
  ASSUME TaskInv, NEW t \in Tasks, op[t] = [kind |-> "poll"]
  PROVE  LET cmd == Head(todo[t]) IN
         /\ op[t] # None /\ got[t] \in Seq(Replies)
         /\ Len(got[t]) = Place(t) /\ Place(t) \in 0..(5 + SLOT_COUNT)
         /\ Len(todo[t]) = 6 + SLOT_COUNT - Place(t)
         /\ cmd.name = "get_active_slot" <=> Place(t) = 1
         /\ cmd.name = "get_slot_info" <=> Place(t) = 2
         /\ cmd.name = "get_enabled_slots" <=> Place(t) = 3
         /\ cmd.name = NickCmd <=> Place(t) >= 6
         /\ Place(t) >= 6 => cmd.slot = Place(t) - 6 /\ cmd.arg = 1
  <1> DEFINE cmd == Head(todo[t])
  <1>1. op[t] \in Operations /\ op[t] # None /\ op[t].kind = "poll"
    BY NoneAssumption DEF Operations
  <1>2. Program(op[t]) = Poll
    BY <1>1, Zenon DEF Program
  <1>3. Place(t) \in Nat /\ Place(t) + 1 \in 1..Len(Poll) /\ cmd = Poll[Place(t) + 1]
        /\ Len(todo[t]) \in Nat
    BY <1>1, <1>2, NextCommand
  <1>4. Len(got[t]) = Place(t) /\ got[t] \in Seq(Replies) /\ Place(t) = Len(Poll) - Len(todo[t])
    BY <1>1, <1>2 DEF TaskInv, UnderWay, Place
  <1>5. Len(Poll) = 6 + SLOT_COUNT /\ SLOT_COUNT \in Nat
    BY PollProgram, CountsAssumption
  <1> HIDE DEF cmd
  <1> DEFINE Placed ==
          /\ cmd.name = "get_active_slot" <=> Place(t) = 1
          /\ cmd.name = "get_slot_info" <=> Place(t) = 2
          /\ cmd.name = "get_enabled_slots" <=> Place(t) = 3
          /\ cmd.name = NickCmd <=> Place(t) >= 6
          /\ Place(t) >= 6 => cmd.slot = Place(t) - 6 /\ cmd.arg = 1
  <1>6. ASSUME Place(t) < 6 PROVE Placed
    <2>1. Place(t) + 1 \in 1..6
      BY <1>3, <1>6
    <2>2. /\ cmd.name \in Reads \union {"get_battery_info", "get_device_mode", "get_git_version"}
          /\ cmd.name = "get_active_slot" <=> Place(t) + 1 = 2
          /\ cmd.name = "get_slot_info" <=> Place(t) + 1 = 3
          /\ cmd.name = "get_enabled_slots" <=> Place(t) + 1 = 4
      BY <1>3, <2>1, PollProgram
    <2>3. cmd.name # NickCmd
      BY <2>2 DEF Reads, NickCmd
    <2> QED BY <1>3, <1>6, <2>2, <2>3
  <1>7. ASSUME Place(t) >= 6 PROVE Placed
    <2>1. Place(t) + 1 \in 7..(6 + SLOT_COUNT) /\ (Place(t) + 1) - 7 = Place(t) - 6
      BY <1>3, <1>5, <1>7
    <2>2. cmd = Cmd(NickCmd, Place(t) - 6, 1)
      BY <1>3, <2>1, PollProgram
    <2>3. cmd.name = NickCmd /\ cmd.slot = Place(t) - 6 /\ cmd.arg = 1
      BY <2>2 DEF Cmd
    <2>4. cmd.name \notin Reads
      BY <2>3 DEF Reads, NickCmd
    <2> QED BY <1>3, <1>7, <2>3, <2>4 DEF Reads
  <1>8. /\ Place(t) \in 0..(5 + SLOT_COUNT)
        /\ Len(todo[t]) = 6 + SLOT_COUNT - Place(t)
    <2> DEFINE p == Place(t)
               n == Len(todo[t])
               m == Len(Poll)
    <2>1. /\ p \in Nat /\ p + 1 \in 1..m /\ n \in Nat /\ p = m - n
          /\ m = 6 + SLOT_COUNT /\ SLOT_COUNT \in Nat
      BY <1>3, <1>4, <1>5
    <2> HIDE DEF p, n, m
    <2>2. p \in 0..(5 + SLOT_COUNT) /\ n = 6 + SLOT_COUNT - p
      BY <2>1
    <2> QED BY <2>2 DEF p, n
  <1>9. Place(t) < 6 \/ Place(t) >= 6
    BY <1>3
  <1>10. Placed
    BY <1>6, <1>7, <1>9
  <1> QED BY <1>1, <1>4, <1>8, <1>10 DEF cmd

(* What a command that is over does to its operation, and to no other. *)
Others(t) ==
  /\ \A u \in Tasks \ {t} : op'[u] = op[u] /\ todo'[u] = todo[u] /\ got'[u] = got[u]
  /\ \A u \in Tasks \ {t} : u \in lost' <=> u \in lost
Advances(t, reply) ==
  \/ /\ Len(todo[t]) > 1 /\ op'[t] = op[t] /\ todo'[t] = Tail(todo[t]) /\ lost' = lost
     /\ op[t].kind = "poll" => got'[t] = Append(got[t], reply)
     /\ op[t].kind # "poll" => got'[t] = got[t]
     /\ data' = data
  \/ /\ Len(todo[t]) = 1 /\ op'[t] = None
     /\ op[t].kind = "poll" => Publish(Append(got[t], reply))
     /\ op[t].kind # "poll" => data' = data

(* An operation that ends leaves the others alone. *)
LEMMA EndMoves ==
  ASSUME TaskInv, NEW t \in Tasks, End(t)
  PROVE  TaskInv' /\ Others(t) /\ op'[t] = None
  <1>1. /\ op' \in [Tasks -> Operations \union {None}]
        /\ todo' \in [Tasks -> Seq(Commands)]
        /\ got' \in [Tasks -> Seq(Replies)]
    BY DEF TaskInv, End
  <1>2. Others(t) /\ op'[t] = None /\ todo'[t] = <<>> /\ got'[t] = <<>>
    BY DEF TaskInv, End, Others
  <1>3. ASSUME NEW u \in Tasks, op'[u] # None PROVE UnderWay(u)'
    <2>1. u # t /\ op'[u] = op[u] /\ todo'[u] = todo[u] /\ got'[u] = got[u]
      BY <1>2, <1>3 DEF Others
    <2>2. UnderWay(u)
      BY <1>3, <2>1 DEF TaskInv
    <2> QED BY <2>1, <2>2 DEF UnderWay, Place
  <1>4. ASSUME NEW u \in Tasks, op'[u] = None PROVE todo'[u] = <<>> /\ got'[u] = <<>>
    BY <1>2, <1>4 DEF TaskInv, Others
  <1>5. ASSUME NEW u \in Tasks, NEW v \in Tasks, op'[u] = [kind |-> "poll"], op'[v] = op'[u]
        PROVE  u = v
    <2>1. [kind |-> "poll"] # None
      BY NoneAssumption DEF Operations
    <2>2. u # t /\ v # t
      BY <1>2, <1>5, <2>1
    <2> QED BY <1>2, <1>5, <2>2 DEF TaskInv, Others
  <1>6. lost' \subseteq {u \in Tasks : op'[u] # None}
    BY <1>2 DEF TaskInv, End, Others
  <1> QED BY <1>1, <1>2, <1>3, <1>4, <1>5, <1>6 DEF TaskInv

(* An operation goes on with the rest of its program, or ends. *)
LEMMA AdvanceMoves ==
  ASSUME TaskInv, NEW t \in Tasks, op[t] # None, NEW reply \in Replies, Advance(t, reply)
  PROVE  TaskInv' /\ Others(t) /\ Advances(t, reply)
  <1>1. /\ op[t] \in Operations /\ UnderWay(t) /\ todo[t] \in Seq(Commands) /\ got[t] \in Seq(Replies)
        /\ Len(todo[t]) \in Nat \ {0} /\ Len(Program(op[t])) \in Nat
    BY NextCommand, Programs DEF TaskInv
  <1>2. CASE Len(todo[t]) > 1 /\ todo' = [todo EXCEPT ![t] = Tail(@)]
             /\ got' = (IF op[t].kind = "poll" THEN [got EXCEPT ![t] = Append(@, reply)] ELSE got)
             /\ UNCHANGED <<op, lost, data>>
    <2>1. Others(t) /\ Advances(t, reply)
      BY <1>1, <1>2 DEF TaskInv, Others, Advances
    <2> DEFINE rest == todo[t]
               next == Tail(rest)
    <2>2. /\ next \in Seq(Commands) /\ Len(next) = Len(rest) - 1
          /\ \A i \in 1..Len(next) : next[i] = rest[i + 1]
      <3>1. rest \in Seq(Commands) /\ rest # <<>>
        BY <1>1
      <3> HIDE DEF rest
      <3> QED BY <3>1
    <2> HIDE DEF rest, next
    <2>3. todo'[t] = next
      BY <1>2, <1>1 DEF TaskInv, next, rest
    <2>4. UnderWay(t)'
      <3> DEFINE p == Program(op[t])
      <3>1. /\ Len(rest) \in 1..Len(p)
            /\ \A i \in 1..Len(rest) : rest[i] = p[Len(p) - Len(rest) + i]
            /\ op[t].kind = "poll" => Len(got[t]) = Len(p) - Len(rest)
            /\ op[t].kind # "poll" => got[t] = <<>>
        BY <1>1 DEF UnderWay, Place, rest
      <3> HIDE DEF p
      <3>2. Len(rest) > 1 /\ Len(p) \in Nat
        BY <1>1, <1>2 DEF rest, p
      <3>3. Len(next) \in 1..Len(p)
        BY <2>2, <3>1, <3>2
      <3>4. \A i \in 1..Len(next) : next[i] = p[Len(p) - Len(next) + i]
        <4> TAKE i \in 1..Len(next)
        <4>1. i + 1 \in 1..Len(rest) /\ next[i] = rest[i + 1]
          BY <2>2, <3>2, <3>1
        <4>2. rest[i + 1] = p[Len(p) - Len(rest) + (i + 1)]
          BY <4>1, <3>1
        <4>3. Len(p) - Len(rest) + (i + 1) = Len(p) - Len(next) + i
          BY <2>2, <3>1, <3>2
        <4> QED BY <4>1, <4>2, <4>3
      <3>5. op[t].kind = "poll" => Len(got'[t]) = Len(p) - Len(next)
        <4>1. op[t].kind = "poll" => got'[t] = Append(got[t], reply)
          BY <1>2 DEF TaskInv
        <4> DEFINE g == got[t]
        <4>2. g \in Seq(Replies)
          BY <1>1
        <4> HIDE DEF g
        <4>3. Len(Append(g, reply)) = Len(g) + 1
          BY <4>2
        <4>4. op[t].kind = "poll" => Len(g) = Len(p) - Len(rest)
          BY <3>1 DEF g
        <4>5. (Len(p) - Len(rest)) + 1 = Len(p) - Len(next)
          BY <2>2, <3>1, <3>2
        <4> QED BY <4>1, <4>3, <4>4, <4>5 DEF g
      <3>6. op[t].kind # "poll" => got'[t] = <<>>
        BY <1>2, <3>1
      <3>7. op'[t] = op[t] /\ Program(op'[t]) = p
        BY <1>2 DEF p
      <3> QED BY <2>3, <3>3, <3>4, <3>5, <3>6, <3>7 DEF UnderWay, Place
    <2>5. todo' \in [Tasks -> Seq(Commands)] /\ got' \in [Tasks -> Seq(Replies)] /\ op' = op
      <3>1. todo' = [todo EXCEPT ![t] = next] /\ op' = op
        BY <1>2 DEF next, rest
      <3>2. Append(got[t], reply) \in Seq(Replies)
        BY <1>1
      <3> QED BY <1>2, <2>2, <3>1, <3>2 DEF TaskInv
    <2>6. ASSUME NEW u \in Tasks, op'[u] # None PROVE UnderWay(u)'
      <3>1. CASE u = t
        BY <2>4, <3>1
      <3>2. CASE u # t
        <4>1. UnderWay(u)
          BY <2>5, <2>6 DEF TaskInv
        <4>2. op'[u] = op[u] /\ todo'[u] = todo[u] /\ got'[u] = got[u]
          BY <2>1, <3>2 DEF Others
        <4> QED BY <4>1, <4>2 DEF UnderWay, Place
      <3> QED BY <3>1, <3>2
    <2>7. ASSUME NEW u \in Tasks, op'[u] = None PROVE todo'[u] = <<>> /\ got'[u] = <<>>
      <3>1. u # t /\ op[u] = None
        BY <2>5, <2>7
      <3> QED BY <3>1, <2>1 DEF TaskInv, Others
    <2>8. \A u, v \in Tasks : op'[u] = [kind |-> "poll"] /\ op'[v] = op'[u] => u = v
      BY <2>5 DEF TaskInv
    <2>9. lost' \subseteq {u \in Tasks : op'[u] # None}
      BY <1>2, <2>5 DEF TaskInv
    <2> QED BY <2>1, <2>5, <2>6, <2>7, <2>8, <2>9 DEF TaskInv
  <1>3. CASE Len(todo[t]) = 1 /\ End(t)
             /\ (IF op[t].kind = "poll" THEN Publish(Append(got[t], reply)) ELSE UNCHANGED data)
    <2>1. Others(t) /\ Advances(t, reply)
      BY <1>1, <1>3 DEF TaskInv, Others, Advances, End
    <2> QED BY <1>3, <2>1, EndMoves
  <1> QED BY <1>2, <1>3 DEF Advance

(* An operation begins with its whole program. *)
LEMMA BeginMoves ==
  ASSUME TaskInv, NEW t \in Tasks, Connect(t) \/ Begin(t)
  PROVE  /\ TaskInv' /\ Others(t) /\ lost' = lost
         /\ op[t] = None /\ op'[t] \in Operations /\ op'[t] # None
         /\ todo'[t] = Program(op'[t]) /\ got'[t] = <<>>
  <1>1. PICK what \in Operations :
          /\ what.kind = "poll" => \A u \in Tasks : op[u] # what
          /\ op' = [op EXCEPT ![t] = what]
          /\ todo' = [todo EXCEPT ![t] = Program(what)]
    <2>1. CASE Connect(t)
      BY <2>1, SetUpKind DEF Connect
    <2>2. CASE Begin(t)
      BY <2>2 DEF Begin
    <2> QED BY <2>1, <2>2
  <1>2. op[t] = None /\ got' = got /\ got[t] = <<>> /\ lost' = lost
    BY DEF Connect, Begin, TaskInv
  <1>3. /\ Program(what) \in Seq(Commands) /\ Len(Program(what)) \in Nat \ {0}
        /\ what # None
    BY Programs, NoneAssumption
  <1>4. /\ op' \in [Tasks -> Operations \union {None}]
        /\ todo' \in [Tasks -> Seq(Commands)]
        /\ got' \in [Tasks -> Seq(Replies)]
    BY <1>1, <1>2, <1>3 DEF TaskInv
  <1>5. Others(t) /\ op'[t] = what /\ todo'[t] = Program(what) /\ got'[t] = <<>>
    BY <1>1, <1>2 DEF TaskInv, Others
  <1>6. ASSUME NEW u \in Tasks, op'[u] # None PROVE UnderWay(u)'
    <2>1. CASE u = t
      <3> DEFINE p == Program(what)
      <3>1. Len(p) \in 1..Len(p) /\ Len(p) - Len(p) = 0 /\ \A i \in 1..Len(p) : 0 + i = i
        BY <1>3
      <3>2. op'[t] = what /\ todo'[t] = p /\ got'[t] = <<>> /\ Len(got'[t]) = 0
        BY <1>5
      <3> HIDE DEF p
      <3>3. Program(op'[t]) = p
        BY <3>2 DEF p
      <3> QED BY <2>1, <3>1, <3>2, <3>3 DEF UnderWay, Place
    <2>2. CASE u # t
      <3>1. op'[u] = op[u] /\ todo'[u] = todo[u] /\ got'[u] = got[u]
        BY <1>5, <2>2 DEF Others
      <3>2. UnderWay(u)
        BY <1>6, <3>1 DEF TaskInv
      <3> QED BY <3>1, <3>2 DEF UnderWay, Place
    <2> QED BY <2>1, <2>2
  <1>7. ASSUME NEW u \in Tasks, op'[u] = None PROVE todo'[u] = <<>> /\ got'[u] = <<>>
    BY <1>3, <1>5, <1>7 DEF TaskInv, Others
  <1>8. ASSUME NEW u \in Tasks, NEW v \in Tasks, op'[u] = [kind |-> "poll"], op'[v] = op'[u]
        PROVE  u = v
    <2>1. CASE u # t /\ v # t
      BY <1>5, <1>8, <2>1 DEF TaskInv, Others
    <2>2. CASE u = t /\ v # t
      <3>1. op[v] = what /\ what.kind = "poll"
        BY <1>5, <1>8, <2>2 DEF Others
      <3> QED BY <1>1, <3>1
    <2>3. CASE u # t /\ v = t
      <3>1. op[u] = what /\ what.kind = "poll"
        BY <1>5, <1>8, <2>3 DEF Others
      <3> QED BY <1>1, <3>1
    <2> QED BY <2>1, <2>2, <2>3
  <1>9. lost' \subseteq {u \in Tasks : op'[u] # None}
    BY <1>2, <1>3, <1>5 DEF TaskInv, Others
  <1> QED BY <1>1, <1>2, <1>3, <1>4, <1>5, <1>6, <1>7, <1>8, <1>9 DEF TaskInv

(* Operations whose connection breaks off are lost, and stay where they are. *)
LEMMA BreakOffMoves ==
  ASSUME TaskInv, BreakOff
  PROVE  /\ TaskInv' /\ late' = None /\ connected' = FALSE /\ interrupted' = FALSE
         /\ op' = op /\ todo' = todo /\ got' = got /\ data' = data
         /\ lost' = {t \in Tasks : op[t] # None}
  <1>1. /\ late' = None /\ connected' = FALSE /\ interrupted' = FALSE
        /\ op' = op /\ todo' = todo /\ got' = got /\ data' = data
        /\ lost' = {t \in Tasks : op[t] # None}
    BY DEF BreakOff
  <1>2. TaskInv'
    BY <1>1 DEF TaskInv, UnderWay, Place
  <1> QED BY <1>1, <1>2

(* A lost poll that waits for its last nickname has nothing but that to do. *)
LEMMA LastNick ==
  ASSUME TaskInv, NEW t \in Tasks, LastNickTimesOut(t)
  PROVE  /\ op[t] # None /\ Head(todo[t]).name = NickCmd /\ Advance(t, None)
         /\ None \in Replies /\ late' = late /\ t \in lost
  BY DEF TaskInv, LastNickTimesOut, NickCmd, Replies

-----------------------------------------------------------------------------
(* Commands executed and answered. *)

(* What the device answers. *)
LEMMA AnswerTyped ==
  ASSUME DeviceInv, NEW cmd, Valid(cmd)
  PROVE  /\ Answer(cmd) \in Replies
         /\ cmd.name = "get_active_slot" => Answer(cmd) \in Slots
         /\ cmd.name = "get_slot_info" => Answer(cmd) \in [Slots -> {"UNKNOWN", "MF1_1K"}]
         /\ cmd.name = "get_enabled_slots" => Answer(cmd) \in [Slots -> BOOLEAN]
         /\ cmd.name = NickCmd => Answer(cmd) = nick(cmd.slot, 1)
  <1>1. CASE cmd.name = "get_active_slot"
    <2>1. Answer(cmd) = fw.active
      BY <1>1, Zenon DEF Answer
    <2> QED BY <1>1, <2>1 DEF DeviceInv, Configs, Replies, NickCmd
  <1>2. CASE cmd.name = "get_slot_info"
    <2>1. Answer(cmd) = [s \in Slots |-> fw.slots[s].type]
      BY <1>2, Zenon DEF Answer
    <2> QED BY <1>2, <2>1 DEF DeviceInv, Configs, SlotConfigs, Replies, NickCmd
  <1>3. CASE cmd.name = "get_enabled_slots"
    <2>1. Answer(cmd) = [s \in Slots |-> fw.slots[s].enabled]
      BY <1>3, Zenon DEF Answer
    <2> QED BY <1>3, <2>1 DEF DeviceInv, Configs, SlotConfigs, Replies, NickCmd
  <1>4. CASE cmd.name = NickCmd
    <2>1. Answer(cmd) = nick(cmd.slot, cmd.arg)
      BY <1>4, Zenon DEF Answer, NickCmd
    <2> QED BY <1>4, <2>1 DEF Valid, Replies, NickCmd
  <1>5. CASE cmd.name \notin Reads \union {NickCmd}
    <2>1. Answer(cmd) = None
      BY <1>5, Zenon DEF Answer, Reads, NickCmd
    <2> QED BY <1>5, <2>1 DEF Replies, Reads
  <1> QED BY <1>1, <1>2, <1>3, <1>4, <1>5 DEF Reads

(* What executing a command leaves. *)
LEMMA ExecuteTyped ==
  ASSUME DeviceInv, NEW cmd, Valid(cmd), Execute(cmd)
  PROVE  /\ fw' \in Configs /\ flash' \in Configs /\ sensing' \in BOOLEAN
         /\ ~Marks(cmd) /\ Same(fw, flash) => Same(fw, flash)'
         /\ cmd.name = "save_slot_config" => Same(fw, flash)'
         /\ cmd.name # "set_emulation_sense" => sensing' = sensing
  <1>1. /\ fw' = Configured(fw, cmd)
        /\ flash' = IF cmd.name = "save_slot_config" THEN fw ELSE flash
        /\ sensing' = IF cmd.name = "set_emulation_sense" THEN cmd.arg ELSE sensing
    BY DEF Execute, Saved, Sensing
  <1>2. fw \in Configs /\ flash \in Configs /\ sensing \in BOOLEAN
    BY DEF DeviceInv
  <1>3. fw' \in Configs /\ flash' \in Configs
    BY <1>1, <1>2, ConfiguredTyped
  <1>4. sensing' \in BOOLEAN
    BY <1>1, <1>2 DEF Valid
  <1>5. ASSUME ~Marks(cmd), Same(fw, flash) PROVE Same(fw, flash)'
    <2>1. flash' = flash
      BY <1>1, <1>5 DEF Marks
    <2>2. Same(fw', fw)
      BY <1>1, <1>2, <1>5, ConfiguredSame
    <2> QED BY <1>5, <2>1, <2>2 DEF Same
  <1>6. ASSUME cmd.name = "save_slot_config" PROVE Same(fw, flash)'
    <2>1. flash' = fw /\ fw' = fw
      BY <1>1, <1>6, ConfiguredBySave
    <2> QED BY <2>1 DEF Same
  <1> QED BY <1>1, <1>3, <1>4, <1>5, <1>6

(* A command whose caller gave it up. *)
LEMMA UnansweredTyped ==
  ASSUME TaskInv, NEW t \in Tasks, op[t] # None, NEW how \in SUBSET Disturbances,
         NEW l \in Unanswered(t, how)
  PROVE  /\ l \in LateCommands \union {None}
         /\ l # None => /\ l.cmd = Head(todo[t]) /\ l.op = op[t]
                        /\ \E i \in 1..Len(Program(l.op)) : l.cmd = Program(l.op)[i]
  <1>1. CASE l = None
    BY <1>1
  <1>2. CASE l # None
    <2>1. l = [cmd |-> Head(todo[t]), op |-> op[t], disturbed |-> how] /\ Sendable(Head(todo[t]))
      BY <1>2 DEF Unanswered
    <2>2. /\ op[t] \in Operations /\ Head(todo[t]) \in Commands
          /\ Place(t) + 1 \in 1..Len(Program(op[t]))
          /\ Head(todo[t]) = Program(op[t])[Place(t) + 1]
      BY NextCommand
    <2> DEFINE h == Head(todo[t])
               i == Place(t) + 1
    <2> HIDE DEF h, i
    <2>3. h \in {c \in Commands : Sendable(c)} /\ i \in 1..Len(Program(op[t]))
          /\ h = Program(op[t])[i] /\ l = [cmd |-> h, op |-> op[t], disturbed |-> how]
      BY <2>1, <2>2 DEF h, i
    <2>4. l \in LateCommands
      BY <2>2, <2>3 DEF LateCommands
    <2> QED BY <2>3, <2>4 DEF h
  <1> QED BY <1>1, <1>2

(* A late command has effects like any other; those that bear on what is saved or
   on sensing are history's. *)
LEMMA LateCommand ==
  ASSUME LateInv, late # None
  PROVE  /\ Valid(late.cmd) /\ late.op \in Operations
         /\ ~unsaved => ~Marks(late.cmd)
         /\ ~interrupted => late.cmd.name # "set_emulation_sense"
         /\ late.cmd.name = NickCmd => late.cmd.slot \in Slots
  <1>1. late \in LateCommands
    BY DEF LateInv
  <1>2. late.cmd \in Commands /\ late.op \in Operations
    BY <1>1 DEF LateCommands
  <1>3. Valid(late.cmd)
    BY <1>2, AnyCommand
  <1>4. PICK i \in 1..Len(Program(late.op)) : late.cmd = Program(late.op)[i]
    BY DEF LateInv
  <1>5. Sound(late.op, Program(late.op))
    BY <1>2, Programs
  <1>6. ~Saves(late.op) => ~Marks(late.cmd)
    BY <1>4, <1>5 DEF Sound
  <1>7. ~Quiets(late.op) => late.cmd.name # "set_emulation_sense"
    BY <1>4, <1>5 DEF Sound
  <1>8. (~unsaved => ~Saves(late.op)) /\ (~interrupted => ~Quiets(late.op))
    BY DEF LateInv
  <1>9. late.cmd.name = NickCmd => late.cmd.slot \in Slots
    BY <1>3 DEF Valid
  <1> QED BY <1>2, <1>3, <1>6, <1>7, <1>8, <1>9

(* t's next command is late from now on. *)
Left(t) ==
  /\ late' \in LateCommands /\ late' # None
  /\ late'.cmd = Head(todo[t]) /\ late'.op = op[t]
  /\ \E i \in 1..Len(Program(late'.op)) : late'.cmd = Program(late'.op)[i]

(* What other operations note is a disturbance. *)
LEMMA NotedTyped ==
  ASSUME CountInv, NEW cmd, NEW u \in Tasks
  PROVE  Noted(cmd, u) \in SUBSET Disturbances
  BY DEF CountInv, Noted, Disturbances

(* Nor is what is noted for all of them anything else. *)
LEMMA NoteTyped ==
  ASSUME CountInv, NEW cmd, NEW others, Note(cmd, others)
  PROVE  disturbed' \in [Tasks -> SUBSET Disturbances]
  <1>1. \A u \in Tasks : Noted(cmd, u) \in SUBSET Disturbances
                        /\ disturbed[u] \in SUBSET Disturbances
    BY NotedTyped DEF CountInv
  <1> QED BY <1>1 DEF Note

(* What a command that raises does to the device and leaves behind. *)
RaiseCases(t) ==
  \/ late = None /\ late' = None /\ Execute(Head(todo[t]))
  \/ UNCHANGED firmware /\ (late' = late \/ (late = None /\ Left(t)))
  \/ late # None /\ ~Answers(late.cmd, Head(todo[t])) /\ Execute(late.cmd)
     /\ (late' = None \/ Left(t))

(* Those are the cases. *)
LEMMA RaiseLeaves ==
  ASSUME TaskInv, DeviceInv, LateInv, CountInv, NEW t \in Tasks, op[t] # None, Raise(t)
  PROVE  /\ RaiseCases(t)
         /\ fw' \in Configs /\ flash' \in Configs /\ sensing' \in BOOLEAN
         /\ late' \in LateCommands \union {None}
         /\ ops' = ops /\ faults' \in 0..MaxFaults
         /\ disturbed' \in [Tasks -> SUBSET Disturbances]
  <1> DEFINE cmd == Head(todo[t])
  <1>1. Valid(cmd)
    BY NextCommand
  <1> HIDE DEF cmd
  <1>2. ASSUME Fault PROVE ops' = ops /\ faults' \in 0..MaxFaults
    BY <1>2, CountsAssumption DEF Fault, CountInv
  <1>3. ASSUME NEW how \in SUBSET Disturbances, late' \in Unanswered(t, how)
        PROVE  (late' = None \/ Left(t)) /\ late' \in LateCommands \union {None}
    BY <1>3, UnansweredTyped DEF Left
  <1>4. CASE late = None /\ Execute(cmd) /\ Note(cmd, Tasks \ {t}) /\ Fault /\ UNCHANGED late
    <2>1. fw' \in Configs /\ flash' \in Configs /\ sensing' \in BOOLEAN
      BY <1>1, <1>4, ExecuteTyped
    <2> QED BY <1>2, <1>4, <2>1, NoteTyped DEF RaiseCases, cmd
  <1>5. CASE /\ late' \in {late} \union (IF late = None THEN Unanswered(t, disturbed[t]) ELSE {})
             /\ Fault /\ Note(cmd, {}) /\ UNCHANGED firmware
    <2>1. disturbed[t] \in SUBSET Disturbances
      BY DEF CountInv
    <2>2. late' = late \/ (late = None /\ late' \in Unanswered(t, disturbed[t]))
      BY <1>5
    <2>3. /\ late' = late \/ (late = None /\ Left(t))
          /\ late' \in LateCommands \union {None}
      <3>1. CASE late' = late
        BY <3>1 DEF LateInv
      <3>2. CASE late = None /\ late' \in Unanswered(t, disturbed[t])
        BY <1>3, <2>1, <3>2
      <3> QED BY <2>2, <3>1, <3>2
    <2>4. fw' \in Configs /\ flash' \in Configs /\ sensing' \in BOOLEAN
      BY <1>5 DEF DeviceInv, firmware
    <2> QED BY <1>2, <1>5, <2>3, <2>4, NoteTyped DEF RaiseCases
  <1>6. CASE /\ late # None /\ ~Answers(late.cmd, cmd)
             /\ Execute(late.cmd) /\ Note(late.cmd, Tasks)
             /\ late' \in Unanswered(t, Noted(late.cmd, t))
             /\ UNCHANGED <<ops, faults>>
    <2>1. fw' \in Configs /\ flash' \in Configs /\ sensing' \in BOOLEAN
      BY <1>6, LateCommand, ExecuteTyped
    <2>2. (late' = None \/ Left(t)) /\ late' \in LateCommands \union {None}
      BY <1>3, <1>6, NotedTyped
    <2>3. ops' = ops /\ faults' \in 0..MaxFaults
      BY <1>6 DEF CountInv
    <2> QED BY <1>6, <2>1, <2>2, <2>3, NoteTyped DEF RaiseCases, cmd
  <1>7. CASE ~Sendable(cmd) /\ Note(cmd, {}) /\ UNCHANGED <<firmware, late, ops, faults>>
    <2>1. fw' \in Configs /\ flash' \in Configs /\ sensing' \in BOOLEAN
          /\ late' \in LateCommands \union {None} /\ late' = late /\ UNCHANGED firmware
      BY <1>7 DEF DeviceInv, LateInv, firmware
    <2>2. ops' = ops /\ faults' \in 0..MaxFaults
      BY <1>7 DEF CountInv
    <2> QED BY <1>7, <2>1, <2>2, NoteTyped DEF RaiseCases
  <1> QED BY <1>4, <1>5, <1>6, <1>7 DEF Raise, cmd

(* What a command that takes a late answer does. *)
LEMMA TakeLeaves ==
  ASSUME TaskInv, DeviceInv, LateInv, CountInv, NEW t \in Tasks, TakeLate(t)
  PROVE  /\ op[t] # None /\ late # None /\ Answers(late.cmd, Head(todo[t]))
         /\ Execute(late.cmd) /\ (late' = None \/ Left(t))
         /\ fw' \in Configs /\ flash' \in Configs /\ sensing' \in BOOLEAN
         /\ late' \in LateCommands \union {None}
         /\ Answer(late.cmd) \in Replies
         /\ disturbed' \in [Tasks -> SUBSET Disturbances]
  <1> DEFINE how == Noted(late.cmd, t) \union {"late"}
  <1>1. /\ op[t] # None /\ late # None /\ Answers(late.cmd, Head(todo[t]))
        /\ Execute(late.cmd) /\ late' \in Unanswered(t, how)
        /\ disturbed' = [u \in Tasks |-> IF op'[u] = None THEN {}
                                         ELSE IF u = t THEN how ELSE Noted(late.cmd, u)]
    BY DEF TakeLate, MaySend
  <1>2. \A u \in Tasks : Noted(late.cmd, u) \in SUBSET Disturbances
    BY NotedTyped
  <1>3. how \in SUBSET Disturbances
    BY <1>2 DEF Disturbances
  <1> HIDE DEF how
  <1>4. late' = None \/ Left(t)
    BY <1>1, <1>3, UnansweredTyped DEF Left
  <1>5. late' \in LateCommands \union {None}
    BY <1>1, <1>3, UnansweredTyped
  <1>6. Valid(late.cmd)
    BY <1>1, LateCommand
  <1>7. fw' \in Configs /\ flash' \in Configs /\ sensing' \in BOOLEAN
    BY <1>1, <1>6, ExecuteTyped
  <1>8. Answer(late.cmd) \in Replies
    BY <1>6, AnswerTyped
  <1>9. disturbed' \in [Tasks -> SUBSET Disturbances]
    BY <1>1, <1>2, <1>3
  <1> QED BY <1>1, <1>4, <1>5, <1>7, <1>8, <1>9

(* What is left of the device when the link or the power goes. *)
LEMMA SettledTyped ==
  ASSUME DeviceInv, LateInv, CountInv, NEW settled \in Settled
  PROVE  /\ settled[1] \in Configs /\ settled[2] \in Configs /\ settled[3] \in BOOLEAN
         /\ settled[4] \in [Tasks -> SUBSET Disturbances]
         /\ ~unsaved /\ Same(fw, flash) => Same(settled[1], settled[2])
  <1>1. CASE settled = <<fw, flash, sensing, disturbed>>
    BY <1>1 DEF DeviceInv, CountInv
  <1>2. ASSUME late # None,
               settled = <<Configured(fw, late.cmd), Saved(late.cmd), Sensing(late.cmd),
                           [u \in Tasks |-> Noted(late.cmd, u)]>>
        PROVE  /\ settled[1] \in Configs /\ settled[2] \in Configs /\ settled[3] \in BOOLEAN
               /\ settled[4] \in [Tasks -> SUBSET Disturbances]
               /\ ~unsaved /\ Same(fw, flash) => Same(settled[1], settled[2])
    <2> DEFINE cmd == late.cmd
    <2>1. Valid(cmd) /\ (~unsaved => ~Marks(cmd))
      BY <1>2, LateCommand
    <2>2. fw \in Configs /\ flash \in Configs /\ sensing \in BOOLEAN
      BY DEF DeviceInv
    <2>3. /\ settled[1] = Configured(fw, cmd)
          /\ settled[2] = IF cmd.name = "save_slot_config" THEN fw ELSE flash
          /\ settled[3] = IF cmd.name = "set_emulation_sense" THEN cmd.arg ELSE sensing
          /\ settled[4] = [u \in Tasks |-> Noted(cmd, u)]
      BY <1>2 DEF Saved, Sensing
    <2> HIDE DEF cmd
    <2>4. settled[1] \in Configs /\ settled[2] \in Configs
      BY <2>1, <2>2, <2>3, ConfiguredTyped
    <2>5. settled[3] \in BOOLEAN
      BY <2>1, <2>2, <2>3 DEF Valid
    <2>6. settled[4] \in [Tasks -> SUBSET Disturbances]
      BY <2>3, NotedTyped
    <2>7. ASSUME ~unsaved, Same(fw, flash) PROVE Same(settled[1], settled[2])
      <3>1. settled[2] = flash /\ Same(settled[1], fw)
        BY <2>1, <2>2, <2>3, <2>7, ConfiguredSame DEF Marks
      <3> QED BY <2>7, <3>1 DEF Same
    <2> QED BY <2>4, <2>5, <2>6, <2>7
  <1> QED BY <1>1, <1>2 DEF Settled

-----------------------------------------------------------------------------
(* Every step keeps the invariant. *)

(* Operations keep to their programs. *)
LEMMA TaskStep ==
  ASSUME Inv, Next
  PROVE  TaskInv'
  <1>1. TaskInv /\ DeviceInv /\ LateInv /\ CountInv
    BY DEF Inv
  <1>2. ASSUME NEW t \in Tasks, Connect(t) \/ Begin(t) PROVE TaskInv'
    BY <1>1, <1>2, BeginMoves
  <1>3. ASSUME NEW t \in Tasks, Succeed(t) PROVE TaskInv'
    <2>1. op[t] # None /\ Advance(t, Answer(Head(todo[t])))
      BY <1>3 DEF Succeed, MaySend
    <2>2. Valid(Head(todo[t]))
      BY <1>1, <2>1, NextCommand
    <2>3. Answer(Head(todo[t])) \in Replies
      BY <1>1, <2>2, AnswerTyped
    <2> QED BY <1>1, <2>1, <2>3, AdvanceMoves
  <1>4. ASSUME NEW t \in Tasks, TakeLate(t) PROVE TaskInv'
    <2>1. Advance(t, Answer(late.cmd))
      BY <1>4 DEF TakeLate
    <2> QED BY <1>1, <1>4, <2>1, TakeLeaves, AdvanceMoves
  <1>5. ASSUME NEW t \in Tasks, NickFails(t) PROVE TaskInv'
    <2>1. op[t] # None /\ Advance(t, None) /\ None \in Replies
      BY <1>5 DEF NickFails, MaySend, Replies
    <2> QED BY <1>1, <2>1, AdvanceMoves
  <1>6. ASSUME NEW t \in Tasks, Fail(t) PROVE TaskInv'
    BY <1>1, <1>6, EndMoves DEF Fail
  <1>7. CASE Unsolicited
    BY <1>1, <1>7 DEF Unsolicited, tasks, TaskInv, UnderWay, Place
  <1>8. CASE LinkLost \/ PowerCycle
    BY <1>1, <1>8, BreakOffMoves DEF LinkLost, PowerCycle
  <1>9. ASSUME NEW t \in Tasks, GiveUp(t) PROVE TaskInv'
    BY <1>1, <1>9, EndMoves DEF GiveUp
  <1>10. ASSUME NEW t \in Tasks, LastNickTimesOut(t) PROVE TaskInv'
    BY <1>1, <1>10, LastNick, AdvanceMoves
  <1> QED BY <1>2, <1>3, <1>4, <1>5, <1>6, <1>7, <1>8, <1>9, <1>10 DEF Next

(* The device keeps its types. *)
LEMMA DeviceStep ==
  ASSUME Inv, Next
  PROVE  DeviceInv'
  <1>1. TaskInv /\ DeviceInv /\ LateInv /\ CountInv
    BY DEF Inv
  <1>2. fw \in Configs /\ flash \in Configs
        /\ sensing \in BOOLEAN /\ interrupted \in BOOLEAN /\ unsaved \in BOOLEAN
        /\ connected \in BOOLEAN
    BY <1>1 DEF DeviceInv
  <1>3. ASSUME NEW t \in Tasks, Connect(t) \/ Begin(t) PROVE DeviceInv'
    BY <1>2, <1>3 DEF Connect, Begin, firmware, history, DeviceInv
  <1>4. ASSUME NEW t \in Tasks, Succeed(t) PROVE DeviceInv'
    <2>1. op[t] # None /\ Execute(Head(todo[t])) /\ unsaved' = unsaved /\ connected' = connected
          /\ interrupted' = (interrupted /\ ~(Head(todo[t]).name = "set_emulation_sense"
                                             /\ ~Head(todo[t]).arg))
      BY <1>4 DEF Succeed, MaySend
    <2>2. Valid(Head(todo[t]))
      BY <1>1, <2>1, NextCommand
    <2>3. fw' \in Configs /\ flash' \in Configs /\ sensing' \in BOOLEAN
      BY <1>1, <2>1, <2>2, ExecuteTyped
    <2> QED BY <1>2, <2>1, <2>3 DEF DeviceInv
  <1>5. ASSUME NEW t \in Tasks, TakeLate(t) PROVE DeviceInv'
    <2>1. fw' \in Configs /\ flash' \in Configs /\ sensing' \in BOOLEAN
      BY <1>1, <1>5, TakeLeaves
    <2>2. /\ interrupted' = (interrupted \/ Quiets(op[t]))
          /\ unsaved' = (unsaved \/ Saves(op[t])) /\ connected' = connected
      BY <1>5 DEF TakeLate
    <2> QED BY <1>2, <2>1, <2>2 DEF DeviceInv
  <1>6. ASSUME NEW t \in Tasks, NickFails(t) PROVE DeviceInv'
    <2>1. op[t] # None /\ Raise(t) /\ UNCHANGED <<connected, interrupted, unsaved>>
      BY <1>6 DEF NickFails, MaySend
    <2>2. fw' \in Configs /\ flash' \in Configs /\ sensing' \in BOOLEAN
      BY <1>1, <2>1, RaiseLeaves
    <2> QED BY <1>2, <2>1, <2>2 DEF DeviceInv
  <1>7. ASSUME NEW t \in Tasks, Fail(t) PROVE DeviceInv'
    <2>1. /\ op[t] # None /\ Raise(t)
          /\ interrupted' = (interrupted \/ Quiets(op[t]))
          /\ unsaved' = (unsaved \/ Saves(op[t])) /\ connected' = connected
      BY <1>7 DEF Fail, MaySend
    <2>2. fw' \in Configs /\ flash' \in Configs /\ sensing' \in BOOLEAN
      BY <1>1, <2>1, RaiseLeaves
    <2> QED BY <1>2, <2>1, <2>2 DEF DeviceInv
  <1>8. CASE Unsolicited
    <2>1. late # None /\ Execute(late.cmd) /\ UNCHANGED <<connected, interrupted, unsaved>>
      BY <1>8 DEF Unsolicited
    <2>2. fw' \in Configs /\ flash' \in Configs /\ sensing' \in BOOLEAN
      BY <1>1, <2>1, LateCommand, ExecuteTyped
    <2> QED BY <1>2, <2>1, <2>2 DEF DeviceInv
  <1>9. CASE LinkLost
    <2>1. PICK settled \in Settled :
            fw' = settled[1] /\ flash' = settled[2] /\ sensing' \in {settled[3], TRUE}
      BY <1>9 DEF LinkLost
    <2>2. unsaved' = (unsaved \/ \E t \in Tasks \ lost : op[t] # None /\ Saves(op[t]))
      BY <1>9 DEF LinkLost
    <2>3. connected' = FALSE /\ interrupted' = FALSE
      BY <1>9 DEF LinkLost, BreakOff
    <2>4. fw' \in Configs /\ flash' \in Configs /\ sensing' \in BOOLEAN
      BY <1>1, <2>1, SettledTyped
    <2> QED BY <1>2, <2>2, <2>3, <2>4 DEF DeviceInv
  <1>10. CASE PowerCycle
    <2>1. PICK settled \in Settled : flash' = settled[2] /\ fw' = settled[2]
      BY <1>10 DEF PowerCycle
    <2>2. sensing' = TRUE /\ interrupted' = FALSE /\ unsaved' = FALSE /\ connected' = FALSE
      BY <1>10 DEF PowerCycle, BreakOff
    <2> QED BY <1>1, <2>1, <2>2, SettledTyped DEF DeviceInv
  <1>11. ASSUME NEW t \in Tasks, GiveUp(t) \/ LastNickTimesOut(t) PROVE DeviceInv'
    BY <1>2, <1>11 DEF GiveUp, LastNickTimesOut, firmware, DeviceInv
  <1> QED BY <1>3, <1>4, <1>5, <1>6, <1>7, <1>8, <1>9, <1>10, <1>11 DEF Next

(* The bounds and the history of disturbances. *)
LEMMA CountStep ==
  ASSUME Inv, Next
  PROVE  CountInv'
  <1>1. TaskInv /\ DeviceInv /\ LateInv /\ CountInv
    BY DEF Inv
  <1>2. /\ ops \in 0..MaxOps /\ faults \in 0..MaxFaults
        /\ disturbed \in [Tasks -> SUBSET Disturbances]
        /\ MaxOps \in Nat /\ MaxFaults \in Nat
    BY <1>1, CountsAssumption DEF CountInv
  <1>3. ASSUME NEW t \in Tasks, Connect(t) \/ Begin(t) PROVE CountInv'
    BY <1>2, <1>3 DEF Connect, Begin, history, CountInv
  <1>4. ASSUME NEW t \in Tasks, Succeed(t) PROVE CountInv'
    BY <1>1, <1>2, <1>4, NoteTyped DEF Succeed, CountInv
  <1>5. ASSUME NEW t \in Tasks, TakeLate(t) PROVE CountInv'
    <2>1. ops' = ops /\ faults' = faults
      BY <1>5 DEF TakeLate
    <2> QED BY <1>1, <1>2, <1>5, <2>1, TakeLeaves DEF CountInv
  <1>6. ASSUME NEW t \in Tasks, op[t] # None, Raise(t) PROVE CountInv'
    BY <1>1, <1>2, <1>6, RaiseLeaves DEF CountInv
  <1>7. ASSUME NEW t \in Tasks, NickFails(t) \/ Fail(t) PROVE CountInv'
    BY <1>6, <1>7 DEF NickFails, Fail, MaySend
  <1>8. CASE Unsolicited
    BY <1>1, <1>2, <1>8, NoteTyped DEF Unsolicited, CountInv
  <1>9. ASSUME Fault PROVE ops' = ops /\ faults' \in 0..MaxFaults
    BY <1>2, <1>9 DEF Fault
  <1>10. CASE LinkLost
    <2>1. PICK settled \in Settled : disturbed' = settled[4]
      BY <1>10 DEF LinkLost
    <2>2. disturbed' \in [Tasks -> SUBSET Disturbances]
      BY <1>1, <2>1, SettledTyped
    <2> QED BY <1>2, <1>9, <1>10, <2>2 DEF LinkLost, BreakOff, CountInv
  <1>11. CASE PowerCycle
    <2>1. PICK settled \in Settled :
            disturbed' = [u \in Tasks |-> settled[4][u] \union
              (IF op[u] # None /\ settled[2] # settled[1] THEN {"moved"} ELSE {})]
      BY <1>11 DEF PowerCycle
    <2>2. settled[4] \in [Tasks -> SUBSET Disturbances]
      BY <1>1, SettledTyped
    <2>3. disturbed' \in [Tasks -> SUBSET Disturbances]
      BY <2>1, <2>2 DEF Disturbances
    <2> QED BY <1>2, <1>9, <1>11, <2>3 DEF PowerCycle, BreakOff, CountInv
  <1>12. ASSUME NEW t \in Tasks, GiveUp(t) \/ LastNickTimesOut(t) PROVE CountInv'
    BY <1>2, <1>12 DEF GiveUp, LastNickTimesOut, CountInv
  <1> QED BY <1>3, <1>4, <1>5, <1>7, <1>8, <1>10, <1>11, <1>12 DEF Next

(* History knows the late commands of operations that broke off, or that got the
   answer of another command. *)
LEMMA LateStep ==
  ASSUME Inv, Next
  PROVE  LateInv'
  <1>1. TaskInv /\ DeviceInv /\ LateInv /\ CountInv
    BY DEF Inv
  <1>2. ASSUME NEW t \in Tasks, late' = None \/ Left(t),
               Saves(op[t]) => unsaved', Quiets(op[t]) => interrupted'
        PROVE  LateInv'
    BY <1>2 DEF LateInv, Left
  <1>3. ASSUME late' = late, unsaved => unsaved', interrupted => interrupted'
        PROVE  LateInv'
    BY <1>1, <1>3 DEF LateInv
  <1>4. ASSUME late' = None PROVE LateInv'
    BY <1>4 DEF LateInv
  <1>5. ASSUME NEW t \in Tasks, Connect(t) \/ Begin(t) PROVE LateInv'
    BY <1>3, <1>5 DEF Connect, Begin, history
  <1>6. ASSUME NEW t \in Tasks, Succeed(t) PROVE LateInv'
    BY <1>4, <1>6 DEF Succeed
  <1>7. ASSUME NEW t \in Tasks, TakeLate(t) PROVE LateInv'
    <2>1. late' = None \/ Left(t)
      BY <1>1, <1>7, TakeLeaves
    <2>2. (Saves(op[t]) => unsaved') /\ (Quiets(op[t]) => interrupted')
      BY <1>7 DEF TakeLate
    <2> QED BY <1>2, <2>1, <2>2
  <1>8. ASSUME NEW t \in Tasks, NickFails(t) PROVE LateInv'
    <2>1. /\ op[t] # None /\ Head(todo[t]).name = NickCmd /\ Raise(t)
          /\ unsaved' = unsaved /\ interrupted' = interrupted
      BY <1>8 DEF NickFails, MaySend, NickCmd
    <2>2. op[t].kind = "poll"
      BY <1>1, <2>1, NextCommand
    <2>3. ~Saves(op[t]) /\ ~Quiets(op[t])
      BY <2>2 DEF Saves, Quiets
    <2>4. late' = late \/ late' = None \/ Left(t)
      BY <1>1, <2>1, RaiseLeaves DEF RaiseCases
    <2> QED BY <1>2, <1>3, <2>1, <2>3, <2>4
  <1>9. ASSUME NEW t \in Tasks, Fail(t) PROVE LateInv'
    <2>1. /\ op[t] # None /\ Raise(t)
          /\ interrupted' = (interrupted \/ Quiets(op[t]))
          /\ unsaved' = (unsaved \/ Saves(op[t]))
      BY <1>9 DEF Fail, MaySend
    <2>2. late' = late \/ late' = None \/ Left(t)
      BY <1>1, <2>1, RaiseLeaves DEF RaiseCases
    <2> QED BY <1>2, <1>3, <2>1, <2>2
  <1>10. CASE Unsolicited
    BY <1>4, <1>10 DEF Unsolicited
  <1>11. CASE LinkLost \/ PowerCycle
    BY <1>4, <1>11 DEF LinkLost, PowerCycle, BreakOff
  <1>12. ASSUME NEW t \in Tasks, GiveUp(t) \/ LastNickTimesOut(t) PROVE LateInv'
    BY <1>3, <1>12 DEF GiveUp, LastNickTimesOut
  <1> QED BY <1>5, <1>6, <1>7, <1>8, <1>9, <1>10, <1>11, <1>12 DEF Next

(* What is not saved yet is saved by an operation under way: the last command of
   one that changes it saves, and so it cannot end before that. *)
LEMMA SaveStep ==
  ASSUME Inv, Next, ~unsaved'
  PROVE  SaveInv'
  <1>1. TaskInv /\ DeviceInv /\ LateInv /\ CountInv /\ SaveInv
    BY DEF Inv
  <1> DEFINE Saving(t) == t \notin lost /\ op[t] # None /\ Saves(op[t])
             Clean == Same(fw, flash)
  <1>2. SaveInv <=> unsaved \/ Clean \/ \E t \in Tasks : Saving(t)
    BY DEF SaveInv
  <1>3. SaveInv' <=> unsaved' \/ Same(fw, flash)' \/ 
               \E t \in Tasks \ lost' : op'[t] # None /\ Saves(op'[t])
    BY DEF SaveInv
  (* No operation that saves ends, and the device does nothing that needs one. *)
  <1>4. ASSUME ~unsaved, Clean => Same(fw, flash)',
               \A t \in Tasks : Saving(t) => op'[t] = op[t] /\ t \notin lost'
        PROVE  SaveInv'
    BY <1>1, <1>2, <1>3, <1>4
  (* A command that bears on what is saved is executed late only after history
     has noted it. *)
  <1>5. ASSUME ~unsaved, late # None, Execute(late.cmd) PROVE Clean => Same(fw, flash)'
    BY <1>1, <1>5, LateCommand, ExecuteTyped
  <1>6. ASSUME NEW t \in Tasks, Others(t), ~Saves(op[t]) \/ t \in lost
        PROVE  \A u \in Tasks : Saving(u) => op'[u] = op[u] /\ u \notin lost'
    BY <1>6 DEF Others
  <1>7. ASSUME NEW t \in Tasks, Connect(t) \/ Begin(t) PROVE SaveInv'
    <2>1. Others(t) /\ op[t] = None
      BY <1>1, <1>7, BeginMoves
    <2>2. fw' = fw /\ flash' = flash /\ unsaved' = unsaved
      BY <1>7 DEF Connect, Begin, firmware, history
    <2>3. Clean => Same(fw, flash)'
      BY <2>2 DEF Same
    <2> QED BY <1>4, <2>1, <2>2, <2>3 DEF Others
  <1>8. ASSUME NEW t \in Tasks, Succeed(t) PROVE SaveInv'
    <2> DEFINE cmd == Head(todo[t])
    <2>1. /\ op[t] # None /\ t \notin lost
          /\ Execute(cmd) /\ Advance(t, Answer(cmd)) /\ unsaved' = unsaved
      BY <1>8 DEF Succeed, MaySend
    <2>2. /\ Valid(cmd) /\ Len(todo[t]) \in Nat \ {0}
          /\ Saves(op[t]) /\ Len(todo[t]) = 1 => cmd.name = "save_slot_config"
          /\ ~Saves(op[t]) => ~Marks(cmd)
      BY <1>1, <2>1, NextCommand
    <2> HIDE DEF cmd
    <2>3. Answer(cmd) \in Replies
      BY <1>1, <2>2, AnswerTyped
    <2>4. Others(t) /\ Advances(t, Answer(cmd))
      BY <1>1, <2>1, <2>3, AdvanceMoves
    <2>5. CASE ~Saves(op[t])
      <3>1. Clean => Same(fw, flash)'
        BY <1>1, <2>1, <2>2, <2>5, ExecuteTyped
      <3> QED BY <1>4, <1>6, <2>1, <2>4, <2>5, <3>1
    <2>6. CASE Saves(op[t]) /\ Len(todo[t]) = 1
      <3>1. Same(fw, flash)'
        BY <1>1, <2>1, <2>2, <2>6, ExecuteTyped
      <3> QED BY <1>3, <3>1
    <2>7. CASE Saves(op[t]) /\ Len(todo[t]) > 1
      <3> DEFINE n == Len(todo[t])
      <3>1. (n > 1 /\ op'[t] = op[t] /\ lost' = lost) \/ n = 1
        BY <2>4, Zenon DEF Advances
      <3>2. n \in Nat /\ n > 1
        BY <2>2, <2>7
      <3> HIDE DEF n
      <3>3. op'[t] = op[t] /\ lost' = lost
        BY <3>1, <3>2
      <3>4. op'[t] # None /\ Saves(op'[t]) /\ t \notin lost'
        BY <2>1, <2>7, <3>3, Zenon
      <3> QED BY <1>3, <3>4
    <2>8. Len(todo[t]) = 1 \/ Len(todo[t]) > 1
      <3> DEFINE n == Len(todo[t])
      <3>1. n \in Nat \ {0}
        BY <2>2
      <3> HIDE DEF n
      <3>2. n = 1 \/ n > 1
        BY <3>1
      <3> QED BY <3>2 DEF n
    <2> QED BY <2>5, <2>6, <2>7, <2>8, Zenon
  <1>9. ASSUME NEW t \in Tasks, TakeLate(t) PROVE SaveInv'
    <2>1. ~unsaved /\ ~Saves(op[t])
      BY <1>9 DEF TakeLate
    <2>2. op[t] # None /\ late # None /\ Execute(late.cmd) /\ Answer(late.cmd) \in Replies
      BY <1>1, <1>9, TakeLeaves
    <2>3. Others(t)
      BY <1>1, <1>9, <2>2, AdvanceMoves DEF TakeLate
    <2> QED BY <1>4, <1>5, <1>6, <2>1, <2>2, <2>3
  <1>10. ASSUME NEW t \in Tasks, op[t] # None, Raise(t), ~unsaved, ~Saves(op[t])
         PROVE  Clean => Same(fw, flash)'
    <2>1. Valid(Head(todo[t])) /\ ~Marks(Head(todo[t]))
      BY <1>1, <1>10, NextCommand
    <2>2. CASE Execute(Head(todo[t]))
      BY <1>1, <2>1, <2>2, ExecuteTyped
    <2>3. CASE UNCHANGED firmware
      BY <2>3 DEF firmware, Same
    <2>4. CASE late # None /\ Execute(late.cmd)
      BY <1>5, <1>10, <2>4
    <2> QED BY <1>1, <1>10, <2>2, <2>3, <2>4, RaiseLeaves DEF RaiseCases
  <1>11. ASSUME NEW t \in Tasks, NickFails(t) PROVE SaveInv'
    <2>1. /\ op[t] # None /\ Head(todo[t]).name = NickCmd /\ Raise(t)
          /\ unsaved' = unsaved /\ Advance(t, None) /\ None \in Replies
      BY <1>11 DEF NickFails, MaySend, NickCmd, Replies
    <2>2. op[t].kind = "poll"
      BY <1>1, <2>1, NextCommand
    <2>3. ~Saves(op[t])
      BY <2>2 DEF Saves
    <2>4. Others(t)
      BY <1>1, <2>1, AdvanceMoves
    <2> QED BY <1>4, <1>6, <1>10, <2>1, <2>3, <2>4
  <1>12. ASSUME NEW t \in Tasks, Fail(t) PROVE SaveInv'
    <2>1. op[t] # None /\ Raise(t) /\ ~unsaved /\ ~Saves(op[t]) /\ End(t)
      BY <1>12 DEF Fail, MaySend
    <2>2. Others(t)
      BY <1>1, <2>1, EndMoves
    <2> QED BY <1>4, <1>6, <1>10, <2>1, <2>2
  <1>13. CASE Unsolicited
    <2>1. late # None /\ Execute(late.cmd) /\ unsaved' = unsaved /\ op' = op /\ lost' = lost
      BY <1>13 DEF Unsolicited, tasks
    <2> QED BY <1>4, <1>5, <2>1
  <1>14. CASE LinkLost
    <2>1. ~unsaved /\ ~\E t \in Tasks : Saving(t)
      BY <1>14 DEF LinkLost
    <2>2. PICK settled \in Settled : fw' = settled[1] /\ flash' = settled[2]
      BY <1>14 DEF LinkLost
    <2>3. Same(settled[1], settled[2])
      BY <1>1, <1>2, <2>1, SettledTyped
    <2> QED BY <1>3, <2>2, <2>3 DEF Same
  <1>15. CASE PowerCycle
    <2>1. fw' = flash'
      BY <1>15 DEF PowerCycle
    <2> QED BY <1>3, <2>1 DEF Same
  <1>16. ASSUME NEW t \in Tasks, GiveUp(t) \/ LastNickTimesOut(t) PROVE SaveInv'
    <2>1. Others(t) /\ t \in lost
      <3>1. CASE GiveUp(t)
        BY <1>1, <3>1, EndMoves DEF GiveUp
      <3>2. CASE LastNickTimesOut(t)
        BY <1>1, <3>2, LastNick, AdvanceMoves
      <3> QED BY <1>16, <3>1, <3>2
    <2>2. fw' = fw /\ flash' = flash /\ unsaved' = unsaved
      BY <1>16 DEF GiveUp, LastNickTimesOut, firmware
    <2>3. Clean => Same(fw, flash)'
      BY <2>2 DEF Same
    <2> QED BY <1>4, <1>6, <2>1, <2>2, <2>3
  <1> QED BY <1>7, <1>8, <1>9, <1>11, <1>12, <1>13, <1>14, <1>15, <1>16 DEF Next

(* An unlock: on, then off; it holds the lock while its second command is next. *)
LEMMA UnlockPlace ==
  ASSUME TaskInv, NEW t \in Tasks, op[t] = [kind |-> "unlock"], t \notin lost
  PROVE  /\ op[t] # None /\ Quiets(op[t])
         /\ Head(todo[t]).name = "set_emulation_sense"
         /\ ~Holding(t) => Len(todo[t]) = 2
         /\ Holding(t) => Len(todo[t]) = 1 /\ Head(todo[t]).arg = FALSE
  <1> DEFINE a == Cmd("set_emulation_sense", None, TRUE)
             z == Cmd("set_emulation_sense", None, FALSE)
             p == <<a, z>>
             cmd == Head(todo[t])
             n == Len(todo[t])
  <1>1. op[t] \in Operations /\ op[t] # None /\ op[t].kind = "unlock"
    BY NoneAssumption DEF Operations
  <1>2. Program(op[t]) = p /\ Unlock = p
    BY <1>1, Zenon DEF Program, Unlock
  <1>3. /\ a.name = "set_emulation_sense" /\ z.name = "set_emulation_sense" /\ z.arg = FALSE
    BY DEF Cmd
  <1> HIDE DEF a, z
  <1>4. Len(p) = 2 /\ p[1] = a /\ p[2] = z
    OBVIOUS
  <1> HIDE DEF p
  <1>5. /\ Place(t) \in Nat /\ Place(t) + 1 \in 1..Len(p) /\ cmd = p[Place(t) + 1]
        /\ n \in Nat \ {0}
    BY <1>1, <1>2, NextCommand
  <1>6. Place(t) = Len(p) - n
    BY <1>2 DEF Place
  <1>7. Holding(t) <=> n < 2
    BY <1>2, <1>4 DEF Holding
  <1> HIDE DEF cmd, n
  <1>8. (n = 2 /\ cmd = a) \/ (n = 1 /\ cmd = z)
    BY <1>4, <1>5, <1>6
  <1>9. (~Holding(t) => n = 2) /\ (Holding(t) => n = 1 /\ cmd.arg = FALSE)
    BY <1>3, <1>7, <1>8
  <1>10. cmd.name = "set_emulation_sense"
    BY <1>3, <1>8
  <1> QED BY <1>1, <1>9, <1>10 DEF cmd, n, Quiets

(* The last command of a set-up turns sensing off. *)
LEMMA SetUpPlace ==
  ASSUME TaskInv, NEW t \in Tasks, op[t] = SetUp
  PROVE  Head(todo[t]).name = "set_emulation_sense" /\ Head(todo[t]).arg = FALSE
  <1> DEFINE z == Cmd("set_emulation_sense", None, FALSE)
             p == <<z>>
             cmd == Head(todo[t])
  <1>1. op[t] \in Operations /\ op[t] # None /\ op[t].kind = "set_up"
    BY SetUpKind
  <1>2. Program(op[t]) = p
    BY <1>1, Zenon DEF Program, Quiet
  <1>3. z.name = "set_emulation_sense" /\ z.arg = FALSE
    BY DEF Cmd
  <1> HIDE DEF z
  <1>4. Len(p) = 1 /\ p[1] = z
    OBVIOUS
  <1> HIDE DEF p
  <1>5. Place(t) \in Nat /\ Place(t) + 1 \in 1..Len(p) /\ cmd = p[Place(t) + 1]
    BY <1>1, <1>2, NextCommand
  <1>6. Place(t) + 1 = 1
    BY <1>4, <1>5
  <1> QED BY <1>3, <1>4, <1>5, <1>6

(* An operation that has to do with sensing is under way on the connection. *)
Quieting(t) == Holding(t) \/ (op[t] = SetUp /\ t \notin lost)

(* Sensing is turned on by an unlock that holds the lock from then on, until it
   turns it off; if that fails history notes it.  A connection begins with a
   device that may be sensing, and its set-up turns that off. *)
LEMMA SenseStep ==
  ASSUME Inv, Next
  PROVE  SenseInv'
  <1>1. TaskInv /\ DeviceInv /\ LateInv /\ CountInv
    BY DEF Inv
  <1>2. connected /\ sensing => interrupted \/ \E t \in Tasks : Quieting(t)
    BY DEF Inv, SenseInv, SensingNeedsUnlock, Quieting
  <1>3. SenseInv' <=>
          (connected' /\ sensing' => interrupted' \/ \E t \in Tasks : Quieting(t)')
    BY DEF SenseInv, SensingNeedsUnlock, Quieting
  <1>4. ASSUME late # None, Execute(late.cmd), ~interrupted PROVE sensing' = sensing
    BY <1>1, <1>4, LateCommand, ExecuteTyped
  (* What other tasks are at stays. *)
  <1>5. ASSUME NEW t \in Tasks, Others(t), NEW u \in Tasks \ {t}, Quieting(u)
        PROVE  Quieting(u)'
    BY <1>5 DEF Quieting, Holding, Others
  (* A task that has nothing to do with sensing changes nothing. *)
  <1>6. ASSUME NEW t \in Tasks, ~Quieting(t), Others(t), connected' = connected,
               ~interrupted' => ~interrupted /\ sensing' = sensing
        PROVE  SenseInv'
    <2> SUFFICES ASSUME connected', sensing', ~interrupted'
                 PROVE  \E u \in Tasks : Quieting(u)'
      BY <1>3
    <2>1. PICK u \in Tasks : Quieting(u)
      BY <1>2, <1>6
    <2>2. u # t
      BY <1>6, <2>1
    <2> QED BY <1>5, <1>6, <2>1, <2>2
  <1>7. ASSUME NEW t \in Tasks, op[t] # None, op[t] \in Operations, ~Quiets(op[t])
        PROVE  ~Quieting(t)
    BY <1>7, SetUpKind DEF Quiets, Quieting, Holding
  <1>8. ASSUME NEW t \in Tasks, Begin(t) PROVE SenseInv'
    <2>1. /\ Others(t) /\ op[t] = None /\ connected' = connected
          /\ sensing' = sensing /\ interrupted' = interrupted
      BY <1>1, <1>8, BeginMoves DEF Begin, firmware, history
    <2>2. ~Quieting(t)
      BY <2>1, SetUpKind, NoneAssumption DEF Quieting, Holding, Operations
    <2> QED BY <1>6, <2>1, <2>2
  <1>9. ASSUME NEW t \in Tasks, Connect(t) PROVE SenseInv'
    <2>1. op'[t] = SetUp /\ t \notin lost'
      BY <1>1, <1>9 DEF Connect, TaskInv
    <2> QED BY <1>3, <2>1 DEF Quieting
  <1>10. ASSUME NEW t \in Tasks, Succeed(t) PROVE SenseInv'
    <2> DEFINE cmd == Head(todo[t])
    <2>1. /\ op[t] # None /\ t \notin lost /\ MaySend(t)
          /\ Execute(cmd) /\ Advance(t, Answer(cmd)) /\ connected' = connected
          /\ interrupted' = (interrupted /\ ~(cmd.name = "set_emulation_sense" /\ ~cmd.arg))
      BY <1>10 DEF Succeed, MaySend
    <2>2. Valid(cmd) /\ op[t] \in Operations
      BY <1>1, <2>1, NextCommand
    <2>3. Others(t) /\ Advances(t, Answer(cmd))
      BY <1>1, <2>1, <2>2, AnswerTyped, AdvanceMoves
    <2>4. ASSUME Quieting(t) PROVE SenseInv'
      <3>1. cmd.name = "set_emulation_sense" /\ cmd.arg = FALSE
        <4>1. CASE Holding(t)
          <5>1. op[t] = [kind |-> "unlock"]
            BY <4>1 DEF Holding
          <5> QED BY <1>1, <2>1, <4>1, <5>1, UnlockPlace
        <4>2. CASE op[t] = SetUp
          BY <1>1, <4>2, SetUpPlace
        <4> QED BY <2>4, <4>1, <4>2 DEF Quieting
      <3>2. sensing' = FALSE
        BY <2>1, <3>1 DEF Execute, Sensing
      <3> QED BY <1>3, <3>2
    <2>5. ASSUME op[t] = [kind |-> "unlock"], ~Holding(t) PROVE SenseInv'
      <3>1. Len(todo[t]) = 2 /\ todo[t] \in Seq(Commands)
        BY <1>1, <2>1, <2>5, UnlockPlace DEF TaskInv
      <3>2. op'[t] = op[t] /\ todo'[t] = Tail(todo[t]) /\ lost' = lost
        BY <2>3, <3>1 DEF Advances
      <3>3. Len(todo'[t]) = 1
        <4> DEFINE rest == todo[t]
        <4> HIDE DEF rest, cmd
        <4>1. Len(rest) = 2 /\ rest \in Seq(Commands) /\ todo'[t] = Tail(rest)
          BY <3>1, <3>2 DEF rest
        <4>2. rest # <<>>
          <5>1. Len(<<>>) # 2
            OBVIOUS
          <5> QED BY <4>1, <5>1, Zenon
        <4>3. Len(Tail(rest)) = Len(rest) - 1
          BY <4>1, <4>2, HeadTailProperties
        <4> QED BY <4>1, <4>3
      <3>4. Len(Unlock) = 2
        BY DEF Unlock
      <3>5. Len(todo'[t]) < Len(Unlock) /\ op'[t] = [kind |-> "unlock"] /\ t \notin lost'
        <4>1. 1 < 2
          OBVIOUS
        <4> QED BY <2>1, <2>5, <3>2, <3>3, <3>4, <4>1, Zenon
      <3>6. Holding(t)'
        BY <3>5, Zenon DEF Holding
      <3> QED BY <1>3, <3>6 DEF Quieting
    <2>6. ASSUME op[t] # [kind |-> "unlock"], op[t] # SetUp PROVE SenseInv'
      <3>1. ~Quiets(op[t])
        BY <2>2, <2>6, Kinds DEF Quiets
      <3>2. cmd.name # "set_emulation_sense"
        BY <1>1, <2>1, <3>1, NextCommand
      <3>3. sensing' = sensing /\ (interrupted => interrupted')
        BY <2>1, <3>2 DEF Execute, Sensing
      <3> QED BY <1>6, <1>7, <2>1, <2>2, <2>3, <3>1, <3>3
    <2> QED BY <2>1, <2>4, <2>5, <2>6 DEF Quieting
  <1>11. ASSUME NEW t \in Tasks, TakeLate(t) PROVE SenseInv'
    <2>1. /\ late # None /\ Execute(late.cmd) /\ connected' = connected
          /\ interrupted' = (interrupted \/ Quiets(op[t])) /\ Advance(t, Answer(late.cmd))
      BY <1>11 DEF TakeLate
    <2>2. op[t] # None /\ Answer(late.cmd) \in Replies
      BY <1>1, <1>11, TakeLeaves
    <2>3. Others(t) /\ op[t] \in Operations
      BY <1>1, <2>1, <2>2, AdvanceMoves, NextCommand
    <2>4. ~interrupted' => ~interrupted /\ sensing' = sensing /\ ~Quieting(t)
      BY <1>4, <1>7, <2>1, <2>2, <2>3
    <2> QED BY <1>3, <1>6, <2>1, <2>3, <2>4
  <1>12. ASSUME NEW t \in Tasks, op[t] # None, Raise(t), ~interrupted, ~Quiets(op[t])
         PROVE  sensing' = sensing
    <2>1. Valid(Head(todo[t])) /\ Head(todo[t]).name # "set_emulation_sense"
      BY <1>1, <1>12, NextCommand
    <2>2. CASE Execute(Head(todo[t]))
      BY <1>1, <2>1, <2>2, ExecuteTyped
    <2>3. CASE UNCHANGED firmware
      BY <2>3 DEF firmware
    <2>4. CASE late # None /\ Execute(late.cmd)
      BY <1>4, <1>12, <2>4
    <2> QED BY <1>1, <1>12, <2>2, <2>3, <2>4, RaiseLeaves DEF RaiseCases
  <1>13. ASSUME NEW t \in Tasks, NickFails(t) PROVE SenseInv'
    <2>1. /\ op[t] # None /\ Head(todo[t]).name = NickCmd /\ Raise(t)
          /\ interrupted' = interrupted /\ connected' = connected
          /\ Advance(t, None) /\ None \in Replies
      BY <1>13 DEF NickFails, MaySend, NickCmd, Replies
    <2>2. op[t] \in Operations /\ op[t].kind = "poll"
      BY <1>1, <2>1, NextCommand
    <2>3. ~Quiets(op[t])
      BY <2>2 DEF Quiets
    <2>4. Others(t) /\ ~Quieting(t)
      BY <1>1, <1>7, <2>1, <2>2, <2>3, AdvanceMoves
    <2> QED BY <1>6, <1>12, <2>1, <2>3, <2>4
  <1>14. ASSUME NEW t \in Tasks, Fail(t) PROVE SenseInv'
    <2>1. /\ op[t] # None /\ Raise(t) /\ interrupted' = (interrupted \/ Quiets(op[t]))
          /\ End(t) /\ connected' = connected
      BY <1>14 DEF Fail, MaySend
    <2>2. Others(t) /\ op[t] \in Operations
      BY <1>1, <2>1, EndMoves, NextCommand
    <2>3. ~interrupted' => ~interrupted /\ sensing' = sensing /\ ~Quieting(t)
      BY <1>7, <1>12, <2>1, <2>2
    <2> QED BY <1>3, <1>6, <2>1, <2>2, <2>3
  <1>15. CASE Unsolicited
    <2>1. /\ late # None /\ Execute(late.cmd) /\ interrupted' = interrupted
          /\ op' = op /\ todo' = todo /\ lost' = lost /\ connected' = connected
      BY <1>15 DEF Unsolicited, tasks
    <2>2. \A t \in Tasks : Quieting(t) => Quieting(t)'
      BY <2>1 DEF Quieting, Holding
    <2> QED BY <1>2, <1>3, <1>4, <2>1, <2>2
  <1>16. CASE LinkLost \/ PowerCycle
    BY <1>3, <1>16 DEF LinkLost, PowerCycle, BreakOff
  <1>17. ASSUME NEW t \in Tasks, GiveUp(t) \/ LastNickTimesOut(t) PROVE SenseInv'
    <2>1. Others(t) /\ t \in lost
      <3>1. CASE GiveUp(t)
        BY <1>1, <3>1, EndMoves DEF GiveUp
      <3>2. CASE LastNickTimesOut(t)
        BY <1>1, <3>2, LastNick, AdvanceMoves
      <3> QED BY <1>17, <3>1, <3>2
    <2>2. sensing' = sensing /\ interrupted' = interrupted /\ connected' = connected
      BY <1>17 DEF GiveUp, LastNickTimesOut, firmware
    <2>3. ~Quieting(t)
      BY <2>1 DEF Quieting, Holding
    <2> QED BY <1>6, <2>1, <2>2, <2>3
  <1> QED BY <1>8, <1>9, <1>10, <1>11, <1>13, <1>14, <1>15, <1>16, <1>17 DEF Next

-----------------------------------------------------------------------------
(* Nicknames and the data of the coordinator. *)

(* The gaps above a place are finitely many. *)
LEMMA GapsCount ==
  ASSUME NEW nicks, NEW i \in Nat
  PROVE  IsFiniteSet(Gaps(nicks, i)) /\ Cardinality(Gaps(nicks, i)) \in Nat
  <1>1. i - 1 \in Int
    OBVIOUS
  <1>2. IsFiniteSet(1..(i - 1))
    BY <1>1, FS_Interval
  <1>3. Gaps(nicks, i) \subseteq 1..(i - 1)
    BY DEF Gaps
  <1> QED BY <1>2, <1>3, FS_Subset, FS_CardinalityType

(* A nickname more leaves the gaps above the others alone; it is a gap itself, or
   none. *)
LEMMA GapsOfAppend ==
  ASSUME NEW nicks \in Seq(Replies), NEW x \in Replies
  PROVE  LET a == Append(nicks, x)
             n == Len(nicks)
         IN  /\ Len(a) = n + 1 /\ n \in Nat /\ a[n + 1] = x
             /\ \A i \in 1..n : a[i] = nicks[i]
             /\ \A i \in 1..(n + 1) : Gaps(a, i) = Gaps(nicks, i)
             /\ Cardinality(Gaps(a, n + 2)) =
                  Cardinality(Gaps(nicks, n + 1)) + (IF x = None THEN 1 ELSE 0)
  <1> DEFINE a == Append(nicks, x)
             n == Len(nicks)
  <1>1. /\ Len(a) = n + 1 /\ n \in Nat /\ a[n + 1] = x
        /\ \A i \in 1..n : a[i] = nicks[i]
    OBVIOUS
  <1> HIDE DEF a, n
  <1>2. ASSUME NEW i \in 1..(n + 1) PROVE Gaps(a, i) = Gaps(nicks, i)
    <2>1. \A j \in 1..(i - 1) : a[j] = nicks[j]
      BY <1>1
    <2> QED BY <2>1 DEF Gaps
  <1>3. /\ 1..((n + 2) - 1) = (1..((n + 1) - 1)) \union {n + 1}
        /\ n + 1 \notin 1..((n + 1) - 1) /\ (n + 1) - 1 = n
    BY <1>1
  <1>4. CASE x = None
    <2>1. Gaps(a, n + 2) = Gaps(nicks, n + 1) \union {n + 1}
      BY <1>1, <1>3, <1>4 DEF Gaps
    <2>2. n + 1 \notin Gaps(nicks, n + 1)
      BY <1>3 DEF Gaps
    <2>3. n + 1 \in Nat
      BY <1>1
    <2>4. IsFiniteSet(Gaps(nicks, n + 1))
      BY <2>3, GapsCount
    <2> QED BY <1>1, <1>2, <1>4, <2>1, <2>2, <2>4, FS_AddElement DEF a, n
  <1>5. CASE x # None
    <2>1. Gaps(a, n + 2) = Gaps(nicks, n + 1)
      BY <1>1, <1>3, <1>5 DEF Gaps
    <2>2. n + 1 \in Nat
      BY <1>1
    <2>3. Cardinality(Gaps(nicks, n + 1)) \in Nat
      BY <2>2, GapsCount
    <2> QED BY <1>1, <1>2, <1>5, <2>1, <2>3 DEF a, n
  <1> QED BY <1>4, <1>5

(* A reply that may be shown below the others. *)
InPlace(nicks, x) ==
  \/ x = None
  \/ \E s \in 0..Len(nicks) :
       x \in Nicks(s) /\ Len(nicks) - s <= Cardinality(Gaps(nicks, Len(nicks) + 1))

(* It is then aligned like them. *)
LEMMA AlignedAppend ==
  ASSUME NEW nicks \in Seq(Replies), Aligned(nicks), NEW x \in Replies, InPlace(nicks, x)
  PROVE  Aligned(Append(nicks, x))
  <1> DEFINE a == Append(nicks, x)
             n == Len(nicks)
  <1>1. /\ Len(a) = n + 1 /\ n \in Nat /\ a[n + 1] = x
        /\ \A i \in 1..n : a[i] = nicks[i]
        /\ \A i \in 1..(n + 1) : Gaps(a, i) = Gaps(nicks, i)
    BY GapsOfAppend
  <1> HIDE DEF a
  <1>2. ASSUME NEW i \in 1..n
        PROVE  \/ a[i] = None
               \/ \E s \in 0..(i - 1) : a[i] \in Nicks(s) /\ (i - 1) - s <= Cardinality(Gaps(a, i))
    <2>1. a[i] = nicks[i] /\ Gaps(a, i) = Gaps(nicks, i)
      BY <1>1
    <2> QED BY <2>1 DEF Aligned
  <1>3. \/ a[n + 1] = None
        \/ \E s \in 0..((n + 1) - 1) :
             a[n + 1] \in Nicks(s) /\ ((n + 1) - 1) - s <= Cardinality(Gaps(a, n + 1))
    <2>1. (n + 1) - 1 = n /\ Gaps(a, n + 1) = Gaps(nicks, n + 1)
      BY <1>1
    <2> QED BY <1>1, <2>1 DEF InPlace
  <1> HIDE DEF n
  <1>4. 1..(n + 1) = (1..n) \union {n + 1}
    BY <1>1
  <1>5. Aligned(a)
    BY <1>1, <1>2, <1>3, <1>4 DEF Aligned
  <1> QED BY <1>5 DEF a

(* What is shown of the replies and one more. *)
LEMMA ShownAppend ==
  ASSUME NEW g \in Seq(Replies), NEW x \in Replies
  PROVE  LET old == SubSeq(g, 7, Len(g))
             new == SubSeq(Append(g, x), 7, Len(Append(g, x)))
         IN  /\ old \in Seq(Replies) /\ new \in Seq(Replies)
             /\ Len(g) >= 6 => new = Append(old, x) /\ Len(old) = Len(g) - 6
             /\ Len(g) < 6 => new = <<>>
  <1> DEFINE old == SubSeq(g, 7, Len(g))
             a == Append(g, x)
             new == SubSeq(a, 7, Len(a))
  <1>1. a \in Seq(Replies) /\ Len(a) = Len(g) + 1 /\ Len(g) \in Nat
        /\ a[Len(g) + 1] = x /\ \A i \in 1..Len(g) : a[i] = g[i]
    OBVIOUS
  <1> HIDE DEF a
  <1>2. /\ old \in Seq(Replies) /\ new \in Seq(Replies)
        /\ Len(old) = (IF 7 <= Len(g) THEN Len(g) - 7 + 1 ELSE 0)
        /\ Len(new) = (IF 7 <= Len(a) THEN Len(a) - 7 + 1 ELSE 0)
        /\ \A i \in 1..Len(old) : old[i] = g[7 + i - 1]
        /\ \A i \in 1..Len(new) : new[i] = a[7 + i - 1]
    BY <1>1, SubSeqProperties
  <1> HIDE DEF old, new
  <1>3. ASSUME Len(g) >= 6 PROVE new = Append(old, x) /\ Len(old) = Len(g) - 6
    <2>1. Len(old) = Len(g) - 6 /\ Len(new) = Len(old) + 1 /\ Len(old) \in Nat
      <3> DEFINE k == Len(g)
                 m == Len(a)
      <3>1. /\ m = k + 1 /\ k \in Nat /\ k >= 6
            /\ Len(old) = (IF 7 <= k THEN k - 7 + 1 ELSE 0)
            /\ Len(new) = (IF 7 <= m THEN m - 7 + 1 ELSE 0)
        BY <1>1, <1>2, <1>3
      <3> HIDE DEF k, m
      <3>2. Len(old) = k - 6 /\ Len(new) = k - 5
        BY <3>1
      <3> QED BY <3>1, <3>2 DEF k
    <2>2. ASSUME NEW i \in 1..Len(new) PROVE new[i] = Append(old, x)[i]
      <3>1. CASE i \in 1..Len(old)
        <4>1. 7 + i - 1 \in 1..Len(g)
          BY <1>1, <2>1, <3>1
        <4>2. new[i] = old[i]
          BY <1>1, <1>2, <3>1, <4>1
        <4>3. Append(old, x)[i] = old[i]
          BY <1>2, <3>1
        <4> QED BY <4>2, <4>3
      <3>2. CASE i = Len(old) + 1
        <4>1. 7 + i - 1 = Len(g) + 1
          BY <1>1, <2>1, <3>2
        <4>2. new[i] = x
          BY <1>1, <1>2, <4>1
        <4>3. Append(old, x)[i] = x
          BY <1>2, <3>2
        <4> QED BY <4>2, <4>3
      <3> QED BY <2>1, <3>1, <3>2
    <2>3. Append(old, x) \in Seq(Replies) /\ Len(Append(old, x)) = Len(old) + 1
      BY <1>2
    <2>4. new = Append(old, x)
      BY <1>2, <2>1, <2>2, <2>3, SeqEqual
    <2> QED BY <2>1, <2>4
  <1>4. ASSUME Len(g) < 6 PROVE new = <<>>
    BY <1>1, <1>2, <1>4
  <1> QED BY <1>2, <1>3, <1>4 DEF old, new, a

(* A reply that fits t's poll where it is. *)
FitsNext(t, reply) ==
  op[t] = [kind |-> "poll"] =>
    /\ Place(t) = 1 => reply \in Slots
    /\ Place(t) = 2 => reply \in [Slots -> {"UNKNOWN", "MF1_1K"}]
    /\ Place(t) = 3 => reply \in [Slots -> BOOLEAN]
    /\ Place(t) >= 6 => InPlace(Shown(t), reply)

(* What is shown of a poll that is past its first six commands. *)
LEMMA ShownLength ==
  ASSUME TaskInv, NEW t \in Tasks, op[t] = [kind |-> "poll"]
  PROVE  /\ Shown(t) \in Seq(Replies) /\ Len(Shown(t)) \in Nat
         /\ Place(t) >= 6 => Len(Shown(t)) = Place(t) - 6
  <1>1. got[t] \in Seq(Replies) /\ Len(got[t]) = Place(t) /\ Place(t) \in Nat /\ None \in Replies
    <2>1. op[t] # None /\ got[t] \in Seq(Replies) /\ Len(got[t]) = Place(t)
      BY PollPlace
    <2>2. Place(t) \in Nat
      BY <2>1, NextCommand
    <2> QED BY <2>1, <2>2 DEF Replies
  <1>2. Shown(t) \in Seq(Replies) /\ (Len(got[t]) >= 6 => Len(Shown(t)) = Len(got[t]) - 6)
    BY <1>1, ShownAppend DEF Shown
  <1> QED BY <1>1, <1>2

(* The answer to the command itself fits. *)
LEMMA OwnAnswerFits ==
  ASSUME TaskInv, DeviceInv, NEW t \in Tasks, op[t] # None
  PROVE  FitsNext(t, Answer(Head(todo[t])))
  <1> DEFINE cmd == Head(todo[t])
             n == Len(Shown(t))
  <1>1. Valid(cmd)
    BY NextCommand
  <1>2. SUFFICES ASSUME op[t] = [kind |-> "poll"] PROVE FitsNext(t, Answer(cmd))
    BY DEF FitsNext
  <1>3. /\ cmd.name = "get_active_slot" <=> Place(t) = 1
        /\ cmd.name = "get_slot_info" <=> Place(t) = 2
        /\ cmd.name = "get_enabled_slots" <=> Place(t) = 3
        /\ cmd.name = NickCmd <=> Place(t) >= 6
        /\ Place(t) >= 6 => cmd.slot = Place(t) - 6
    BY <1>2, PollPlace
  <1> HIDE DEF cmd
  <1>4. /\ cmd.name = "get_active_slot" => Answer(cmd) \in Slots
        /\ cmd.name = "get_slot_info" => Answer(cmd) \in [Slots -> {"UNKNOWN", "MF1_1K"}]
        /\ cmd.name = "get_enabled_slots" => Answer(cmd) \in [Slots -> BOOLEAN]
        /\ cmd.name = NickCmd => Answer(cmd) = nick(cmd.slot, 1)
    BY <1>1, AnswerTyped
  <1>5. ASSUME Place(t) >= 6 PROVE InPlace(Shown(t), Answer(cmd))
    <2>1. n \in Nat /\ n = Place(t) - 6
      BY <1>2, <1>5, ShownLength
    <2>2. Answer(cmd) = nick(n, 1)
      BY <1>3, <1>4, <1>5, <2>1
    <2> HIDE DEF n
    <2>3. nick(n, 1) \in Nicks(n)
      BY DEF Nicks, LF
    <2>4. n + 1 \in Nat
      BY <2>1
    <2>5. Cardinality(Gaps(Shown(t), n + 1)) \in Nat
      BY <2>4, GapsCount
    <2>6. n - n <= Cardinality(Gaps(Shown(t), n + 1)) /\ n \in 0..n
      BY <2>1, <2>5
    <2> QED BY <2>2, <2>3, <2>6 DEF InPlace, n
  <1> QED BY <1>3, <1>4, <1>5 DEF FitsNext

(* So does the late answer to a command of the same name. *)
LEMMA LateAnswerFits ==
  ASSUME TaskInv, DeviceInv, LateInv, NickInv, NEW t \in Tasks, op[t] # None,
         late # None, Answers(late.cmd, Head(todo[t]))
  PROVE  FitsNext(t, Answer(late.cmd))
  <1> DEFINE cmd == Head(todo[t])
             n == Len(Shown(t))
             slot == late.cmd.slot
  <1>1. Valid(late.cmd) /\ late.cmd.name = cmd.name
        /\ (late.cmd.name = NickCmd => slot \in Slots)
    BY LateCommand DEF Answers
  <1>2. SUFFICES ASSUME op[t] = [kind |-> "poll"] PROVE FitsNext(t, Answer(late.cmd))
    BY DEF FitsNext
  <1>3. /\ cmd.name = "get_active_slot" <=> Place(t) = 1
        /\ cmd.name = "get_slot_info" <=> Place(t) = 2
        /\ cmd.name = "get_enabled_slots" <=> Place(t) = 3
        /\ cmd.name = NickCmd <=> Place(t) >= 6
        /\ Len(got[t]) = Place(t) /\ got[t] \in Seq(Replies)
    BY <1>2, PollPlace
  <1> HIDE DEF cmd
  <1>4. /\ late.cmd.name = "get_active_slot" => Answer(late.cmd) \in Slots
        /\ late.cmd.name = "get_slot_info" => Answer(late.cmd) \in [Slots -> {"UNKNOWN", "MF1_1K"}]
        /\ late.cmd.name = "get_enabled_slots" => Answer(late.cmd) \in [Slots -> BOOLEAN]
        /\ late.cmd.name = NickCmd => Answer(late.cmd) = nick(slot, 1)
    BY <1>1, AnswerTyped
  <1>5. ASSUME Place(t) >= 6 PROVE InPlace(Shown(t), Answer(late.cmd))
    <2>1. late.cmd.name = NickCmd
      BY <1>1, <1>3, <1>5
    <2>2. got[t] # <<>>
      BY <1>3, <1>5
    <2>3. Off(Shown(t), slot)
      BY <1>2, <2>1, <2>2 DEF NickInv
    <2>4. slot \in Nat /\ n \in Nat
      BY <1>1, <1>2, <2>1, ShownLength, CountsAssumption DEF Slots
    <2> HIDE DEF slot, n
    <2>5. slot \in 0..n /\ n - slot <= Cardinality(Gaps(Shown(t), n + 1))
      BY <2>3, <2>4 DEF Off, n
    <2>6. Answer(late.cmd) \in Nicks(slot)
      BY <1>4, <2>1 DEF Nicks, LF
    <2> QED BY <2>5, <2>6 DEF InPlace, n
  <1> QED BY <1>1, <1>3, <1>4, <1>5 DEF FitsNext

(* And so does a gap, where a nickname could not be read. *)
LEMMA GapFits ==
  ASSUME TaskInv, NEW t \in Tasks, op[t] # None, Head(todo[t]).name = NickCmd
  PROVE  FitsNext(t, None)
  <1>1. SUFFICES ASSUME op[t] = [kind |-> "poll"] PROVE FitsNext(t, None)
    BY DEF FitsNext
  <1>2. Place(t) >= 6
    BY <1>1, PollPlace
  <1>3. Place(t) \in Nat
    BY <1>1, NextCommand
  <1> QED BY <1>2, <1>3 DEF FitsNext, InPlace

(* A poll that gets one more reply that fits. *)
Grown(t, reply) == Append(got[t], reply)
LEMMA GrownFits ==
  ASSUME TaskInv, NickInv, DataInv, NEW t \in Tasks, op[t] = [kind |-> "poll"],
         NEW reply \in Replies, FitsNext(t, reply)
  PROVE  LET g == Grown(t, reply)
             shown == SubSeq(g, 7, Len(g))
         IN  /\ Fits(g) /\ Aligned(shown) /\ shown \in Seq(Replies)
             /\ Len(g) = Place(t) + 1
             /\ Len(g) >= 6 => Len(shown) = Len(g) - 6
             /\ Place(t) >= 6 => shown = Append(Shown(t), reply)
  <1> DEFINE g == Grown(t, reply)
             shown == SubSeq(g, 7, Len(g))
             old == got[t]
  <1>1. /\ old \in Seq(Replies) /\ Len(old) = Place(t) /\ Place(t) \in Nat
    BY PollPlace, CountsAssumption
  <1>2. /\ Place(t) = 1 => reply \in Slots
        /\ Place(t) = 2 => reply \in [Slots -> {"UNKNOWN", "MF1_1K"}]
        /\ Place(t) = 3 => reply \in [Slots -> BOOLEAN]
        /\ Place(t) >= 6 => InPlace(Shown(t), reply)
    BY DEF FitsNext
  <1>3. Fits(old)
    BY DEF DataInv
  <1>4. Aligned(SubSeq(old, 7, Len(old)))
    BY DEF NickInv, Shown
  <1>5. /\ shown \in Seq(Replies)
        /\ Len(old) >= 6 => /\ shown = Append(SubSeq(old, 7, Len(old)), reply)
                            /\ Len(SubSeq(old, 7, Len(old))) = Len(old) - 6
        /\ Len(old) < 6 => shown = <<>>
        /\ SubSeq(old, 7, Len(old)) \in Seq(Replies)
    BY <1>1, ShownAppend DEF Grown
  <1>6. InPlace(Shown(t), reply) => InPlace(SubSeq(old, 7, Len(old)), reply)
    BY DEF Shown
  <1> DEFINE was == SubSeq(old, 7, Len(old))
  <1> HIDE DEF shown, was
  <1>7. Aligned(shown)
    <2>1. CASE Place(t) >= 6
      <3>1. shown = Append(was, reply) /\ was \in Seq(Replies) /\ InPlace(was, reply) /\ Aligned(was)
        BY <1>1, <1>2, <1>4, <1>5, <1>6, <2>1 DEF was
      <3> QED BY <3>1, AlignedAppend
    <2>2. CASE Place(t) < 6
      BY <1>1, <1>5, <2>2 DEF Aligned
    <2> QED BY <1>1, <2>1, <2>2
  <1>8. /\ Len(g) = Len(old) + 1 /\ g[Len(old) + 1] = reply
        /\ \A i \in 1..Len(old) : g[i] = old[i]
    BY <1>1 DEF Grown
  <1> HIDE DEF g, old
  <1>9. Fits(g)
    <2>1. ASSUME NEW i \in 2..4, Len(g) >= i
          PROVE  \/ Len(old) >= i /\ g[i] = old[i]
                 \/ Place(t) = i - 1 /\ g[i] = reply
      BY <1>1, <1>8, <2>1
    <2>2. Len(g) >= 2 => g[2] \in Slots
      <3>1. 2 \in 2..4 /\ 2 - 1 = 1
        OBVIOUS
      <3> QED BY <1>2, <1>3, <2>1, <3>1 DEF Fits
    <2>3. Len(g) >= 3 => g[3] \in [Slots -> {"UNKNOWN", "MF1_1K"}]
      <3>1. 3 \in 2..4 /\ 3 - 1 = 2
        OBVIOUS
      <3> QED BY <1>2, <1>3, <2>1, <3>1 DEF Fits
    <2>4. Len(g) >= 4 => g[4] \in [Slots -> BOOLEAN]
      <3>1. 4 \in 2..4 /\ 4 - 1 = 3
        OBVIOUS
      <3> QED BY <1>2, <1>3, <2>1, <3>1 DEF Fits
    <2> QED BY <2>2, <2>3, <2>4 DEF Fits
  <1>10. Len(g) = Place(t) + 1
    BY <1>1, <1>8
  <1>11. Len(g) >= 6 => Len(shown) = Len(g) - 6
    <2>1. CASE Len(old) >= 6
      <3>1. shown = Append(was, reply) /\ was \in Seq(Replies) /\ Len(was) = Len(old) - 6
        BY <1>5, <2>1 DEF was
      <3>2. Len(shown) = Len(was) + 1
        BY <3>1
      <3> QED BY <1>1, <1>8, <3>1, <3>2
    <2>2. CASE Len(old) < 6
      <3>1. shown = <<>> /\ Len(shown) = 0
        BY <1>5, <2>2
      <3> QED BY <1>1, <1>8, <2>2, <3>1
    <2> QED BY <1>1, <2>1, <2>2
  <1>12. Place(t) >= 6 => shown = Append(Shown(t), reply)
    BY <1>1, <1>5 DEF Shown, old
  <1> QED BY <1>5, <1>7, <1>9, <1>10, <1>11, <1>12 DEF g, shown

(* The data of the coordinator. *)
DataShown ==
  /\ data.active_slot \in Slots
  /\ data.slot_info \in [Slots -> {"UNKNOWN", "MF1_1K"}]
  /\ data.enabled_slots \in [Slots -> BOOLEAN]
  /\ data.slot_nicks \in Seq(Replies)
  /\ Len(data.slot_nicks) <= SLOT_COUNT
  /\ Aligned(data.slot_nicks)

(* What polls have got, and the data, after a command with a reply that fits. *)
LEMMA PollsGrow ==
  ASSUME TaskInv, NickInv, DataInv, NEW t \in Tasks, op[t] # None,
         NEW reply \in Replies, FitsNext(t, reply), Others(t), Advances(t, reply)
  PROVE  /\ \A u \in Tasks : op'[u] = [kind |-> "poll"] => Aligned(Shown(u)') /\ Fits(got'[u])
         /\ DataShown'
         /\ op'[t] = [kind |-> "poll"] /\ Place(t) >= 6 =>
              Shown(t)' = Append(Shown(t), reply) /\ Len(got'[t]) = Place(t) + 1
  <1>1. DataShown
    BY DEF DataInv, DataShown
  <1>2. ASSUME NEW u \in Tasks \ {t}, op'[u] = [kind |-> "poll"]
        PROVE  Aligned(Shown(u)') /\ Fits(got'[u])
    <2>1. op[u] = op'[u] /\ got'[u] = got[u]
      BY DEF Others
    <2>2. Shown(u)' = Shown(u)
      BY <2>1 DEF Shown
    <2> QED BY <1>2, <2>1, <2>2 DEF NickInv, DataInv
  <1>3. [kind |-> "poll"] # None
    BY NoneAssumption DEF Operations
  <1>4. op[t] \in Operations
    BY DEF TaskInv
  <1> DEFINE g == Append(got[t], reply)
             shown == SubSeq(g, 7, Len(g))
             n == Len(todo[t])
  <1>5. ASSUME op[t] = [kind |-> "poll"]
        PROVE  /\ Fits(g) /\ Aligned(shown) /\ shown \in Seq(Replies)
               /\ Len(g) = Place(t) + 1
               /\ Len(g) >= 6 => Len(shown) = Len(g) - 6
               /\ Place(t) >= 6 => shown = Append(Shown(t), reply)
    BY <1>5, GrownFits DEF Grown
  <1>6. CASE /\ n > 1 /\ op'[t] = op[t]
             /\ op[t].kind = "poll" => got'[t] = g
             /\ data' = data
    <2>1. DataShown'
      BY <1>1, <1>6 DEF DataShown
    <2>2. ASSUME op'[t] = [kind |-> "poll"]
          PROVE  /\ Aligned(Shown(t)') /\ Fits(got'[t])
                 /\ Place(t) >= 6 => Shown(t)' = Append(Shown(t), reply)
                                     /\ Len(got'[t]) = Place(t) + 1
      <3>1. op[t] = [kind |-> "poll"] /\ op[t].kind = "poll"
        BY <1>6, <2>2
      <3>2. got'[t] = g
        BY <1>6, <3>1
      <3> HIDE DEF g
      <3>3. Shown(t)' = shown
        BY <3>2 DEF Shown
      <3> QED BY <1>5, <3>1, <3>2, <3>3
    <2>3. ASSUME NEW u \in Tasks, op'[u] = [kind |-> "poll"]
          PROVE  Aligned(Shown(u)') /\ Fits(got'[u])
      <3>1. CASE u = t
        BY <2>2, <2>3, <3>1
      <3>2. CASE u # t
        BY <1>2, <2>3, <3>2
      <3> QED BY <3>1, <3>2
    <2> QED BY <2>1, <2>2, <2>3, Zenon
  <1>7. CASE /\ n = 1 /\ op'[t] = None
             /\ op[t].kind = "poll" => Publish(g)
             /\ op[t].kind # "poll" => data' = data
    <2>1. ASSUME op[t].kind # "poll" PROVE DataShown'
      BY <1>1, <1>7, <2>1 DEF DataShown
    <2>2. ASSUME op[t].kind = "poll" PROVE DataShown'
      <3>1. op[t] = [kind |-> "poll"]
        BY <1>4, <2>2, Kinds
      <3>2. n = 6 + SLOT_COUNT - Place(t) /\ Place(t) \in 0..(5 + SLOT_COUNT)
        BY <3>1, PollPlace
      <3> HIDE DEF n
      <3>3. Place(t) = 5 + SLOT_COUNT /\ SLOT_COUNT \in Nat \ {0}
        BY <1>7, <3>2, CountsAssumption
      <3>4. /\ data' = [active_slot |-> g[2], slot_info |-> g[3], enabled_slots |-> g[4],
                        slot_nicks |-> shown]
        BY <1>7, <2>2 DEF Publish
      <3> HIDE DEF g, shown
      <3>5. /\ data'.active_slot = g[2] /\ data'.slot_info = g[3]
            /\ data'.enabled_slots = g[4] /\ data'.slot_nicks = shown
        BY <3>4
      <3>6. Len(g) = 6 + SLOT_COUNT /\ Len(shown) = SLOT_COUNT
        BY <1>5, <3>1, <3>3
      <3>7. /\ g[2] \in Slots /\ g[3] \in [Slots -> {"UNKNOWN", "MF1_1K"}]
            /\ g[4] \in [Slots -> BOOLEAN]
        <4> DEFINE k == Len(g)
        <4>1. k >= 2 /\ k >= 3 /\ k >= 4
          BY <3>3, <3>6
        <4> HIDE DEF k
        <4> QED BY <1>5, <3>1, <4>1, Zenon DEF Fits, k
      <3>8. Len(shown) <= SLOT_COUNT
        BY <3>3, <3>6
      <3> QED BY <1>5, <3>1, <3>5, <3>7, <3>8, Zenon DEF DataShown
    <2>3. DataShown'
      BY <2>1, <2>2
    <2>4. ASSUME NEW u \in Tasks, op'[u] = [kind |-> "poll"]
          PROVE  Aligned(Shown(u)') /\ Fits(got'[u])
      <3>1. u # t
        BY <1>3, <1>7, <2>4
      <3> QED BY <1>2, <2>4, <3>1
    <2>5. op'[t] # [kind |-> "poll"]
      BY <1>3, <1>7
    <2> QED BY <2>3, <2>4, <2>5, Zenon
  <1> QED BY <1>6, <1>7, Zenon DEF Advances

(* The nicknames polls show keep in place, and a nickname whose answer is late is
   one that was left out above. *)
LEMMA NickStep ==
  ASSUME Inv, Next
  PROVE  NickInv'
  <1> DEFINE IsPoll(u) == op[u] = [kind |-> "poll"]
             IsPollNow(u) == op'[u] = [kind |-> "poll"]
             LateFits(l, g, shown) ==
               g = <<>> \/ (Len(g) > 6 /\ Off(shown, l.cmd.slot))
  <1>1. TaskInv /\ DeviceInv /\ LateInv /\ CountInv /\ NickInv /\ DataInv /\ TaskInv'
    BY TaskStep DEF Inv
  <1>2. [kind |-> "poll"] # None
    BY NoneAssumption DEF Operations
  <1>3. ASSUME \A u \in Tasks : IsPollNow(u) => Aligned(Shown(u)'),
               late' # None /\ late'.cmd.name = NickCmd =>
                 \A u \in Tasks : IsPollNow(u) => LateFits(late', got'[u], Shown(u)')
        PROVE  NickInv'
    BY <1>3 DEF NickInv
  <1>4. ASSUME NEW u \in Tasks, IsPollNow(u), op'[u] = op[u], got'[u] = got[u]
        PROVE  /\ Aligned(Shown(u)')
               /\ late # None /\ late.cmd.name = NickCmd => LateFits(late, got'[u], Shown(u)')
    <2>1. Shown(u)' = Shown(u) /\ IsPoll(u)
      BY <1>4 DEF Shown
    <2> QED BY <1>1, <1>4, <2>1 DEF NickInv
  (* Whoever's next command is to read a nickname is the only poll. *)
  <1>5. ASSUME NEW t \in Tasks, op[t] # None, Head(todo[t]).name = NickCmd
        PROVE  /\ IsPoll(t) /\ Place(t) >= 6 /\ Place(t) \in Nat
               /\ Head(todo[t]).slot = Len(Shown(t))
               /\ Shown(t) \in Seq(Replies) /\ got[t] # <<>>
    <2>1. op[t] \in Operations /\ op[t].kind = "poll" /\ Place(t) \in Nat
      BY <1>1, <1>5, NextCommand
    <2>2. IsPoll(t)
      BY <2>1, Kinds
    <2>3. /\ Place(t) >= 6 /\ Head(todo[t]).slot = Place(t) - 6
          /\ Len(got[t]) = Place(t) /\ got[t] \in Seq(Replies)
      BY <1>1, <1>5, <2>2, PollPlace
    <2>4. Shown(t) \in Seq(Replies) /\ Len(Shown(t)) = Place(t) - 6
      BY <1>1, <2>2, <2>3, ShownLength
    <2>5. got[t] # <<>>
      BY <2>3
    <2> QED BY <2>1, <2>2, <2>3, <2>4, <2>5
  <1>6. ASSUME NEW t \in Tasks, IsPoll(t), Others(t), NEW u \in Tasks, IsPollNow(u)
        PROVE  u = t
    BY <1>1, <1>6 DEF TaskInv, Others
  (* One reply more makes no answer fit worse that is late already, if it is a gap,
     and makes room for the command that is left behind. *)
  <1>7. ASSUME NEW shown \in Seq(Replies), NEW reply \in Replies, NEW slot \in Nat,
               NEW gaps, gaps = Cardinality(Gaps(shown, Len(shown) + 1)),
               \/ reply = None /\ (slot = Len(shown) \/ Off(shown, slot))
               \/ slot = Len(shown) /\ gaps >= 1
        PROVE  Off(Append(shown, reply), slot)
    <2> DEFINE n == Len(shown)
               a == Append(shown, reply)
    <2>1. /\ Len(a) = n + 1 /\ n \in Nat
          /\ Cardinality(Gaps(a, n + 2)) = gaps + (IF reply = None THEN 1 ELSE 0)
      BY <1>7, GapsOfAppend
    <2>2. n + 1 \in Nat
      BY <2>1
    <2>3. gaps \in Nat
      BY <1>7, <2>2, GapsCount
    <2>4. Off(shown, slot) => slot < n /\ n - slot <= gaps
      BY <1>7 DEF Off
    <2>5. \/ reply = None /\ (slot = n \/ Off(shown, slot))
          \/ slot = n /\ gaps >= 1
      BY <1>7
    <2> HIDE DEF n, a
    <2> DEFINE c == Cardinality(Gaps(a, n + 2))
    <2>6. c = gaps + (IF reply = None THEN 1 ELSE 0)
      BY <2>1
    <2> HIDE DEF c
    <2>7. slot < n + 1 /\ (n + 1) - slot <= c
      BY <2>1, <2>3, <2>4, <2>5, <2>6
    <2>8. Len(a) + 1 = n + 2 /\ Len(a) = n + 1
      BY <2>1
    <2> QED BY <2>7, <2>8, Zenon DEF Off, a, c
  <1>8. ASSUME NEW t \in Tasks, Connect(t) \/ Begin(t) PROVE NickInv'
    <2>1. /\ Others(t) /\ op[t] = None /\ got'[t] = <<>> /\ late' = late
          /\ op' \in [Tasks -> Operations \union {None}]
      BY <1>1, <1>8, BeginMoves DEF Connect, Begin, TaskInv
    <2>2. Aligned(Shown(t)')
      <3>1. Shown(t)' = SubSeq(<<>>, 7, 0)
        BY <2>1 DEF Shown
      <3>2. Len(SubSeq(<<>>, 7, 0)) = 0
        BY SubSeqEmpty
      <3> QED BY <3>1, <3>2 DEF Aligned
    <2>3. ASSUME NEW u \in Tasks, IsPollNow(u)
          PROVE  /\ Aligned(Shown(u)')
                 /\ late' # None /\ late'.cmd.name = NickCmd => LateFits(late', got'[u], Shown(u)')
      <3>1. CASE u = t
        BY <2>1, <2>2, <3>1
      <3>2. CASE u # t
        BY <1>4, <2>1, <2>3, <3>2 DEF Others
      <3> QED BY <3>1, <3>2
    <2> QED BY <1>3, <2>3
  <1>9. ASSUME NEW t \in Tasks, Succeed(t) PROVE NickInv'
    <2>1. op[t] # None /\ Advance(t, Answer(Head(todo[t]))) /\ late' = None
      BY <1>9 DEF Succeed, MaySend
    <2>2. Valid(Head(todo[t]))
      BY <1>1, <2>1, NextCommand
    <2>3. Answer(Head(todo[t])) \in Replies /\ FitsNext(t, Answer(Head(todo[t])))
      BY <1>1, <2>1, <2>2, AnswerTyped, OwnAnswerFits
    <2>4. Others(t) /\ Advances(t, Answer(Head(todo[t])))
      BY <1>1, <2>1, <2>3, AdvanceMoves
    <2>5. \A u \in Tasks : IsPollNow(u) => Aligned(Shown(u)')
      BY <1>1, <2>1, <2>3, <2>4, PollsGrow
    <2> QED BY <1>3, <2>1, <2>5
  <1>10. ASSUME NEW t \in Tasks, TakeLate(t) PROVE NickInv'
    <2> DEFINE reply == Answer(late.cmd)
    <2>1. /\ op[t] # None /\ late # None /\ Answers(late.cmd, Head(todo[t]))
          /\ reply \in Replies /\ (late' = None \/ Left(t)) /\ Advance(t, reply)
      BY <1>1, <1>10, TakeLeaves DEF TakeLate
    <2>2. FitsNext(t, reply)
      BY <1>1, <2>1, LateAnswerFits
    <2> HIDE DEF reply
    <2>3. Others(t) /\ Advances(t, reply)
      BY <1>1, <2>1, AdvanceMoves
    <2>4. \A u \in Tasks : IsPollNow(u) => Aligned(Shown(u)')
      BY <1>1, <2>1, <2>2, <2>3, PollsGrow
    <2>5. ASSUME late' # None, late'.cmd.name = NickCmd, NEW u \in Tasks, IsPollNow(u)
          PROVE  LateFits(late', got'[u], Shown(u)')
      <3> DEFINE shown == Shown(t)
                 slot == Head(todo[t]).slot
                 gaps == Cardinality(Gaps(shown, Len(shown) + 1))
      <3>1. late'.cmd = Head(todo[t]) /\ Head(todo[t]).name = NickCmd /\ late.cmd.name = NickCmd
        BY <2>1, <2>5 DEF Left, Answers
      <3>2. /\ IsPoll(t) /\ Place(t) >= 6 /\ Place(t) \in Nat /\ slot = Len(shown)
            /\ shown \in Seq(Replies) /\ got[t] # <<>>
        BY <1>5, <2>1, <3>1
      <3>3. u = t
        BY <1>6, <2>3, <2>5, <3>2
      <3>4. Shown(t)' = Append(shown, reply) /\ Len(got'[t]) = Place(t) + 1
        BY <1>1, <2>1, <2>2, <2>3, <2>5, <3>2, <3>3, PollsGrow
      <3>5. Off(shown, late.cmd.slot)
        BY <1>1, <2>1, <3>1, <3>2 DEF NickInv
      <3>6. late.cmd.slot \in Nat
        <4>1. late.cmd.slot \in Slots
          BY <1>1, <2>1, <3>1, LateCommand
        <4> QED BY <4>1, CountsAssumption DEF Slots
      <3> DEFINE n == Len(shown)
      <3>7. n \in Nat /\ late.cmd.slot < n /\ n - late.cmd.slot <= gaps
        BY <3>2, <3>5 DEF Off
      <3>8. gaps \in Nat
        <4>1. n + 1 \in Nat
          BY <3>7
        <4> QED BY <4>1, GapsCount
      <3> HIDE DEF n, gaps
      <3>9. gaps >= 1
        BY <3>6, <3>7, <3>8
      <3> HIDE DEF shown, slot
      <3>10. Off(Append(shown, reply), slot)
        <4>1. slot \in Nat
          BY <3>2, <3>7 DEF n
        <4> QED BY <1>7, <2>1, <3>2, <3>9, <4>1 DEF gaps
      <3>11. Len(got'[t]) > 6
        BY <3>2, <3>4
      <3>12. late'.cmd.slot = slot
        BY <3>1 DEF slot
      <3> QED BY <3>3, <3>4, <3>10, <3>11, <3>12
    <2> QED BY <1>3, <2>4, <2>5
  <1>11. ASSUME NEW t \in Tasks, NickFails(t) \/ LastNickTimesOut(t) PROVE NickInv'
    <2>1. /\ op[t] # None /\ Head(todo[t]).name = NickCmd /\ (Raise(t) \/ late' = late)
          /\ Advance(t, None) /\ None \in Replies
      BY <1>1, <1>11, LastNick DEF NickFails, MaySend, NickCmd, Replies
    <2>2. FitsNext(t, None)
      BY <1>1, <2>1, GapFits
    <2>3. Others(t) /\ Advances(t, None)
      BY <1>1, <2>1, AdvanceMoves
    <2>4. \A u \in Tasks : IsPollNow(u) => Aligned(Shown(u)')
      BY <1>1, <2>1, <2>2, <2>3, PollsGrow
    <2>5. ASSUME late' # None, late'.cmd.name = NickCmd, NEW u \in Tasks, IsPollNow(u)
          PROVE  LateFits(late', got'[u], Shown(u)')
      <3> DEFINE shown == Shown(t)
                 slot == late'.cmd.slot
                 gaps == Cardinality(Gaps(shown, Len(shown) + 1))
      <3>1. late' = late \/ Left(t)
        BY <1>1, <2>1, <2>5, RaiseLeaves DEF RaiseCases
      <3>2. /\ IsPoll(t) /\ Place(t) >= 6 /\ Place(t) \in Nat
            /\ Head(todo[t]).slot = Len(shown)
            /\ shown \in Seq(Replies) /\ got[t] # <<>>
        BY <1>5, <2>1
      <3>3. u = t
        BY <1>6, <2>3, <2>5, <3>2
      <3>4. Shown(t)' = Append(shown, None) /\ Len(got'[t]) = Place(t) + 1
        BY <1>1, <2>1, <2>2, <2>3, <2>5, <3>2, <3>3, PollsGrow
      <3>5. slot = Len(shown) \/ Off(shown, slot)
        <4>1. CASE late' = late
          BY <1>1, <2>5, <3>2, <4>1 DEF NickInv
        <4>2. CASE Left(t)
          BY <3>2, <4>2 DEF Left
        <4> QED BY <3>1, <4>1, <4>2
      <3>6. slot \in Nat
        <4>1. CASE late' = late
          <5>1. slot \in Slots
            BY <1>1, <2>5, <4>1, LateCommand
          <5> QED BY <5>1, CountsAssumption DEF Slots
        <4>2. CASE Left(t)
          BY <3>2, <4>2 DEF Left
        <4> QED BY <3>1, <4>1, <4>2
      <3> HIDE DEF shown, slot
      <3>7. Off(Append(shown, None), slot)
        BY <1>7, <2>1, <3>2, <3>5, <3>6
      <3>8. Len(got'[t]) > 6
        BY <3>2, <3>4
      <3> QED BY <3>3, <3>4, <3>7, <3>8 DEF slot
    <2> QED BY <1>3, <2>4, <2>5
  <1>12. ASSUME NEW t \in Tasks, Fail(t) \/ GiveUp(t) PROVE NickInv'
    <2>1. /\ op[t] # None /\ (Raise(t) \/ late' = late) /\ End(t)
          /\ Head(todo[t]).name = NickCmd => late' = late
      BY <1>1, <1>12 DEF Fail, GiveUp, MaySend, NickCmd, TaskInv
    <2>2. Others(t) /\ op'[t] = None
      BY <1>1, <2>1, EndMoves
    <2>3. late' # None /\ late'.cmd.name = NickCmd => late' = late
      BY <1>1, <2>1, RaiseLeaves DEF RaiseCases, Left
    <2>4. ASSUME NEW u \in Tasks, IsPollNow(u)
          PROVE  /\ Aligned(Shown(u)')
                 /\ late # None /\ late.cmd.name = NickCmd => LateFits(late, got'[u], Shown(u)')
      <3>1. u # t
        BY <1>2, <2>2, <2>4
      <3> QED BY <1>4, <2>2, <2>4, <3>1 DEF Others
    <2> QED BY <1>3, <2>3, <2>4
  <1>13. CASE Unsolicited
    <2>1. late' = None /\ op' = op /\ got' = got
      BY <1>13 DEF Unsolicited, tasks
    <2>2. \A u \in Tasks : IsPollNow(u) => Aligned(Shown(u)')
      BY <1>4, <2>1
    <2> QED BY <1>3, <2>1, <2>2
  <1>14. CASE LinkLost \/ PowerCycle
    <2>1. late' = None /\ op' = op /\ got' = got
      BY <1>1, <1>14, BreakOffMoves DEF LinkLost, PowerCycle
    <2>2. \A u \in Tasks : IsPollNow(u) => Aligned(Shown(u)')
      BY <1>4, <2>1
    <2> QED BY <1>3, <2>1, <2>2
  <1> QED BY <1>8, <1>9, <1>10, <1>11, <1>12, <1>13, <1>14 DEF Next

(* The data of the coordinator are what a poll has read, each where it belongs. *)
LEMMA DataStep ==
  ASSUME Inv, Next
  PROVE  DataInv'
  <1>1. TaskInv /\ DeviceInv /\ LateInv /\ CountInv /\ NickInv /\ DataInv
    BY DEF Inv
  <1>2. DataShown
    BY <1>1 DEF DataInv, DataShown
  <1>3. [kind |-> "poll"] # None
    BY NoneAssumption DEF Operations
  <1>4. ASSUME \A u \in Tasks : op'[u] = [kind |-> "poll"] => Fits(got'[u]), DataShown'
        PROVE  DataInv'
    BY <1>4 DEF DataInv, DataShown
  <1>5. ASSUME data' = data PROVE DataShown'
    BY <1>2, <1>5 DEF DataShown
  <1>6. ASSUME NEW u \in Tasks, op'[u] = [kind |-> "poll"],
               (op'[u] = op[u] /\ got'[u] = got[u]) \/ got'[u] = <<>>
        PROVE  Fits(got'[u])
    <2>1. Fits(<<>>)
      BY DEF Fits
    <2> QED BY <1>1, <1>6, <2>1 DEF DataInv
  <1>7. ASSUME NEW t \in Tasks, Connect(t) \/ Begin(t) PROVE DataInv'
    <2>1. Others(t) /\ got'[t] = <<>> /\ data' = data
      BY <1>1, <1>7, BeginMoves DEF Connect, Begin
    <2>2. \A u \in Tasks : (op'[u] = op[u] /\ got'[u] = got[u]) \/ got'[u] = <<>>
      BY <2>1 DEF Others
    <2> QED BY <1>4, <1>5, <1>6, <2>1, <2>2
  <1>8. ASSUME NEW t \in Tasks, Succeed(t) PROVE DataInv'
    <2>1. op[t] # None /\ Advance(t, Answer(Head(todo[t])))
      BY <1>8 DEF Succeed, MaySend
    <2>2. Valid(Head(todo[t]))
      BY <1>1, <2>1, NextCommand
    <2>3. Answer(Head(todo[t])) \in Replies /\ FitsNext(t, Answer(Head(todo[t])))
      BY <1>1, <2>1, <2>2, AnswerTyped, OwnAnswerFits
    <2>4. Others(t) /\ Advances(t, Answer(Head(todo[t])))
      BY <1>1, <2>1, <2>3, AdvanceMoves
    <2> QED BY <1>1, <1>4, <2>1, <2>3, <2>4, PollsGrow
  <1>9. ASSUME NEW t \in Tasks, TakeLate(t) PROVE DataInv'
    <2>1. /\ op[t] # None /\ late # None /\ Answers(late.cmd, Head(todo[t]))
          /\ Answer(late.cmd) \in Replies /\ Advance(t, Answer(late.cmd))
      BY <1>1, <1>9, TakeLeaves DEF TakeLate
    <2>2. FitsNext(t, Answer(late.cmd))
      BY <1>1, <2>1, LateAnswerFits
    <2>3. Others(t) /\ Advances(t, Answer(late.cmd))
      BY <1>1, <2>1, AdvanceMoves
    <2> QED BY <1>1, <1>4, <2>1, <2>2, <2>3, PollsGrow
  <1>10. ASSUME NEW t \in Tasks, NickFails(t) \/ LastNickTimesOut(t) PROVE DataInv'
    <2>1. /\ op[t] # None /\ Head(todo[t]).name = NickCmd
          /\ Advance(t, None) /\ None \in Replies
      BY <1>1, <1>10, LastNick DEF NickFails, MaySend, NickCmd, Replies
    <2>2. FitsNext(t, None)
      BY <1>1, <2>1, GapFits
    <2>3. Others(t) /\ Advances(t, None)
      BY <1>1, <2>1, AdvanceMoves
    <2> QED BY <1>1, <1>4, <2>1, <2>2, <2>3, PollsGrow
  <1>11. ASSUME NEW t \in Tasks, Fail(t) \/ GiveUp(t) PROVE DataInv'
    <2>1. op[t] # None /\ End(t) /\ data' = data
      BY <1>1, <1>11 DEF Fail, GiveUp, MaySend, TaskInv
    <2>2. Others(t) /\ op'[t] = None
      BY <1>1, <2>1, EndMoves
    <2>3. \A u \in Tasks : op'[u] = [kind |-> "poll"] => op'[u] = op[u] /\ got'[u] = got[u]
      BY <1>3, <2>2 DEF Others
    <2> QED BY <1>4, <1>5, <1>6, <2>1, <2>3
  <1>12. CASE Unsolicited
    <2>1. op' = op /\ got' = got /\ data' = data
      BY <1>12 DEF Unsolicited, tasks
    <2> QED BY <1>4, <1>5, <1>6, <2>1
  <1>13. CASE LinkLost \/ PowerCycle
    <2>1. op' = op /\ got' = got /\ data' = data
      BY <1>13 DEF LinkLost, PowerCycle, BreakOff
    <2> QED BY <1>4, <1>5, <1>6, <2>1
  <1> QED BY <1>7, <1>8, <1>9, <1>10, <1>11, <1>12, <1>13 DEF Next

-----------------------------------------------------------------------------
(* The invariant. *)

(* It holds before the first operation. *)
LEMMA InvInit ==
  ASSUME Init
  PROVE  Inv
  <1>1. /\ op = [t \in Tasks |-> None] /\ todo = [t \in Tasks |-> <<>>]
        /\ got = [t \in Tasks |-> <<>>] /\ late = None
        /\ fw = Blank /\ flash = Blank /\ sensing = TRUE
        /\ lost = {} /\ connected = FALSE
        /\ interrupted = FALSE /\ unsaved = FALSE
    BY DEF Init
  <1>2. [kind |-> "poll"] # None
    BY NoneAssumption DEF Operations
  <1>3. TaskInv
    BY <1>1, <1>2 DEF TaskInv
  <1>4. 0 \in Slots /\ SLOT_COUNT \in Nat
    BY CountsAssumption DEF Slots
  <1>5. Blank \in Configs
    <2>1. BlankSlot \in SlotConfigs
      BY DEF BlankSlot, SlotConfigs, Contents
    <2> QED BY <1>4, <2>1 DEF Blank, Configs
  <1>6. DeviceInv
    BY <1>1, <1>5 DEF DeviceInv
  <1>7. LateInv /\ SaveInv /\ SenseInv
    BY <1>1 DEF LateInv, SaveInv, Same, SenseInv, SensingNeedsUnlock
  <1>8. NickInv
    BY <1>1, <1>2 DEF NickInv
  <1>9. /\ data.active_slot = 0 /\ data.slot_info = [s \in Slots |-> "UNKNOWN"]
        /\ data.enabled_slots = [s \in Slots |-> FALSE]
        /\ data.slot_nicks = [i \in 1..SLOT_COUNT |-> None]
    BY DEF Init
  <1>10. DataInv
    <2> DEFINE nicks == [i \in 1..SLOT_COUNT |-> None]
    <2>1. None \in Replies
      BY DEF Replies
    <2>2. nicks \in Seq(Replies) /\ Len(nicks) = SLOT_COUNT
      BY <1>4, <2>1
    <2>3. Aligned(nicks)
      BY <2>2 DEF Aligned
    <2>4. Len(nicks) <= SLOT_COUNT
      BY <1>4, <2>2
    <2> HIDE DEF nicks
    <2>5. data.slot_nicks = nicks
      BY <1>9 DEF nicks
    <2>6. \A t \in Tasks : op[t] # [kind |-> "poll"]
      BY <1>1, <1>2
    <2> QED BY <1>4, <1>9, <2>2, <2>3, <2>4, <2>5, <2>6 DEF DataInv
  <1>11. CountInv
    BY CountsAssumption DEF Init, CountInv
  <1> QED BY <1>3, <1>6, <1>7, <1>8, <1>10, <1>11 DEF Inv

(* Every step keeps it. *)
LEMMA InvStep ==
  ASSUME Inv, [Next]_vars
  PROVE  Inv'
  <1>1. CASE Next
    <2>1. SaveInv'
      <3>1. unsaved' => SaveInv'
        BY DEF SaveInv
      <3> QED BY <1>1, <3>1, SaveStep
    <2> QED BY <1>1, <2>1, TaskStep, DeviceStep, LateStep, SenseStep, NickStep, DataStep,
               CountStep DEF Inv
  <1>2. CASE UNCHANGED vars
    <2>1. /\ op' = op /\ todo' = todo /\ got' = got /\ fw' = fw /\ flash' = flash
          /\ lost' = lost /\ connected' = connected
          /\ sensing' = sensing /\ late' = late /\ data' = data /\ ops' = ops
          /\ faults' = faults /\ disturbed' = disturbed
          /\ interrupted' = interrupted /\ unsaved' = unsaved
      BY <1>2 DEF vars, tasks, firmware, history
    <2>2. TaskInv' /\ DeviceInv' /\ LateInv'
      BY <2>1 DEF Inv, TaskInv, UnderWay, Place, DeviceInv, LateInv
    <2>3. SaveInv' /\ SenseInv'
      BY <2>1 DEF Inv, SaveInv, Same, SenseInv, SensingNeedsUnlock, Holding
    <2>4. NickInv'
      BY <2>1 DEF Inv, NickInv, Shown
    <2>5. DataInv' /\ CountInv'
      BY <2>1 DEF Inv, DataInv, CountInv
    <2> QED BY <2>2, <2>3, <2>4, <2>5 DEF Inv
  <1> QED BY <1>1, <1>2

(* So it always holds. *)
THEOREM Invariance == Spec => []Inv
  <1>1. Init => Inv
    BY InvInit
  <1>2. Inv /\ [Next]_vars => Inv'
    BY InvStep
  <1> QED BY <1>1, <1>2, PTL DEF Spec

-----------------------------------------------------------------------------
(* What follows from it. *)

(* Operations, commands, the device and the data of the coordinator keep their
   types, and a task has commands left exactly while it runs an operation. *)
THEOREM TypeCorrect == Spec => []TypeOK
  <1>1. Inv => TypeOK
    <2> SUFFICES ASSUME Inv PROVE TypeOK
      OBVIOUS
    <2>1. TaskInv /\ DeviceInv /\ LateInv /\ DataInv /\ CountInv
      BY DEF Inv
    <2>2. ASSUME NEW t \in Tasks PROVE op[t] = None <=> todo[t] = <<>>
      <3>1. op[t] = None => todo[t] = <<>>
        BY <2>1 DEF TaskInv
      <3>2. op[t] # None => todo[t] # <<>>
        BY <2>1, NextCommand
      <3> QED BY <3>1, <3>2
    <2> QED BY <2>1, <2>2 DEF TypeOK, TaskInv, DeviceInv, LateInv, DataInv, CountInv
  <1> QED BY <1>1, Invariance, PTL

(* However long a dump is and however it is cut, a chunk that is still to be
   written makes write_emu_block_data raise only if it starts after the last block
   whose number is a byte. *)
THEOREM ChunksAreSendable == Spec => []WritesAreSendable
  <1>1. Inv => WritesAreSendable
    <2> SUFFICES ASSUME Inv, NEW t \in Tasks, NEW i \in 1..Len(todo[t])
                 PROVE  CutFrom(op[t].dump, todo[t][i])
      BY DEF WritesAreSendable, CutFrom
    <2>1. op[t] # None
      <3>1. CASE op[t] = None
        <4>1. todo[t] = <<>>
          BY <3>1 DEF Inv, TaskInv
        <4> QED BY <4>1
      <3> QED BY <3>1
    <2>2. op[t] \in Operations /\ UnderWay(t)
      BY <2>1 DEF Inv, TaskInv
    <2> DEFINE p == Program(op[t])
               n == Len(todo[t])
    <2>3. Sound(op[t], p) /\ Len(p) \in Nat
      BY <2>2, Programs
    <2>4. /\ n \in 1..Len(p) /\ Place(t) = Len(p) - n
          /\ todo[t][i] = p[Place(t) + i]
      BY <2>2 DEF UnderWay, Place
    <2> HIDE DEF p, n
    <2>5. Place(t) + i \in 1..Len(p)
      BY <2>3, <2>4 DEF n
    <2> QED BY <2>3, <2>4, <2>5 DEF Sound
  <1> QED BY <1>1, Invariance, PTL

(* When no operation is under way on a connection, and none that saves broke off,
   a power cycle would lose neither the active slot nor a card. *)
THEOREM NothingLeftUnsaved == Spec => []QuietMeansSaved
  <1>1. Inv => QuietMeansSaved
    BY DEF Inv, SaveInv, Same, QuietMeansSaved
  <1> QED BY <1>1, Invariance, PTL

(* On a connection whose set-up is over, the device answers readers only while an
   unlock holds it, or after an unlock or that set-up broke off. *)
THEOREM SensingIsUnlocked == Spec => []SensingNeedsUnlock
  <1>1. Inv => SensingNeedsUnlock
    BY DEF Inv, SenseInv
  <1> QED BY <1>1, Invariance, PTL

(* A nickname is shown at its slot, or no further below it than there are
   nicknames above that could not be read. *)
THEOREM NicknamesShownInPlace == Spec => []NicknamesAligned
  <1>1. Inv => NicknamesAligned
    BY DEF Inv, DataInv, NicknamesAligned
  <1> QED BY <1>1, Invariance, PTL
=============================================================================
