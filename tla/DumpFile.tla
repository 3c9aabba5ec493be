------------------------------ MODULE DumpFile ------------------------------
(***************************************************************************)
(* Card dump files: what load_dump reads from one, and the write commands  *)
(* it cuts it into.                                                        *)
(*                                                                         *)
(* A file has a suffix and, when it is raw, its bytes, or else the block   *)
(* lines of a Flipper Zero text file in their order; other lines are       *)
(* skipped, and a number or digits that do not parse end the load as       *)
(* an unknown suffix does.                                                 *)
(***************************************************************************)
EXTENDS Naturals, Sequences, SequencesExt

CONSTANTS
  BLOCK,       \* bytes of a block, 16
  Zero,        \* the byte 0
  chunk_size   \* blocks load_dump writes at a time, 31

ASSUME SizesAssumption == BLOCK \in Nat \ {0} /\ chunk_size \in Nat \ {0}

Unreadable == <<>>  \* what stands for a parse that raises: no block either way

-----------------------------------------------------------------------------
(* Parsing. *)

(* A dictionary that keeps the first of two lines for one block. *)
InsertOnce(blocks, line) ==
  IF \E i \in 1..Len(blocks) : blocks[i].num = line.num THEN blocks
                                                      ELSE Append(blocks, line)
(* blocks[block_num] = data: a later line replaces the data in place. *)
Insert(blocks, line) ==
  LET i == SelectInSeq(blocks, LAMBDA b : b.num = line.num)
  IN  IF i = 0 THEN Append(blocks, line) ELSE [blocks EXCEPT ![i] = line]

(* result[num * 16 : num * 16 + len(data)] = data.  The slice ends where the
   result does, so data that reach further make the result longer. *)
Assign(result, line) ==
  LET start == line.num * BLOCK
  IN  SubSeq(result, 1, start) \o line.data
      \o SubSeq(result, start + Len(line.data) + 1, Len(result))

_parse_flipper_nfc(lines) ==
  LET blocks[i \in 0..Len(lines)] ==
        IF i = 0 THEN <<>> ELSE Insert(blocks[i - 1], lines[i])
      read == blocks[Len(lines)]
      max_block == Max({read[i].num : i \in 1..Len(read)})
      result[i \in 0..Len(read)] ==
        IF i = 0 THEN [b \in 1..((max_block + 1) * BLOCK) |-> Zero]
                 ELSE Assign(result[i - 1], read[i])
  IN  IF read = <<>> THEN Unreadable ELSE result[Len(read)]

_parse_dump_file(file) ==
  CASE file.suffix \in {".mfd", ".bin"} -> file.bytes
    [] file.suffix = ".nfc" -> _parse_flipper_nfc(file.lines)
    [] OTHER -> Unreadable

-----------------------------------------------------------------------------
(* Chunks: the block ranges [start, end) in steps of chunk_size. *)

NumberOfChunks(total_blocks) == (total_blocks + chunk_size - 1) \div chunk_size
ChunkStart(i) == (i - 1) * chunk_size

(* A range that takes in its end. *)
ChunkEndInclusive(i, total_blocks) ==
  IF i * chunk_size + 1 < total_blocks THEN i * chunk_size + 1 ELSE total_blocks
ChunkEnd(i, total_blocks) ==
  IF i * chunk_size < total_blocks THEN i * chunk_size ELSE total_blocks

(* Blocks start to end - 1 of a dump; a trailing part of a block is in none. *)
Slice(dump_data, start, end) == SubSeq(dump_data, start * BLOCK + 1, end * BLOCK)
BlocksOf(dump_data) == Len(dump_data) \div BLOCK

-----------------------------------------------------------------------------
(* What a file says, read off it without the parser. *)

LinesFor(file, b) == {i \in 1..Len(file.lines) : file.lines[i].num = b}

(* The number of its blocks, when no line has more than one. *)
BlocksIn(file) ==
  IF file.suffix = ".nfc" THEN Max({line.num : line \in ToSet(file.lines)}) + 1
                          ELSE Len(file.bytes) \div BLOCK

(* Block b: the last line for it, filled up with zeros, or zeros alone. *)
Padded(data) == [k \in 1..BLOCK |-> IF k \in 1..Len(data) THEN data[k] ELSE Zero]
Said(file, b) ==
  IF file.suffix # ".nfc" THEN Slice(file.bytes, b, b + 1)
  ELSE IF LinesFor(file, b) = {} THEN Padded(<<>>)
  ELSE Padded(file.lines[Max(LinesFor(file, b))].data)
=============================================================================
