--------------------------- MODULE FrameAssembler ---------------------------
(***************************************************************************)
(* The frame format and the byte-wise receiver of protocol.py, fed by a    *)
(* sender that transmits frames, frames cut short and stray bytes.         *)
(*                                                                         *)
(* Bytes are numbers below Modulus.  CMD and STATUS are one byte, LEN is   *)
(* one byte: a frame is SOF, LRC1, CMD, LEN, LRC2, the data and LRC3.      *)
(***************************************************************************)
EXTENDS Naturals, Sequences, SequencesExt

CONSTANTS
  Modulus,       \* number of byte values
  SOF,           \* start of frame
  MAX_DATA_LENGTH,
  MaxSent        \* bound: frames, cut frames and stray bytes sent

(* The longest data has a length that fits LEN. *)
ASSUME ModulusAssumption ==
  Modulus \in Nat /\ MAX_DATA_LENGTH \in Nat /\ MAX_DATA_LENGTH < Modulus
ASSUME SOFAssumption == SOF \in 1..(Modulus - 1)
ASSUME MaxSentAssumption == MaxSent \in Nat

Bytes == 0..(Modulus - 1)

(* lrc(): two's complement of the sum of the bytes. *)
lrc(data) ==
  LET sum[i \in 0..Len(data)] == IF i = 0 THEN 0 ELSE (sum[i - 1] + data[i]) % Modulus
  IN  (Modulus - sum[Len(data)]) % Modulus

LRC1 == lrc(<<SOF>>)
MAX_FRAME_SIZE == 6 + MAX_DATA_LENGTH
Payloads == UNION {[1..n -> Bytes] : n \in 0..MAX_DATA_LENGTH}

build_frame(cmd, data) ==
  LET preamble == <<SOF, LRC1, cmd, Len(data)>> IN
  preamble \o <<lrc(preamble)>> \o data \o <<IF data # <<>> THEN lrc(data) ELSE 0>>

VARIABLES
  state,     \* _state
  buf,       \* _buf
  data_len,  \* _data_len
  frame,     \* what the last byte completed: <<>>, or <<[cmd, data]>>
  wire,      \* bytes under way to the assembler
  sent,      \* frames and stray bytes sent so far
  heard,     \* history: the last bytes processed, as many as a frame can have
  whole      \* history: the frame on the wire, if it is complete and the
             \* assembler was waiting for one

assembler == <<state, buf, data_len>>
vars == <<assembler, frame, wire, sent, heard, whole>>

States == {"WAIT_SOF", "WAIT_LRC1", "ACCUMULATE_HEADER", "VALIDATE_LRC2",
           "ACCUMULATE_DATA", "VALIDATE_LRC3"}
Frames == [cmd : Bytes, data : Payloads]

Init ==
  /\ state = "WAIT_SOF" /\ buf = <<>> /\ data_len = 0
  /\ frame = <<>>
  /\ wire = <<>> /\ sent = 0
  /\ heard = <<>> /\ whole = <<>>

-----------------------------------------------------------------------------
(* _process_byte, one operator per state. *)

Become(next, bytes) == state' = next /\ buf' = bytes

(* A new frame behind the rest of the last one. *)
StartOverKeepsBuf(byte) == Become("WAIT_LRC1", Append(buf, byte))
StartOver(byte) == Become("WAIT_LRC1", <<byte>>)

WaitSof(byte) ==
  /\ state = "WAIT_SOF"
  /\ IF byte = SOF THEN StartOver(byte) ELSE Become("WAIT_SOF", buf)
  /\ frame' = <<>> /\ UNCHANGED data_len

WaitLrc1(byte) ==
  /\ state = "WAIT_LRC1"
  /\ IF byte = LRC1 THEN Become("ACCUMULATE_HEADER", Append(buf, byte))
     ELSE IF byte = SOF THEN StartOver(byte)
     ELSE Become("WAIT_SOF", buf)
  /\ frame' = <<>> /\ UNCHANGED data_len

AccumulateHeader(byte) ==
  /\ state = "ACCUMULATE_HEADER"
  /\ Become(IF Len(buf) + 1 = 4 THEN "VALIDATE_LRC2" ELSE state, Append(buf, byte))
  /\ frame' = <<>> /\ UNCHANGED data_len

(* A length that is taken as it comes. *)
TooLongNever(len) == FALSE
TooLong(len) == len > MAX_DATA_LENGTH

ValidateLrc2(byte) ==
  /\ state = "VALIDATE_LRC2"
  /\ frame' = <<>>
  /\ IF byte # lrc(buf)
     THEN /\ UNCHANGED data_len
          /\ IF byte = SOF THEN StartOver(byte) ELSE Become("WAIT_SOF", buf)
     ELSE /\ data_len' = buf[4]
          /\ Become(IF TooLong(buf[4]) THEN "WAIT_SOF"
                    ELSE IF buf[4] = 0 THEN "VALIDATE_LRC3" ELSE "ACCUMULATE_DATA",
                    Append(buf, byte))

(* Waiting for one byte more than there is. *)
AccumulateDataLate(byte) ==
  /\ state = "ACCUMULATE_DATA"
  /\ Become(IF Len(buf) - 5 = data_len THEN "VALIDATE_LRC3" ELSE state,
            Append(buf, byte))
  /\ frame' = <<>> /\ UNCHANGED data_len
AccumulateData(byte) ==
  /\ state = "ACCUMULATE_DATA"
  /\ Become(IF Len(buf) + 1 - 5 = data_len THEN "VALIDATE_LRC3" ELSE state,
            Append(buf, byte))
  /\ frame' = <<>> /\ UNCHANGED data_len

(* A check of LRC3 that only looks at frames with data. *)
Lrc3SkipsEmpty(data, byte) == data = <<>> \/ byte = lrc(data)
Lrc3Fits(data, byte) == byte = IF data # <<>> THEN lrc(data) ELSE 0

ValidateLrc3(byte) ==
  LET data == SubSeq(buf, 6, Len(buf)) IN
  /\ state = "VALIDATE_LRC3"
  /\ Become("WAIT_SOF", buf)
  /\ frame' = IF Lrc3Fits(data, byte) THEN <<[cmd |-> buf[3], data |-> data]>> ELSE <<>>
  /\ UNCHANGED data_len

ProcessByte(byte) ==
  \/ WaitSof(byte) \/ WaitLrc1(byte) \/ AccumulateHeader(byte)
  \/ ValidateLrc2(byte) \/ AccumulateData(byte) \/ ValidateLrc3(byte)

-----------------------------------------------------------------------------
(* The next byte of a notification.  How bytes fall into notifications does not
   matter to the assembler, whose state lives across them. *)
FeedByte ==
  /\ wire # <<>>
  /\ ProcessByte(Head(wire))
  /\ wire' = Tail(wire)
  /\ heard' = LET all == Append(heard, Head(wire)) IN
              IF Len(all) > MAX_FRAME_SIZE THEN Tail(all) ELSE all
  /\ UNCHANGED <<sent, whole>>

(* reset(), called by _send_locked before each request, and by feed() when a
   partial frame is older than FRAME_TIMEOUT. *)
Reset ==
  /\ state' = "WAIT_SOF" /\ buf' = <<>> /\ data_len' = 0
  /\ frame' = <<>> /\ heard' = <<>> /\ whole' = <<>>
  /\ UNCHANGED <<wire, sent>>

(* The sender transmits a frame. *)
SendFrame(cmd, data) ==
  /\ wire = <<>>
  /\ sent < MaxSent
  /\ sent' = sent + 1
  /\ wire' = build_frame(cmd, data)
  /\ frame' = <<>>
  /\ whole' = IF state = "WAIT_SOF" THEN <<[cmd |-> cmd, data |-> data]>> ELSE <<>>
  /\ UNCHANGED <<assembler, heard>>

(* Bytes that are no frame: a frame that breaks off, or one stray byte. *)
SendPart(cmd, data, n) ==
  /\ wire = <<>>
  /\ sent < MaxSent
  /\ sent' = sent + 1
  /\ wire' = SubSeq(build_frame(cmd, data), 1, n)
  /\ frame' = <<>>
  /\ whole' = <<>>
  /\ UNCHANGED <<assembler, heard>>

SendStray(byte) ==
  /\ wire = <<>>
  /\ sent < MaxSent
  /\ sent' = sent + 1
  /\ wire' = <<byte>>
  /\ frame' = <<>>
  /\ whole' = <<>>
  /\ UNCHANGED <<assembler, heard>>

Next ==
  \/ FeedByte
  \/ Reset
  \/ \E cmd \in Bytes, data \in Payloads :
       \/ SendFrame(cmd, data)
       \/ \E n \in 1..(Len(data) + 5) : SendPart(cmd, data, n)
  \/ \E byte \in Bytes : SendStray(byte)

Spec == Init /\ [][Next]_vars

-----------------------------------------------------------------------------
(* Properties. *)

TypeOK ==
  /\ state \in States
  /\ buf \in Seq(Bytes) /\ Len(buf) <= MAX_FRAME_SIZE - 1
  /\ data_len \in Bytes
  /\ frame \in Seq(Frames) /\ Len(frame) <= 1
  /\ wire \in Seq(Bytes)
  /\ sent \in 0..MaxSent
  /\ heard \in Seq(Bytes)
  /\ whole \in Seq(Frames) /\ Len(whole) <= 1

(* No frame is invented: whatever came before, the bytes heard last are
   exactly the encoding of the frame that is delivered. *)
DeliveredFramesWereHeard ==
  frame # <<>> => IsSuffix(build_frame(frame[1].cmd, frame[1].data), heard)

(* A partial frame is made of consecutive bytes, up to the last one heard:
   none of them is skipped on the way to a frame. *)
PartialFrameIsHeard == state # "WAIT_SOF" => IsSuffix(buf, heard)

(* A complete frame that meets a waiting assembler is delivered with its last
   byte and not before, and leaves the assembler waiting again, whatever SOF
   bytes its header, data and checksums contain. *)
CompleteFrameIsDelivered ==
  whole # <<>> =>
    IF wire = <<>> THEN frame = whole /\ state = "WAIT_SOF" ELSE frame = <<>>
=============================================================================
