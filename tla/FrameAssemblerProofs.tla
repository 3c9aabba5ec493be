------------------------ MODULE FrameAssemblerProofs ------------------------
(***************************************************************************)
(* Proofs about FrameAssembler: that the receiver's states are typed, that *)
(* it never skips a byte of a partial frame nor invents a frame, and that  *)
(* a complete frame sent to a waiting receiver is delivered.               *)
(*                                                                         *)
(* The first part is about the checksum, a recursive function; the second  *)
(* about frames and suffixes as sequences; the third about the steps.      *)
(***************************************************************************)
EXTENDS FrameAssembler, SequenceTheorems, FiniteSetTheorems,
        WellFoundedInduction, TLAPS

-----------------------------------------------------------------------------
(* The inductive invariant. *)

(* What buf holds in each state: the accepted prefix of a frame, of which
   the parts behind a check are known. *)
HasHeader ==
  /\ buf[1] = SOF /\ buf[2] = LRC1
  /\ buf[5] = lrc(<<SOF, LRC1, buf[3], buf[4]>>)
  /\ buf[4] = data_len /\ data_len <= MAX_DATA_LENGTH

BufInv ==
  /\ state = "WAIT_LRC1" => Len(buf) = 1 /\ buf[1] = SOF
  /\ state = "ACCUMULATE_HEADER" =>
       Len(buf) \in 2..3 /\ buf[1] = SOF /\ buf[2] = LRC1
  /\ state = "VALIDATE_LRC2" =>
       Len(buf) = 4 /\ buf[1] = SOF /\ buf[2] = LRC1
  /\ state = "ACCUMULATE_DATA" =>
       Len(buf) >= 5 /\ Len(buf) < 5 + data_len /\ HasHeader
  /\ state = "VALIDATE_LRC3" => Len(buf) = 5 + data_len /\ HasHeader

(* The bytes of the whole frame that the assembler has taken, and the state
   that many bytes of a frame lead to. *)
WholeFrame == build_frame(whole[1].cmd, whole[1].data)
Taken == Len(WholeFrame) - Len(wire)

StateAfter(k, n) ==
  IF k = 0 THEN "WAIT_SOF"
  ELSE IF k = 1 THEN "WAIT_LRC1"
  ELSE IF k < 4 THEN "ACCUMULATE_HEADER"
  ELSE IF k = 4 THEN "VALIDATE_LRC2"
  ELSE IF k < 5 + n THEN "ACCUMULATE_DATA"
  ELSE "VALIDATE_LRC3"

(* The receiver has taken the first k bytes of frame f, which has n of data. *)
InFrame(f, n, k) ==
  /\ state = StateAfter(k, n)
  /\ k > 0 => Len(buf) = k /\ \A i \in 1..k : buf[i] = f[i]

(* While a whole frame is under way, buf and wire are its two parts. *)
WholeInv ==
  whole # <<>> /\ wire # <<>> =>
    /\ Taken \in Nat
    /\ \A i \in 1..Len(wire) : wire[i] = WholeFrame[Taken + i]
    /\ InFrame(WholeFrame, Len(whole[1].data), Taken)

AssemblerInv ==
  /\ TypeOK
  /\ BufInv
  /\ PartialFrameIsHeard
  /\ DeliveredFramesWereHeard
  /\ WholeInv
  /\ CompleteFrameIsDelivered

-----------------------------------------------------------------------------
(* The checksum. *)

(* Induction up to a bound: a set that holds 0 and, with each number below n,
   the next one, holds every number up to n. *)
LEMMA CountsUp ==
  ASSUME NEW n \in Nat, NEW T, 0 \in T,
         \A i \in 0..(n - 1) : i \in T => i + 1 \in T
  PROVE  \A i \in 0..n : i \in T
  <1> DEFINE Below(i) == 1..i
             U == {Below(i) : i \in (0..n) \ T}
  <1> SUFFICES ASSUME NEW k \in 0..n, k \notin T PROVE FALSE
    OBVIOUS
  <1>1. IsWellFoundedOn(StrictSubsetOrdering(1..n), FiniteSubsetsOf(1..n))
    BY FS_StrictSubsetOrderingWellFounded
  <1>2. U \subseteq FiniteSubsetsOf(1..n) /\ U # {}
    <2>1. ASSUME NEW j \in 0..n PROVE Below(j) \in FiniteSubsetsOf(1..n)
      <3>1. Below(j) \subseteq 1..n /\ IsFiniteSet(Below(j))
        BY FS_Interval
      <3> QED
        BY <3>1 DEF FiniteSubsetsOf
    <2> QED
      BY <2>1
  <1>3. PICK u \in U : \A v \in U : ~(<<v, u>> \in StrictSubsetOrdering(1..n))
    BY <1>1, <1>2, WFMin
  <1>4. PICK j \in (0..n) \ T : u = Below(j)
    BY <1>3
  <1>5. j # 0 /\ j - 1 \in 0..(n - 1) /\ j - 1 \notin T
    BY <1>4
  <1>6. /\ Below(j - 1) \subseteq Below(j) /\ Below(j) \subseteq 1..n
        /\ j \in Below(j) /\ j \notin Below(j - 1)
    BY <1>5
  <1>7. <<Below(j - 1), Below(j)>> \in StrictSubsetOrdering(1..n)
    BY <1>6 DEF StrictSubsetOrdering
  <1>8. Below(j - 1) \in U
    BY <1>5
  <1> QED
    BY <1>3, <1>4, <1>7, <1>8

(* The running sums of a sequence of bytes exist: a function with their
   equation, whose values are bytes. *)
LEMMA SumsExist ==
  ASSUME NEW data \in Seq(Bytes)
  PROVE  \E f \in [0..Len(data) -> Bytes] :
           f = [i \in 0..Len(data) |->
                  IF i = 0 THEN 0 ELSE (f[i - 1] + data[i]) % Modulus]
  <1> DEFINE n == Len(data)
             Sums(f, m) == \A i \in 0..m :
               f[i] = IF i = 0 THEN 0 ELSE (f[i - 1] + data[i]) % Modulus
             T == {m \in 0..n : \E f \in [0..m -> Bytes] : Sums(f, m)}
  <1>1. Modulus \in Nat /\ Modulus > 0 /\ n \in Nat
    BY ModulusAssumption
  <1>2. \A a, b \in Bytes : (a + b) % Modulus \in Bytes
    BY <1>1 DEF Bytes
  <1>3. 0 \in T
    <2>1. [i \in 0..0 |-> 0] \in [0..0 -> Bytes]
      BY <1>1 DEF Bytes
    <2>2. Sums([i \in 0..0 |-> 0], 0)
      OBVIOUS
    <2>3. 0 \in 0..n
      BY <1>1
    <2> QED
      BY <2>1, <2>2, <2>3, Zenon
  <1>4. ASSUME NEW m \in 0..(n - 1), m \in T PROVE m + 1 \in T
    <2>1. PICK f \in [0..m -> Bytes] : Sums(f, m)
      BY <1>4
    <2> DEFINE last == (f[m] + data[m + 1]) % Modulus
               g == [i \in 0..(m + 1) |-> IF i = m + 1 THEN last ELSE f[i]]
    <2>2. data[m + 1] \in Bytes
      BY <1>1, ElementOfSeq
    <2>3. last \in Bytes
      BY <1>2, <2>1, <2>2
    <2> HIDE DEF last
    <2>4. g \in [0..(m + 1) -> Bytes]
      BY <2>1, <2>3
    <2>5. Sums(g, m + 1)
      BY <2>1 DEF last
    <2> QED
      BY <1>1, <2>4, <2>5
  <1>5. n \in T
    <2> HIDE DEF T, n
    <2>1. \A i \in 0..n : i \in T
      BY <1>1, <1>3, <1>4, CountsUp, Zenon
    <2> QED
      BY <1>1, <2>1
  <1> QED
    BY <1>5

(* A checksum is a byte. *)
LEMMA LrcIsByte ==
  ASSUME NEW data \in Seq(Bytes)
  PROVE  lrc(data) \in Bytes
  <1> DEFINE n == Len(data)
             Equation(f) == f = [i \in 0..n |->
               IF i = 0 THEN 0 ELSE (f[i - 1] + data[i]) % Modulus]
             sum == CHOOSE f : Equation(f)
             T == {i \in 0..n : sum[i] \in Bytes}
  <1>1. Modulus \in Nat /\ Modulus > 0 /\ n \in Nat
    BY ModulusAssumption
  <1>2. \E f : Equation(f)
    BY SumsExist
  <1>3. Equation(sum)
    <2> HIDE DEF Equation
    <2> QED
      BY <1>2
  <1>4. \A i \in 0..n : sum[i] = IF i = 0 THEN 0 ELSE (sum[i - 1] + data[i]) % Modulus
    <2> HIDE DEF sum
    <2> QED
      BY <1>3
  <1>5. lrc(data) = (Modulus - sum[n]) % Modulus
    BY DEF lrc
  <1> HIDE DEF sum
  <1>6. 0 \in T
    BY <1>1, <1>4 DEF Bytes
  <1>7. ASSUME NEW i \in 0..(n - 1), i \in T PROVE i + 1 \in T
    <2>1. data[i + 1] \in Bytes /\ sum[i] \in Bytes
      BY <1>1, <1>7, ElementOfSeq
    <2>2. sum[i + 1] = (sum[i] + data[i + 1]) % Modulus
      BY <1>1, <1>4
    <2>3. \A a, b \in Bytes : (a + b) % Modulus \in Bytes
      BY <1>1 DEF Bytes
    <2>4. sum[i + 1] \in Bytes
      BY <2>1, <2>2, <2>3, Zenon
    <2> QED
      BY <1>1, <2>4
  <1>8. n \in T
    <2> HIDE DEF T, n
    <2>1. \A i \in 0..n : i \in T
      BY <1>1, <1>6, <1>7, CountsUp, Zenon
    <2> QED
      BY <1>1, <2>1
  <1> QED
    BY <1>1, <1>5, <1>8 DEF Bytes

-----------------------------------------------------------------------------
(* Frames and suffixes. *)

(* The constants of the format. *)
LEMMA Format ==
  /\ Modulus \in Nat /\ Modulus > 1
  /\ MAX_DATA_LENGTH \in Nat /\ 0..MAX_DATA_LENGTH \subseteq Bytes
  /\ SOF \in Bytes /\ LRC1 \in Bytes /\ 0 \in Bytes
  /\ MAX_FRAME_SIZE = 6 + MAX_DATA_LENGTH
  <1>1. /\ Modulus \in Nat /\ Modulus > 1 /\ SOF \in Bytes /\ 0 \in Bytes
        /\ MAX_DATA_LENGTH \in Nat /\ 0..MAX_DATA_LENGTH \subseteq Bytes
    BY ModulusAssumption, SOFAssumption DEF Bytes
  <1>2. <<SOF>> \in Seq(Bytes)
    BY <1>1
  <1>3. LRC1 \in Bytes
    BY <1>2, LrcIsByte DEF LRC1
  <1> QED
    BY <1>1, <1>3 DEF MAX_FRAME_SIZE

(* What a frame's data is: a short sequence of bytes. *)
LEMMA Payload ==
  ASSUME NEW data
  PROVE  data \in Payloads <=>
           data \in Seq(Bytes) /\ Len(data) <= MAX_DATA_LENGTH
  <1> MAX_DATA_LENGTH \in Nat
    BY Format
  <1> HIDE DEF Bytes
  <1>1. ASSUME data \in Payloads
        PROVE  data \in Seq(Bytes) /\ Len(data) <= MAX_DATA_LENGTH
    <2> PICK n \in 0..MAX_DATA_LENGTH : data \in [1..n -> Bytes]
      BY <1>1 DEF Payloads
    <2> QED
      OBVIOUS
  <1>2. ASSUME data \in Seq(Bytes), Len(data) <= MAX_DATA_LENGTH
        PROVE  data \in Payloads
    <2>1. Len(data) \in 0..MAX_DATA_LENGTH /\ data \in [1..Len(data) -> Bytes]
      BY <1>2, LenProperties
    <2> QED
      BY <2>1 DEF Payloads
  <1> QED
    BY <1>1, <1>2

(* The bytes of a frame, by their place. *)
LEMMA FrameBytes ==
  ASSUME NEW cmd \in Bytes, NEW data \in Payloads
  PROVE  LET f == build_frame(cmd, data) IN
         /\ f \in Seq(Bytes) /\ Len(f) = 6 + Len(data)
         /\ f[1] = SOF /\ f[2] = LRC1 /\ f[3] = cmd /\ f[4] = Len(data)
         /\ f[5] = lrc(<<SOF, LRC1, cmd, Len(data)>>)
         /\ \A i \in 1..Len(data) : f[5 + i] = data[i]
         /\ f[6 + Len(data)] = IF data # <<>> THEN lrc(data) ELSE 0
  <1> DEFINE preamble == <<SOF, LRC1, cmd, Len(data)>>
             check == lrc(preamble)
             last == IF data # <<>> THEN lrc(data) ELSE 0
             header == preamble \o <<check>>
             body == header \o data
             f == body \o <<last>>
  <1>1. build_frame(cmd, data) = f
    BY DEF build_frame
  <1>2. /\ data \in Seq(Bytes) /\ Len(data) \in Nat /\ Len(data) \in Bytes
    BY Payload, Format
  <1> HIDE DEF Bytes
  <1>3. preamble \in Seq(Bytes) /\ Len(preamble) = 4
        /\ preamble[1] = SOF /\ preamble[2] = LRC1 /\ preamble[3] = cmd
        /\ preamble[4] = Len(data)
    BY <1>2, Format
  <1> HIDE DEF preamble
  <1>4. check \in Bytes
    BY <1>3, LrcIsByte
  <1>5. last \in Bytes
    BY <1>2, LrcIsByte, Format
  <1> HIDE DEF check, last
  <1>6. <<check>> \in Seq(Bytes) /\ <<last>> \in Seq(Bytes)
        /\ Len(<<check>>) = 1 /\ Len(<<last>>) = 1
        /\ <<check>>[1] = check /\ <<last>>[1] = last
    BY <1>4, <1>5
  <1>7. header \in Seq(Bytes) /\ Len(header) = 5
        /\ (\A i \in 1..4 : header[i] = preamble[i]) /\ header[5] = check
    <2>1. header \in Seq(Bytes) /\ Len(header) = Len(preamble) + Len(<<check>>)
          /\ \A i \in 1..(Len(preamble) + Len(<<check>>)) :
               header[i] = IF i <= Len(preamble) THEN preamble[i]
                           ELSE <<check>>[i - Len(preamble)]
      <3>1. preamble \in Seq(Bytes) /\ <<check>> \in Seq(Bytes)
        BY <1>3, <1>6
      <3> QED
        BY <3>1, ConcatProperties
    <2> HIDE DEF header
    <2> QED
      BY <1>3, <1>6, <2>1
  <1> HIDE DEF header
  <1>8. body \in Seq(Bytes) /\ Len(body) = 5 + Len(data)
        /\ (\A i \in 1..5 : body[i] = header[i])
        /\ \A i \in 1..Len(data) : body[5 + i] = data[i]
    <2>1. body \in Seq(Bytes) /\ Len(body) = Len(header) + Len(data)
          /\ \A i \in 1..(Len(header) + Len(data)) :
               body[i] = IF i <= Len(header) THEN header[i] ELSE data[i - Len(header)]
      BY <1>2, <1>7, ConcatProperties
    <2> HIDE DEF body
    <2> QED
      BY <1>2, <1>7, <2>1
  <1> HIDE DEF body
  <1>9. f \in Seq(Bytes) /\ Len(f) = 6 + Len(data)
        /\ (\A i \in 1..(5 + Len(data)) : f[i] = body[i])
        /\ f[6 + Len(data)] = last
    <2>1. f \in Seq(Bytes) /\ Len(f) = Len(body) + Len(<<last>>)
          /\ \A i \in 1..(Len(body) + Len(<<last>>)) :
               f[i] = IF i <= Len(body) THEN body[i] ELSE <<last>>[i - Len(body)]
      BY <1>6, <1>8, ConcatProperties
    <2> HIDE DEF f
    <2> QED
      BY <1>2, <1>6, <1>8, <2>1
  <1> HIDE DEF f
  <1>10. /\ f[1] = SOF /\ f[2] = LRC1 /\ f[3] = cmd /\ f[4] = Len(data)
         /\ f[5] = check
    BY <1>2, <1>3, <1>7, <1>8, <1>9
  <1>11. \A i \in 1..Len(data) : f[5 + i] = data[i]
    BY <1>2, <1>8, <1>9
  <1> QED
    BY <1>1, <1>9, <1>10, <1>11 DEF check, last, preamble

(* A suffix, by places. *)
LEMMA Suffix ==
  ASSUME NEW s \in Seq(Bytes), NEW t \in Seq(Bytes)
  PROVE  IsSuffix(s, t) <=>
           /\ Len(s) <= Len(t)
           /\ \A i \in 1..Len(s) : s[i] = t[(Len(t) - Len(s)) + i]
  <1> DEFINE n == Len(s)
             rs == Reverse(s)
             rt == Reverse(t)
  <1> HIDE DEF Bytes
  <1>1. n \in Nat /\ Len(t) \in Nat
    OBVIOUS
  <1>2. rs \in Seq(Bytes) /\ Len(rs) = n /\ \A i \in 1..n : rs[i] = s[(n - i) + 1]
    BY DEF Reverse
  <1>3. rt \in Seq(Bytes) /\ Len(rt) = Len(t)
        /\ \A i \in 1..Len(t) : rt[i] = t[(Len(t) - i) + 1]
    BY DEF Reverse
  <1>4. IsSuffix(s, t) <=> Len(rs) <= Len(rt) /\ SubSeq(rs, 1, Len(rs)) = SubSeq(rt, 1, Len(rs))
    BY DEF IsSuffix, IsPrefix
  <1> HIDE DEF rs, rt
  <1>5. ASSUME n <= Len(t)
        PROVE  SubSeq(rs, 1, n) = SubSeq(rt, 1, n) <=>
                 \A i \in 1..n : rs[i] = rt[i]
    <2>1. /\ SubSeq(rs, 1, n) \in Seq(Bytes) /\ Len(SubSeq(rs, 1, n)) = n
          /\ \A i \in 1..n : SubSeq(rs, 1, n)[i] = rs[i]
      BY <1>1, <1>2
    <2>2. /\ SubSeq(rt, 1, n) \in Seq(Bytes) /\ Len(SubSeq(rt, 1, n)) = n
          /\ \A i \in 1..n : SubSeq(rt, 1, n)[i] = rt[i]
      BY <1>1, <1>3, <1>5
    <2>3. ASSUME \A i \in 1..n : rs[i] = rt[i]
          PROVE  SubSeq(rs, 1, n) = SubSeq(rt, 1, n)
      BY <2>1, <2>2, <2>3, SeqEqual
    <2> QED
      BY <2>1, <2>2, <2>3
  <1>6. ASSUME n <= Len(t)
        PROVE  (\A i \in 1..n : rs[i] = rt[i]) <=>
                 \A i \in 1..n : s[i] = t[(Len(t) - n) + i]
    <2>1. ASSUME NEW i \in 1..n
          PROVE  /\ (n - i) + 1 \in 1..n
                 /\ rs[i] = s[(n - i) + 1]
                 /\ rt[i] = t[(Len(t) - n) + ((n - i) + 1)]
                 /\ s[i] = rs[(n - i) + 1]
                 /\ t[(Len(t) - n) + i] = rt[(n - i) + 1]
      <3>1. /\ (n - i) + 1 \in 1..n /\ (n - ((n - i) + 1)) + 1 = i
            /\ (Len(t) - i) + 1 = (Len(t) - n) + ((n - i) + 1)
            /\ (Len(t) - ((n - i) + 1)) + 1 = (Len(t) - n) + i
            /\ i \in 1..Len(t) /\ (n - i) + 1 \in 1..Len(t)
        BY <1>1, <1>6
      <3> QED
        BY <1>2, <1>3, <3>1
    <2>2. ASSUME \A i \in 1..n : rs[i] = rt[i], NEW i \in 1..n
          PROVE  s[i] = t[(Len(t) - n) + i]
      BY <2>1, <2>2
    <2>3. ASSUME \A i \in 1..n : s[i] = t[(Len(t) - n) + i], NEW i \in 1..n
          PROVE  rs[i] = rt[i]
      BY <2>1, <2>3
    <2> QED
      BY <2>2, <2>3
  <1> QED
    BY <1>2, <1>3, <1>4, <1>5, <1>6

-----------------------------------------------------------------------------
(* The steps of the receiver. *)

(* What a byte does to the history of bytes heard. *)
Kept(h, byte) ==
  LET all == Append(h, byte) IN
  IF Len(all) > MAX_FRAME_SIZE THEN Tail(all) ELSE all

(* A byte extends every suffix that leaves room for it. *)
LEMMA SuffixGrows ==
  ASSUME NEW h \in Seq(Bytes), NEW s \in Seq(Bytes), NEW byte \in Bytes,
         IsSuffix(s, h), Len(s) < MAX_FRAME_SIZE
  PROVE  Kept(h, byte) \in Seq(Bytes) /\ IsSuffix(Append(s, byte), Kept(h, byte))
  <1> DEFINE all == Append(h, byte)
             longer == Append(s, byte)
             kept == Kept(h, byte)
  <1>1. MAX_FRAME_SIZE \in Nat /\ MAX_FRAME_SIZE > 0
    BY Format
  <1>2. /\ Len(s) \in Nat /\ Len(h) \in Nat /\ Len(s) <= Len(h)
        /\ \A i \in 1..Len(s) : s[i] = h[(Len(h) - Len(s)) + i]
    BY Suffix
  <1> HIDE DEF Bytes
  <1>3. /\ all \in Seq(Bytes) /\ Len(all) = Len(h) + 1 /\ all[Len(h) + 1] = byte
        /\ \A i \in 1..Len(h) : all[i] = h[i]
    BY AppendProperties
  <1>4. /\ longer \in Seq(Bytes) /\ Len(longer) = Len(s) + 1 /\ longer[Len(s) + 1] = byte
        /\ \A i \in 1..Len(s) : longer[i] = s[i]
    BY AppendProperties
  <1>5. kept = IF Len(all) > MAX_FRAME_SIZE THEN Tail(all) ELSE all
    BY DEF Kept
  <1>6. all # <<>>
    BY <1>2, <1>3
  <1> HIDE DEF all, longer, kept
  <1>7. \A i \in 1..Len(longer) : longer[i] = all[(Len(all) - Len(longer)) + i]
    <2> SUFFICES ASSUME NEW i \in 1..Len(longer)
                 PROVE  longer[i] = all[(Len(all) - Len(longer)) + i]
      OBVIOUS
    <2>1. Len(all) - Len(longer) = Len(h) - Len(s)
      BY <1>2, <1>3, <1>4
    <2>2. CASE i = Len(s) + 1
      BY <1>2, <1>3, <1>4, <2>1, <2>2
    <2>3. CASE i # Len(s) + 1
      <3>1. i \in 1..Len(s) /\ (Len(h) - Len(s)) + i \in 1..Len(h)
        BY <1>2, <1>4, <2>3
      <3> QED
        BY <1>2, <1>3, <1>4, <2>1, <3>1
    <2> QED
      BY <2>2, <2>3
  <1>8. CASE Len(all) > MAX_FRAME_SIZE
    <2>1. /\ kept \in Seq(Bytes) /\ Len(kept) = Len(all) - 1
          /\ \A i \in 1..Len(kept) : kept[i] = all[i + 1]
      BY <1>3, <1>5, <1>6, <1>8, HeadTailProperties
    <2>2. Len(longer) <= Len(kept)
      BY <1>1, <1>2, <1>3, <1>4, <1>8, <2>1
    <2>3. ASSUME NEW i \in 1..Len(longer)
          PROVE  longer[i] = kept[(Len(kept) - Len(longer)) + i]
      <3>1. /\ (Len(kept) - Len(longer)) + i \in 1..Len(kept)
            /\ ((Len(kept) - Len(longer)) + i) + 1 = (Len(all) - Len(longer)) + i
        BY <1>2, <1>3, <1>4, <2>1, <2>2
      <3> QED
        BY <1>7, <2>1, <3>1
    <2> QED
      BY <1>4, <2>1, <2>2, <2>3, Suffix DEF longer, kept
  <1>9. CASE ~(Len(all) > MAX_FRAME_SIZE)
    <2>1. kept = all /\ Len(longer) <= Len(all)
      BY <1>2, <1>3, <1>4, <1>5, <1>9
    <2> QED
      BY <1>3, <1>4, <1>7, <2>1, Suffix DEF longer, kept
  <1> QED
    BY <1>8, <1>9

(* What a byte makes of a partial frame: the invariant of buf holds again, a
   partial frame is the byte alone or the last one with the byte behind it,
   and a frame is delivered that the bytes of buf and this one encode. *)
BufNext(byte) ==
  /\ state' \in States
  /\ buf' \in Seq(Bytes) /\ Len(buf') <= MAX_FRAME_SIZE - 1
  /\ data_len' \in Bytes
  /\ frame' \in Seq(Frames) /\ Len(frame') <= 1
  /\ BufInv'
  /\ state' # "WAIT_SOF" =>
       buf' = <<byte>> \/ (state # "WAIT_SOF" /\ buf' = Append(buf, byte))
  /\ frame' # <<>> =>
       /\ state # "WAIT_SOF"
       /\ build_frame(frame'[1].cmd, frame'[1].data) = Append(buf, byte)

(* A byte that puts the receiver back to waiting, its buffer as it was. *)
LEMMA GivesUp ==
  ASSUME TypeOK, NEW byte \in Bytes, Become("WAIT_SOF", buf), frame' = <<>>,
         data_len' = data_len
  PROVE  BufNext(byte)
  BY DEF TypeOK, States, Become, BufNext, BufInv

(* A byte that may start a frame. *)
LEMMA StartsOver ==
  ASSUME TypeOK, NEW byte \in Bytes, byte = SOF, StartOver(byte), frame' = <<>>,
         data_len' = data_len
  PROVE  BufNext(byte)
  <1>1. <<byte>> \in Seq(Bytes) /\ Len(<<byte>>) = 1 /\ <<byte>>[1] = SOF
    <2> HIDE DEF Bytes
    <2> QED
      OBVIOUS
  <1>2. MAX_FRAME_SIZE - 1 >= 1
    BY Format
  <1>3. state' = "WAIT_LRC1" /\ buf' = <<byte>>
    BY DEF StartOver, Become
  <1>4. BufInv'
    BY <1>1, <1>3 DEF BufInv
  <1>5. Len(buf') <= MAX_FRAME_SIZE - 1
    BY <1>1, <1>2, <1>3
  <1> HIDE DEF Bytes
  <1> QED
    BY <1>1, <1>3, <1>4, <1>5 DEF TypeOK, States, BufNext

(* A byte that is appended to the buffer. *)
LEMMA Appended ==
  ASSUME TypeOK, NEW byte \in Bytes, buf' = Append(buf, byte)
  PROVE  /\ buf' \in Seq(Bytes) /\ Len(buf') = Len(buf) + 1 /\ Len(buf) \in Nat
         /\ buf'[Len(buf) + 1] = byte
         /\ \A i \in 1..Len(buf) : buf'[i] = buf[i]
  BY AppendProperties DEF TypeOK

LEMMA WaitSofBuf ==
  ASSUME TypeOK, BufInv, NEW byte \in Bytes, WaitSof(byte)
  PROVE  BufNext(byte)
  <1>1. frame' = <<>> /\ data_len' = data_len
    BY DEF WaitSof
  <1>2. CASE byte = SOF
    BY <1>1, <1>2, StartsOver DEF WaitSof
  <1>3. CASE byte # SOF
    BY <1>1, <1>3, GivesUp DEF WaitSof
  <1> QED
    BY <1>2, <1>3

LEMMA WaitLrc1Buf ==
  ASSUME TypeOK, BufInv, NEW byte \in Bytes, WaitLrc1(byte)
  PROVE  BufNext(byte)
  <1>1. frame' = <<>> /\ data_len' = data_len /\ state = "WAIT_LRC1"
        /\ data_len \in Bytes
    BY DEF WaitLrc1, TypeOK
  <1>2. CASE byte = LRC1
    <2>1. state' = "ACCUMULATE_HEADER" /\ buf' = Append(buf, byte)
      BY <1>2 DEF WaitLrc1, Become
    <2>2. Len(buf) = 1 /\ buf[1] = SOF
      BY <1>1 DEF BufInv
    <2>3. /\ buf' \in Seq(Bytes) /\ Len(buf') = 2
          /\ buf'[1] = SOF /\ buf'[2] = LRC1
      BY <1>2, <2>1, <2>2, Appended
    <2>4. MAX_FRAME_SIZE - 1 >= 2
      BY Format
    <2>5. BufInv'
      BY <2>1, <2>3 DEF BufInv
    <2> HIDE DEF Bytes
    <2> QED
      BY <1>1, <2>1, <2>3, <2>4, <2>5 DEF BufNext, States
  <1>3. CASE byte # LRC1 /\ byte = SOF
    BY <1>1, <1>3, StartsOver DEF WaitLrc1
  <1>4. CASE byte # LRC1 /\ byte # SOF
    BY <1>1, <1>4, GivesUp DEF WaitLrc1
  <1> QED
    BY <1>2, <1>3, <1>4

LEMMA AccumulateHeaderBuf ==
  ASSUME TypeOK, BufInv, NEW byte \in Bytes, AccumulateHeader(byte)
  PROVE  BufNext(byte)
  <1>1. /\ frame' = <<>> /\ data_len' = data_len /\ state = "ACCUMULATE_HEADER"
        /\ data_len \in Bytes
        /\ state' = (IF Len(buf) + 1 = 4 THEN "VALIDATE_LRC2" ELSE state)
        /\ buf' = Append(buf, byte)
    BY DEF AccumulateHeader, TypeOK, Become
  <1>2. Len(buf) \in 2..3 /\ buf[1] = SOF /\ buf[2] = LRC1
    BY <1>1 DEF BufInv
  <1>3. /\ buf' \in Seq(Bytes) /\ Len(buf') = Len(buf) + 1
        /\ buf'[1] = SOF /\ buf'[2] = LRC1
    BY <1>1, <1>2, Appended
  <1>4. MAX_FRAME_SIZE \in Nat /\ MAX_FRAME_SIZE - 1 >= 4
    BY Format
  <1>5. BufInv'
    BY <1>1, <1>2, <1>3 DEF BufInv
  <1>6. Len(buf') <= MAX_FRAME_SIZE - 1
    <2>1. \A l \in 2..3 : l + 1 <= MAX_FRAME_SIZE - 1
      BY <1>4
    <2> QED
      BY <1>2, <1>3, <2>1, Zenon
  <1> HIDE DEF Bytes
  <1> QED
    BY <1>1, <1>3, <1>5, <1>6 DEF BufNext, States

LEMMA ValidateLrc2Buf ==
  ASSUME TypeOK, BufInv, NEW byte \in Bytes, ValidateLrc2(byte)
  PROVE  BufNext(byte)
  <1>1. frame' = <<>> /\ state = "VALIDATE_LRC2" /\ data_len \in Bytes
        /\ buf \in Seq(Bytes)
    BY DEF ValidateLrc2, TypeOK
  <1>2. Len(buf) = 4 /\ buf[1] = SOF /\ buf[2] = LRC1
    BY <1>1 DEF BufInv
  <1>3. CASE byte # lrc(buf) /\ byte = SOF
    BY <1>1, <1>3, StartsOver DEF ValidateLrc2
  <1>4. CASE byte # lrc(buf) /\ byte # SOF
    BY <1>1, <1>4, GivesUp DEF ValidateLrc2
  <1>5. CASE byte = lrc(buf)
    <2>1. /\ data_len' = buf[4] /\ buf' = Append(buf, byte)
          /\ state' = (IF TooLong(buf[4]) THEN "WAIT_SOF"
                       ELSE IF buf[4] = 0 THEN "VALIDATE_LRC3" ELSE "ACCUMULATE_DATA")
      BY <1>5 DEF ValidateLrc2, Become
    <2>2. /\ buf' \in Seq(Bytes) /\ Len(buf') = 5
          /\ buf'[1] = SOF /\ buf'[2] = LRC1 /\ buf'[3] = buf[3] /\ buf'[4] = buf[4]
          /\ buf'[5] = byte
      BY <1>2, <2>1, Appended
    <2>3. buf[3] \in Bytes /\ buf[4] \in Bytes /\ buf[4] \in Nat
      <3>1. buf[3] \in Bytes /\ buf[4] \in Bytes
        <4>1. 3 \in 1..Len(buf) /\ 4 \in 1..Len(buf)
          BY <1>2
        <4> QED
          BY <1>1, <4>1, ElementOfSeq
      <3> QED
        BY <3>1 DEF Bytes
    <2>4. buf = <<SOF, LRC1, buf[3], buf[4]>>
      <3> DEFINE p == <<SOF, LRC1, buf[3], buf[4]>>
      <3>1. /\ p \in Seq(Bytes) /\ Len(p) = 4
            /\ p[1] = SOF /\ p[2] = LRC1 /\ p[3] = buf[3] /\ p[4] = buf[4]
        <4> HIDE DEF Bytes
        <4> QED
          BY <2>3, Format
      <3> HIDE DEF p, Bytes
      <3>2. \A i \in 1..4 : p[i] = buf[i]
        BY <1>2, <3>1
      <3>3. p = buf
        BY <1>1, <1>2, <3>1, <3>2, SeqEqual
      <3> QED
        BY <3>3 DEF p
    <2>5. MAX_FRAME_SIZE - 1 >= 5 /\ MAX_DATA_LENGTH \in Nat
      BY Format
    <2>6. state' # "WAIT_SOF" => HasHeader'
      <3>1. lrc(<<SOF, LRC1, buf'[3], buf'[4]>>) = lrc(buf)
        BY <2>2, <2>4, Zenon
      <3>2. buf'[5] = lrc(<<SOF, LRC1, buf'[3], buf'[4]>>)
        BY <1>5, <2>2, <3>1, Zenon
      <3> HIDE DEF Bytes
      <3>3. state' # "WAIT_SOF" => data_len' <= MAX_DATA_LENGTH
        BY <2>1, <2>3, <2>5 DEF TooLong
      <3> QED
        BY <2>1, <2>2, <3>2, <3>3, Zenon DEF HasHeader
    <2>7. BufInv'
      <3> HIDE DEF Bytes
      <3> QED
        BY <2>1, <2>2, <2>3, <2>6 DEF BufInv
    <2> HIDE DEF Bytes
    <2> QED
      BY <1>1, <2>1, <2>2, <2>3, <2>5, <2>7 DEF BufNext, States
  <1> QED
    BY <1>3, <1>4, <1>5

LEMMA AccumulateDataBuf ==
  ASSUME TypeOK, BufInv, NEW byte \in Bytes, AccumulateData(byte)
  PROVE  BufNext(byte)
  <1>1. /\ frame' = <<>> /\ data_len' = data_len /\ state = "ACCUMULATE_DATA"
        /\ data_len \in Bytes
        /\ state' = (IF Len(buf) + 1 - 5 = data_len THEN "VALIDATE_LRC3" ELSE state)
        /\ buf' = Append(buf, byte)
    BY DEF AccumulateData, TypeOK, Become
  <1>2. Len(buf) >= 5 /\ Len(buf) < 5 + data_len /\ HasHeader
    BY <1>1 DEF BufInv
  <1>3. /\ buf' \in Seq(Bytes) /\ Len(buf') = Len(buf) + 1 /\ Len(buf) \in Nat
        /\ \A i \in 1..Len(buf) : buf'[i] = buf[i]
    BY <1>1, Appended
  <1>4. /\ data_len \in Nat /\ data_len <= MAX_DATA_LENGTH /\ MAX_DATA_LENGTH \in Nat
        /\ MAX_FRAME_SIZE = 6 + MAX_DATA_LENGTH
    BY <1>1, <1>2, Format DEF HasHeader, Bytes
  <1>5. HasHeader'
    <2>1. /\ buf'[1] = buf[1] /\ buf'[2] = buf[2] /\ buf'[3] = buf[3]
          /\ buf'[4] = buf[4] /\ buf'[5] = buf[5]
      BY <1>2, <1>3
    <2> QED
      BY <1>1, <1>2, <2>1, Zenon DEF HasHeader
  <1>6. BufInv'
    BY <1>1, <1>2, <1>3, <1>4, <1>5 DEF BufInv
  <1>7. Len(buf') <= MAX_FRAME_SIZE - 1
    BY <1>2, <1>3, <1>4
  <1> HIDE DEF Bytes
  <1> QED
    BY <1>1, <1>3, <1>6, <1>7 DEF BufNext, States

(* The data of a buffer that is full. *)
LEMMA BufferedData ==
  ASSUME TypeOK, BufInv, state = "VALIDATE_LRC3"
  PROVE  LET data == SubSeq(buf, 6, Len(buf)) IN
         /\ data \in Payloads /\ Len(data) = data_len
         /\ \A i \in 1..data_len : data[i] = buf[5 + i]
         /\ Len(buf) = 5 + data_len /\ data_len \in Nat
         /\ buf[3] \in Bytes
  <1> DEFINE data == SubSeq(buf, 6, Len(buf))
  <1>1. Len(buf) = 5 + data_len /\ HasHeader /\ buf \in Seq(Bytes)
    BY DEF BufInv, TypeOK
  <1>2. data_len \in Nat /\ data_len <= MAX_DATA_LENGTH
    BY <1>1 DEF HasHeader, TypeOK, Bytes
  <1> HIDE DEF Bytes
  <1>3. buf[3] \in Bytes /\ \A i \in 6..Len(buf) : buf[i] \in Bytes
    BY <1>1, <1>2
  <1>4. /\ data \in Seq(Bytes)
        /\ Len(data) = (IF 6 <= Len(buf) THEN Len(buf) - 6 + 1 ELSE 0)
        /\ \A i \in 1..(Len(buf) - 6 + 1) : data[i] = buf[6 + i - 1]
    <2>1. 6 \in Int /\ Len(buf) \in Int
      BY <1>1, <1>2
    <2> QED
      BY <1>3, <2>1, SubSeqProperties
  <1> HIDE DEF data
  <1>5. Len(data) = data_len
    BY <1>1, <1>2, <1>4
  <1>6. ASSUME NEW i \in 1..data_len PROVE data[i] = buf[5 + i]
    <2>1. i \in 1..(Len(buf) - 6 + 1) /\ 6 + i - 1 = 5 + i
      BY <1>1, <1>2
    <2> QED
      BY <1>4, <2>1
  <1>7. data \in Payloads
    BY <1>2, <1>4, <1>5, Payload
  <1> QED
    BY <1>1, <1>2, <1>3, <1>5, <1>6, <1>7 DEF data

LEMMA ValidateLrc3Buf ==
  ASSUME TypeOK, BufInv, NEW byte \in Bytes, ValidateLrc3(byte)
  PROVE  BufNext(byte)
  <1> DEFINE data == SubSeq(buf, 6, Len(buf))
             f == build_frame(buf[3], data)
             got == Append(buf, byte)
  <1>1. /\ state = "VALIDATE_LRC3" /\ state' = "WAIT_SOF" /\ buf' = buf
        /\ data_len' = data_len
        /\ frame' = IF Lrc3Fits(data, byte) THEN <<[cmd |-> buf[3], data |-> data]>> ELSE <<>>
    BY DEF ValidateLrc3, Become
  <1>2. /\ data \in Payloads /\ Len(data) = data_len
        /\ \A i \in 1..data_len : data[i] = buf[5 + i]
        /\ Len(buf) = 5 + data_len /\ data_len \in Nat
        /\ buf[3] \in Bytes
    BY <1>1, BufferedData
  <1> HIDE DEF data
  <1>3. /\ f \in Seq(Bytes) /\ Len(f) = 6 + Len(data)
        /\ f[1] = SOF /\ f[2] = LRC1 /\ f[3] = buf[3] /\ f[4] = Len(data)
        /\ f[5] = lrc(<<SOF, LRC1, buf[3], Len(data)>>)
        /\ \A i \in 1..Len(data) : f[5 + i] = data[i]
        /\ f[6 + Len(data)] = IF data # <<>> THEN lrc(data) ELSE 0
    BY <1>2, FrameBytes
  <1>4. HasHeader
    BY <1>1 DEF BufInv
  <1>5. /\ got \in Seq(Bytes) /\ Len(got) = Len(buf) + 1
        /\ got[Len(buf) + 1] = byte
        /\ \A i \in 1..Len(buf) : got[i] = buf[i]
    BY AppendProperties DEF TypeOK
  <1> HIDE DEF f, got
  <1>6. ASSUME Lrc3Fits(data, byte) PROVE f = got
    <2>1. f[6 + Len(data)] = byte
      BY <1>3, <1>6, Zenon DEF Lrc3Fits
    <2>2. /\ f[1] = buf[1] /\ f[2] = buf[2] /\ f[4] = buf[4]
      BY <1>2, <1>3, <1>4 DEF HasHeader
    <2>3. f[5] = buf[5]
      BY <1>2, <1>3, <1>4, Zenon DEF HasHeader
    <2>4. ASSUME NEW i \in 1..Len(f) PROVE f[i] = got[i]
      <3>1. i \in 1..5 \/ i - 5 \in 1..Len(data) \/ i = 6 + Len(data)
        BY <1>2, <1>3
      <3>2. CASE i \in 1..5
        <4>1. i \in 1..Len(buf)
          BY <1>2, <3>2
        <4>2. f[3] = buf[3]
          BY <1>3
        <4>3. i = 1 \/ i = 2 \/ i = 3 \/ i = 4 \/ i = 5
          BY <3>2
        <4>4. f[i] = buf[i]
          BY <2>2, <2>3, <4>2, <4>3, Zenon
        <4> QED
          BY <1>5, <4>1, <4>4
      <3>3. CASE i - 5 \in 1..Len(data)
        <4>1. i = 5 + (i - 5) /\ i \in 1..Len(buf)
          BY <1>2, <3>3
        <4>2. f[i] = data[i - 5]
          BY <1>3, <3>3, <4>1
        <4>3. data[i - 5] = buf[i]
          BY <1>2, <3>3, <4>1
        <4> QED
          BY <1>5, <4>1, <4>2, <4>3
      <3>4. CASE i = 6 + Len(data)
        BY <1>2, <1>5, <2>1, <3>4
      <3> QED
        BY <3>1, <3>2, <3>3, <3>4
    <2>5. Len(f) = Len(got)
      BY <1>2, <1>3, <1>5
    <2> QED
      BY <1>3, <1>5, <2>4, <2>5, SeqEqual
  <1>7. CASE Lrc3Fits(data, byte)
    <2> DEFINE r == [cmd |-> buf[3], data |-> data]
    <2>1. r \in Frames /\ r.cmd = buf[3] /\ r.data = data
      BY <1>2 DEF Frames
    <2>2. frame' = <<r>>
      BY <1>1, <1>7
    <2> HIDE DEF r
    <2>3. frame' \in Seq(Frames) /\ Len(frame') = 1 /\ frame'[1] = r
      BY <2>1, <2>2
    <2>4. build_frame(frame'[1].cmd, frame'[1].data) = got
      BY <1>6, <1>7, <2>1, <2>3, Zenon DEF f
    <2>5. BufInv'
      BY <1>1 DEF BufInv
    <2> QED
      BY <1>1, <2>3, <2>4, <2>5 DEF BufNext, TypeOK, States, got
  <1>8. CASE ~Lrc3Fits(data, byte)
    BY <1>1, <1>8, GivesUp DEF Become
  <1> QED
    BY <1>7, <1>8

LEMMA ProcessByteBuf ==
  ASSUME TypeOK, BufInv, NEW byte \in Bytes, ProcessByte(byte)
  PROVE  BufNext(byte)
  BY WaitSofBuf, WaitLrc1Buf, AccumulateHeaderBuf, ValidateLrc2Buf,
     AccumulateDataBuf, ValidateLrc3Buf DEF ProcessByte

(* What the byte after the first k of a frame does. *)
InFrameNext(f, cmd, data, k) ==
  IF k < 5 + Len(data)
  THEN /\ frame' = <<>> /\ state' = StateAfter(k + 1, Len(data))
       /\ Len(buf') = k + 1 /\ \A i \in 1..(k + 1) : buf'[i] = f[i]
  ELSE frame' = <<[cmd |-> cmd, data |-> data]>> /\ state' = "WAIT_SOF"

(* A byte of a frame that the receiver has met from its start: in every state
   the byte that is due is the byte it accepts. *)
LEMMA DueByte ==
  ASSUME TypeOK, BufInv,
         NEW cmd \in Bytes, NEW data \in Payloads, NEW k \in 0..(5 + Len(data)),
         NEW f, f = build_frame(cmd, data), InFrame(f, Len(data), k),
         NEW byte \in Bytes, byte = f[k + 1], ProcessByte(byte)
  PROVE  InFrameNext(f, cmd, data, k)
  <1> DEFINE n == Len(data)
             Grown == Len(buf') = k + 1 /\ \A i \in 1..(k + 1) : buf'[i] = f[i]
  <1>1. data \in Seq(Bytes) /\ n \in Nat /\ n <= MAX_DATA_LENGTH /\ MAX_DATA_LENGTH \in Nat
    BY Payload, Format
  <1>2. /\ f \in Seq(Bytes) /\ Len(f) = 6 + n
        /\ f[1] = SOF /\ f[2] = LRC1 /\ f[3] = cmd /\ f[4] = n
        /\ f[5] = lrc(<<SOF, LRC1, cmd, n>>)
        /\ \A i \in 1..n : f[5 + i] = data[i]
        /\ f[6 + n] = IF data # <<>> THEN lrc(data) ELSE 0
    BY FrameBytes
  <1>3. buf \in Seq(Bytes)
    BY DEF TypeOK
  <1>4. /\ k \in Nat /\ (k > 0 => Len(buf) = k /\ \A i \in 1..k : buf[i] = f[i])
        /\ state = StateAfter(k, n)
    BY <1>1 DEF InFrame
  <1> HIDE DEF n
  <1>5. ASSUME k > 0, buf' = Append(buf, byte) PROVE Grown
    <2>1. /\ Len(buf') = k + 1 /\ buf'[k + 1] = byte
          /\ \A i \in 1..k : buf'[i] = buf[i]
      BY <1>4, <1>5, Appended
    <2>2. ASSUME NEW i \in 1..(k + 1) PROVE buf'[i] = f[i]
      <3>1. CASE i = k + 1
        BY <2>1, <3>1
      <3>2. CASE i # k + 1
        <4>1. i \in 1..k
          BY <1>4, <3>2
        <4> QED
          BY <1>4, <1>5, <2>1, <4>1
      <3> QED
        BY <3>1, <3>2
    <2> QED
      BY <2>1, <2>2
  <1>6. CASE k = 0
    <2>1. state = "WAIT_SOF" /\ byte = SOF
      BY <1>2, <1>4, <1>6 DEF StateAfter
    <2>2. frame' = <<>> /\ state' = "WAIT_LRC1" /\ buf' = <<byte>>
      BY <2>1 DEF ProcessByte, WaitSof, WaitLrc1, AccumulateHeader, ValidateLrc2,
                  AccumulateData, ValidateLrc3, StartOver, Become
    <2>3. Grown
      BY <1>2, <1>6, <2>1, <2>2
    <2> QED
      BY <1>1, <1>6, <2>2, <2>3 DEF StateAfter, InFrameNext, n
  <1>7. CASE k = 1
    <2>1. state = "WAIT_LRC1" /\ byte = LRC1
      BY <1>2, <1>4, <1>7 DEF StateAfter
    <2>2. frame' = <<>> /\ state' = "ACCUMULATE_HEADER" /\ buf' = Append(buf, byte)
      BY <2>1 DEF ProcessByte, WaitSof, WaitLrc1, AccumulateHeader, ValidateLrc2,
                  AccumulateData, ValidateLrc3, Become
    <2> QED
      BY <1>1, <1>5, <1>7, <2>2 DEF StateAfter, InFrameNext, n
  <1>8. CASE k \in 2..3
    <2>1. state = "ACCUMULATE_HEADER" /\ Len(buf) = k
      BY <1>4, <1>8 DEF StateAfter
    <2>2. /\ frame' = <<>> /\ buf' = Append(buf, byte)
          /\ state' = (IF k + 1 = 4 THEN "VALIDATE_LRC2" ELSE "ACCUMULATE_HEADER")
      BY <2>1 DEF ProcessByte, WaitSof, WaitLrc1, AccumulateHeader, ValidateLrc2,
                  AccumulateData, ValidateLrc3, Become
    <2>3. Grown
      BY <1>5, <1>8, <2>2
    <2> QED
      BY <1>1, <1>8, <2>2, <2>3 DEF StateAfter, InFrameNext, n
  <1>9. CASE k = 4
    <2>1. state = "VALIDATE_LRC2" /\ Len(buf) = 4 /\ byte = f[5]
      BY <1>4, <1>9 DEF StateAfter
    <2>2. buf[1] = SOF /\ buf[2] = LRC1 /\ buf[3] = cmd /\ buf[4] = n
      BY <1>2, <1>4, <1>9
    <2>3. buf = <<SOF, LRC1, cmd, n>>
      <3> DEFINE p == <<SOF, LRC1, cmd, n>>
      <3>1. n \in Bytes
        BY <1>1, Format
      <3>2. /\ p \in Seq(Bytes) /\ Len(p) = 4
            /\ p[1] = SOF /\ p[2] = LRC1 /\ p[3] = cmd /\ p[4] = n
        BY <3>1, Format
      <3> HIDE DEF p
      <3>3. \A i \in 1..4 : p[i] = buf[i]
        BY <2>2, <3>2
      <3>4. p = buf
        BY <1>3, <2>1, <3>2, <3>3, SeqEqual
      <3> QED
        BY <3>4 DEF p
    <2>4. byte = lrc(buf)
      BY <1>2, <2>1, <2>3, Zenon
    <2>5. ValidateLrc2(byte)
      BY <2>1 DEF ProcessByte, WaitSof, WaitLrc1, AccumulateHeader,
                  AccumulateData, ValidateLrc3
    <2>6. /\ frame' = <<>> /\ buf' = Append(buf, byte)
          /\ state' = (IF TooLong(n) THEN "WAIT_SOF"
                       ELSE IF n = 0 THEN "VALIDATE_LRC3" ELSE "ACCUMULATE_DATA")
      BY <2>2, <2>4, <2>5, Zenon DEF ValidateLrc2, Become
    <2>7. ~TooLong(n)
      BY <1>1 DEF TooLong
    <2>8. Grown
      BY <1>5, <1>9, <2>6
    <2> QED
      BY <1>1, <1>9, <2>6, <2>7, <2>8 DEF StateAfter, InFrameNext, n
  <1>10. CASE k >= 5 /\ k < 5 + n
    <2>1. state = "ACCUMULATE_DATA" /\ Len(buf) = k
      BY <1>4, <1>10 DEF StateAfter, n
    <2>2. data_len = n
      BY <1>2, <1>4, <1>10, <2>1 DEF BufInv, HasHeader
    <2>3. /\ frame' = <<>> /\ buf' = Append(buf, byte)
          /\ state' = (IF k + 1 - 5 = n THEN "VALIDATE_LRC3" ELSE "ACCUMULATE_DATA")
      BY <2>1, <2>2 DEF ProcessByte, WaitSof, WaitLrc1, AccumulateHeader, ValidateLrc2,
                        AccumulateData, ValidateLrc3, Become
    <2>4. Grown
      BY <1>4, <1>5, <1>10, <2>3
    <2> QED
      BY <1>1, <1>4, <1>10, <2>3, <2>4 DEF StateAfter, InFrameNext, n
  <1>11. CASE k = 5 + n
    <2> DEFINE got == SubSeq(buf, 6, Len(buf))
    <2>1. state = "VALIDATE_LRC3" /\ Len(buf) = k
      BY <1>1, <1>4, <1>11 DEF StateAfter, n
    <2>2. /\ got \in Payloads /\ Len(got) = data_len
          /\ \A i \in 1..data_len : got[i] = buf[5 + i]
          /\ Len(buf) = 5 + data_len /\ data_len \in Nat
      BY <2>1, BufferedData
    <2>3. /\ state' = "WAIT_SOF"
          /\ frame' = IF Lrc3Fits(got, byte) THEN <<[cmd |-> buf[3], data |-> got]>> ELSE <<>>
      BY <2>1 DEF ProcessByte, WaitSof, WaitLrc1, AccumulateHeader, ValidateLrc2,
                  AccumulateData, ValidateLrc3, Become
    <2> HIDE DEF got
    <2>4. data_len = n
      BY <1>1, <1>11, <2>1, <2>2
    <2>5. ASSUME NEW i \in 1..n PROVE got[i] = data[i]
      <3>1. 5 + i \in 1..k
        BY <1>1, <1>11
      <3>2. got[i] = buf[5 + i]
        BY <2>2, <2>4
      <3>3. buf[5 + i] = f[5 + i]
        BY <1>4, <1>11, <1>1, <3>1
      <3>4. f[5 + i] = data[i]
        BY <1>2
      <3> QED
        BY <3>2, <3>3, <3>4
    <2>6. got = data
      <3>1. got \in Seq(Bytes) /\ Len(got) = Len(data)
        BY <2>2, <2>4, Payload DEF n
      <3> QED
        BY <1>1, <2>5, <3>1, SeqEqual DEF n
    <2>7. buf[3] = cmd
      BY <1>1, <1>2, <1>4, <1>11
    <2>8. byte = IF data # <<>> THEN lrc(data) ELSE 0
      <3>1. k + 1 = 6 + n
        BY <1>1, <1>11
      <3> QED
        BY <1>2, <3>1, Zenon
    <2>9. Lrc3Fits(got, byte)
      BY <2>6, <2>8, Zenon DEF Lrc3Fits
    <2>10. frame' = <<[cmd |-> cmd, data |-> data]>>
      BY <2>3, <2>6, <2>7, <2>9, Zenon
    <2>11. ~(k < 5 + Len(data))
      BY <1>1, <1>11 DEF n
    <2> QED
      BY <2>3, <2>10, <2>11, Zenon DEF InFrameNext
  <1>12. k = 0 \/ k = 1 \/ k \in 2..3 \/ k = 4 \/ (k >= 5 /\ k < 5 + n) \/ k = 5 + n
    BY <1>1 DEF n
  <1> QED
    BY <1>6, <1>7, <1>8, <1>9, <1>10, <1>11, <1>12

-----------------------------------------------------------------------------
(* The invariant. *)

LEMMA AssemblerInit == Init => AssemblerInv
  <1> SUFFICES ASSUME Init PROVE AssemblerInv
    OBVIOUS
  <1>1. TypeOK
    BY MaxSentAssumption, Format, EmptySeq DEF Init, TypeOK, States
  <1> QED
    BY <1>1 DEF Init, AssemblerInv, BufInv, PartialFrameIsHeard,
                DeliveredFramesWereHeard, WholeInv, CompleteFrameIsDelivered

(* The byte at the head of the wire, and what is left. *)
LEMMA NextByte ==
  ASSUME TypeOK, FeedByte
  PROVE  /\ Head(wire) \in Bytes /\ Len(wire) \in Nat /\ Len(wire) > 0
         /\ Head(wire) = wire[1]
         /\ wire' \in Seq(Bytes) /\ Len(wire') = Len(wire) - 1
         /\ \A i \in 1..Len(wire') : wire'[i] = wire[i + 1]
  <1>1. wire \in Seq(Bytes) /\ wire # <<>> /\ wire' = Tail(wire)
    BY DEF TypeOK, FeedByte
  <1>2. Len(wire) \in Nat /\ Len(wire) > 0
    BY <1>1, EmptySeq
  <1>3. Head(wire) = wire[1]
    BY <1>1
  <1> QED
    BY <1>1, <1>2, <1>3, HeadTailProperties

(* What the frame under way is. *)
LEMMA WholeIsFrame ==
  ASSUME TypeOK, whole # <<>>
  PROVE  /\ whole[1].cmd \in Bytes /\ whole[1].data \in Payloads
         /\ Len(whole[1].data) \in Nat
         /\ whole = <<[cmd |-> whole[1].cmd, data |-> whole[1].data]>>
         /\ WholeFrame \in Seq(Bytes) /\ Len(WholeFrame) = 6 + Len(whole[1].data)
  <1>1. whole \in Seq(Frames) /\ Len(whole) = 1
    <2>1. whole \in Seq(Frames) /\ Len(whole) <= 1
      BY DEF TypeOK
    <2>2. Len(whole) \in Nat \ {0}
      BY <2>1, EmptySeq
    <2>3. \A l \in Nat \ {0} : l <= 1 => l = 1
      OBVIOUS
    <2> QED
      BY <2>1, <2>2, <2>3, Zenon
  <1>2. whole = <<whole[1]>> /\ whole[1] \in Frames
    BY <1>1
  <1>3. /\ whole[1].cmd \in Bytes /\ whole[1].data \in Payloads
        /\ whole[1] = [cmd |-> whole[1].cmd, data |-> whole[1].data]
    BY <1>2 DEF Frames
  <1>4. Len(whole[1].data) \in Nat
    BY <1>3, Payload
  <1>5. WholeFrame \in Seq(Bytes) /\ Len(WholeFrame) = 6 + Len(whole[1].data)
    BY <1>3, FrameBytes DEF WholeFrame
  <1> QED
    BY <1>2, <1>3, <1>4, <1>5, Zenon

(* A byte of a whole frame. *)
LEMMA WholeStep ==
  ASSUME TypeOK, BufInv, WholeInv, FeedByte, whole # <<>>
  PROVE  WholeInv' /\ CompleteFrameIsDelivered'
  <1> DEFINE cmd == whole[1].cmd
             data == whole[1].data
             n == Len(data)
             k == Taken
             f == WholeFrame
             byte == Head(wire)
  <1>1. /\ cmd \in Bytes /\ data \in Payloads /\ n \in Nat
        /\ whole = <<[cmd |-> cmd, data |-> data]>>
        /\ f \in Seq(Bytes) /\ Len(f) = 6 + n /\ f = build_frame(cmd, data)
    BY WholeIsFrame DEF WholeFrame
  <1>2. /\ byte \in Bytes /\ Len(wire) \in Nat /\ Len(wire) > 0 /\ byte = wire[1]
        /\ wire' \in Seq(Bytes) /\ Len(wire') = Len(wire) - 1
        /\ \A i \in 1..Len(wire') : wire'[i] = wire[i + 1]
    BY NextByte
  <1>3. /\ k \in Nat /\ k = Len(f) - Len(wire)
        /\ \A i \in 1..Len(wire) : wire[i] = f[k + i]
        /\ InFrame(f, n, k)
    BY DEF WholeInv, FeedByte, Taken
  <1>4. ProcessByte(byte) /\ whole' = whole
    BY DEF FeedByte
  <1>5. WholeFrame' = WholeFrame /\ Taken' = Len(WholeFrame) - Len(wire')
    BY <1>4 DEF WholeFrame, Taken
  <1> HIDE DEF cmd, data, n, k, f, byte
  <1>6. k \in 0..(5 + n) /\ byte = f[k + 1]
    BY <1>1, <1>2, <1>3
  <1>7. IF k < 5 + n
        THEN /\ frame' = <<>> /\ state' = StateAfter(k + 1, n)
             /\ Len(buf') = k + 1 /\ \A i \in 1..(k + 1) : buf'[i] = f[i]
        ELSE frame' = <<[cmd |-> cmd, data |-> data]>> /\ state' = "WAIT_SOF"
    <2>1. n = Len(data)
      BY DEF n
    <2>2. InFrame(f, Len(data), k) /\ k \in 0..(5 + Len(data))
      BY <1>3, <1>6, <2>1
    <2>3. InFrameNext(f, cmd, data, k)
      BY <1>1, <1>2, <1>4, <1>6, <2>2, DueByte, Zenon
    <2> QED
      BY <2>1, <2>3, Zenon DEF InFrameNext
  <1>8. Taken' = k + 1
    BY <1>1, <1>2, <1>3, <1>5 DEF f
  <1>9. CASE k < 5 + n
    <2>1. wire' # <<>>
      <3>1. Len(wire') # 0
        BY <1>1, <1>2, <1>3, <1>9
      <3> QED
        BY <3>1, EmptySeq
    <2>2. \A i \in 1..Len(wire') : wire'[i] = f[(k + 1) + i]
      <3> SUFFICES ASSUME NEW i \in 1..Len(wire') PROVE wire'[i] = f[(k + 1) + i]
        OBVIOUS
      <3>1. i + 1 \in 1..Len(wire) /\ k + (i + 1) = (k + 1) + i
        BY <1>2, <1>3
      <3> QED
        BY <1>2, <1>3, <3>1
    <2>3. /\ frame' = <<>> /\ state' = StateAfter(k + 1, n)
          /\ Len(buf') = k + 1 /\ \A i \in 1..(k + 1) : buf'[i] = f[i]
      BY <1>7, <1>9, Zenon
    <2>4. k + 1 \in Nat
      BY <1>3
    <2>5. WholeInv'
      <3>1. Len(whole'[1].data) = n
        BY <1>4 DEF n, data
      <3>2. WholeFrame' = f
        BY <1>5 DEF f
      <3> QED
        BY <1>8, <2>2, <2>3, <2>4, <3>1, <3>2, Zenon DEF WholeInv, InFrame
    <2> QED
      BY <2>1, <2>3, <2>5 DEF CompleteFrameIsDelivered
  <1>10. CASE ~(k < 5 + n)
    <2>1. wire' = <<>>
      <3>1. Len(wire') = 0
        BY <1>1, <1>2, <1>3, <1>6, <1>10
      <3> QED
        BY <1>2, <3>1, EmptySeq
    <2>2. frame' = whole' /\ state' = "WAIT_SOF"
      BY <1>1, <1>4, <1>7, <1>10, Zenon
    <2> QED
      BY <2>1, <2>2 DEF WholeInv, CompleteFrameIsDelivered
  <1> QED
    BY <1>9, <1>10

(* Nothing is the suffix of whatever was heard. *)
LEMMA SuffixStarts ==
  ASSUME NEW h \in Seq(Bytes), NEW byte \in Bytes
  PROVE  Kept(h, byte) \in Seq(Bytes) /\ IsSuffix(<<byte>>, Kept(h, byte))
  <1>1. <<>> \in Seq(Bytes) /\ Len(<<>>) = 0 /\ Len(h) \in Nat
    BY EmptySeq
  <1>2. IsSuffix(<<>>, h)
    <2> DEFINE none == <<>>
    <2>1. none \in Seq(Bytes) /\ Len(none) = 0
      BY <1>1
    <2> HIDE DEF none
    <2>2. Len(none) <= Len(h) /\ \A i \in 1..Len(none) : FALSE
      BY <1>1, <2>1
    <2>3. IsSuffix(none, h)
      BY <2>1, <2>2, Suffix, Zenon
    <2> QED
      BY <2>3 DEF none
  <1>3. Len(<<>>) < MAX_FRAME_SIZE
    BY <1>1, Format
  <1>4. Append(<<>>, byte) = <<byte>>
    OBVIOUS
  <1> QED
    BY <1>1, <1>2, <1>3, <1>4, SuffixGrows

LEMMA FeedByteStep ==
  ASSUME AssemblerInv, FeedByte
  PROVE  AssemblerInv'
  <1> DEFINE byte == Head(wire)
  <1>1. TypeOK /\ BufInv /\ WholeInv /\ PartialFrameIsHeard
    BY DEF AssemblerInv
  <1>2. byte \in Bytes /\ wire' \in Seq(Bytes)
    BY <1>1, NextByte
  <1>3. /\ ProcessByte(byte) /\ heard' = Kept(heard, byte)
        /\ sent' = sent /\ whole' = whole
    BY DEF FeedByte, Kept
  <1> HIDE DEF byte
  <1>4. BufNext(byte)
    BY <1>1, <1>2, <1>3, ProcessByteBuf
  <1>5. /\ heard \in Seq(Bytes) /\ buf \in Seq(Bytes) /\ Len(buf) < MAX_FRAME_SIZE
    <2>1. Len(buf) \in Nat /\ MAX_FRAME_SIZE \in Nat /\ Len(buf) <= MAX_FRAME_SIZE - 1
      BY <1>1, Format DEF TypeOK
    <2> QED
      BY <1>1, <2>1 DEF TypeOK
  <1>6. heard' \in Seq(Bytes) /\ IsSuffix(<<byte>>, heard')
    BY <1>2, <1>3, <1>5, SuffixStarts
  <1>7. state # "WAIT_SOF" => IsSuffix(Append(buf, byte), heard')
    <2> SUFFICES ASSUME state # "WAIT_SOF" PROVE IsSuffix(Append(buf, byte), heard')
      OBVIOUS
    <2>1. IsSuffix(buf, heard)
      BY <1>1 DEF PartialFrameIsHeard
    <2> QED
      BY <1>2, <1>3, <1>5, <2>1, SuffixGrows
  <1>8. TypeOK'
    BY <1>1, <1>2, <1>3, <1>4, <1>6 DEF TypeOK, BufNext
  <1>9. PartialFrameIsHeard'
    BY <1>4, <1>6, <1>7, Zenon DEF PartialFrameIsHeard, BufNext
  <1>10. DeliveredFramesWereHeard'
    BY <1>4, <1>7, Zenon DEF DeliveredFramesWereHeard, BufNext
  <1>11. WholeInv' /\ CompleteFrameIsDelivered'
    <2>1. CASE whole # <<>>
      BY <1>1, <2>1, WholeStep
    <2>2. CASE whole = <<>>
      BY <1>3, <2>2 DEF WholeInv, CompleteFrameIsDelivered
    <2> QED
      BY <2>1, <2>2
  <1> QED
    BY <1>4, <1>8, <1>9, <1>10, <1>11 DEF AssemblerInv, BufNext

LEMMA ResetStep ==
  ASSUME AssemblerInv, Reset
  PROVE  AssemblerInv'
  <1>1. TypeOK'
    BY Format, EmptySeq DEF AssemblerInv, TypeOK, States, Reset
  <1> QED
    BY <1>1 DEF Reset, AssemblerInv, BufInv, PartialFrameIsHeard,
                DeliveredFramesWereHeard, WholeInv, CompleteFrameIsDelivered

(* A step of the sender, which leaves the receiver alone. *)
LEMMA SenderStep ==
  ASSUME AssemblerInv, UNCHANGED <<assembler, heard>>, frame' = <<>>,
         wire' \in Seq(Bytes), sent < MaxSent, sent' = sent + 1,
         whole' \in Seq(Frames), Len(whole') <= 1,
         whole' # <<>> => wire' # <<>> /\ WholeInv'
  PROVE  AssemblerInv'
  <1>1. state' = state /\ buf' = buf /\ data_len' = data_len /\ heard' = heard
    BY DEF assembler
  <1>2. sent' \in 0..MaxSent
    BY MaxSentAssumption DEF AssemblerInv, TypeOK
  <1>3. TypeOK'
    BY <1>1, <1>2, EmptySeq DEF AssemblerInv, TypeOK
  <1>4. BufInv' /\ PartialFrameIsHeard'
    BY <1>1 DEF AssemblerInv, BufInv, HasHeader, PartialFrameIsHeard
  <1>5. DeliveredFramesWereHeard' /\ CompleteFrameIsDelivered'
    BY DEF DeliveredFramesWereHeard, CompleteFrameIsDelivered
  <1>6. WholeInv'
    BY DEF WholeInv
  <1> QED
    BY <1>3, <1>4, <1>5, <1>6 DEF AssemblerInv

LEMMA SendFrameStep ==
  ASSUME AssemblerInv, NEW cmd \in Bytes, NEW data \in Payloads, SendFrame(cmd, data)
  PROVE  AssemblerInv'
  <1> DEFINE f == build_frame(cmd, data)
             r == [cmd |-> cmd, data |-> data]
  <1>1. f \in Seq(Bytes) /\ Len(f) = 6 + Len(data) /\ Len(data) \in Nat
    <2>1. Len(data) \in Nat
      BY Payload
    <2> QED
      BY <2>1, FrameBytes
  <1>2. f # <<>>
    BY <1>1, EmptySeq
  <1>3. r \in Frames /\ r.cmd = cmd /\ r.data = data
    BY DEF Frames
  <1>4. wire' = f /\ whole' = IF state = "WAIT_SOF" THEN <<r>> ELSE <<>>
    BY DEF SendFrame
  <1>5. UNCHANGED <<assembler, heard>> /\ frame' = <<>> /\ sent < MaxSent /\ sent' = sent + 1
    BY DEF SendFrame
  <1> HIDE DEF f, r
  <1>6. /\ <<r>> \in Seq(Frames) /\ Len(<<r>>) = 1 /\ <<r>>[1] = r
        /\ <<>> \in Seq(Frames) /\ Len(<<>>) = 0
    BY <1>3
  <1>7. whole' \in Seq(Frames) /\ Len(whole') <= 1
    BY <1>4, <1>6
  <1>8. ASSUME whole' # <<>> PROVE WholeInv'
    <2>1. state = "WAIT_SOF" /\ whole' = <<r>>
      BY <1>4, <1>8
    <2>2. WholeFrame' = f
      BY <1>3, <1>6, <2>1, Zenon DEF WholeFrame, f
    <2>3. Taken' = 0
      BY <1>1, <1>4, <2>2 DEF Taken
    <2>4. \A i \in 1..Len(wire') : wire'[i] = f[0 + i]
      BY <1>1, <1>4
    <2>5. state' = StateAfter(0, Len(whole'[1].data)) /\ ~(0 > 0)
      BY <1>5, <2>1 DEF assembler, StateAfter
    <2>6. 0 \in Nat
      OBVIOUS
    <2> QED
      BY <2>2, <2>3, <2>4, <2>5, <2>6, Zenon DEF WholeInv, InFrame
  <1> QED
    BY <1>1, <1>2, <1>4, <1>5, <1>7, <1>8, SenderStep

LEMMA SendPartStep ==
  ASSUME AssemblerInv, NEW cmd \in Bytes, NEW data \in Payloads,
         NEW n \in 1..(Len(data) + 5), SendPart(cmd, data, n)
  PROVE  AssemblerInv'
  <1> DEFINE f == build_frame(cmd, data)
  <1>1. f \in Seq(Bytes) /\ Len(f) = 6 + Len(data) /\ Len(data) \in Nat
    <2>1. Len(data) \in Nat
      BY Payload
    <2> QED
      BY <2>1, FrameBytes
  <1>2. /\ wire' = SubSeq(f, 1, n) /\ whole' = <<>> /\ UNCHANGED <<assembler, heard>>
        /\ frame' = <<>> /\ sent < MaxSent /\ sent' = sent + 1
    BY DEF SendPart
  <1> HIDE DEF f
  <1>3. \A i \in 1..n : f[i] \in Bytes
    BY <1>1
  <1>4. wire' \in Seq(Bytes)
    BY <1>1, <1>2, <1>3, SubSeqProperties
  <1>5. whole' \in Seq(Frames) /\ Len(whole') <= 1
    BY <1>2, EmptySeq
  <1> QED
    BY <1>2, <1>4, <1>5, SenderStep

LEMMA SendStrayStep ==
  ASSUME AssemblerInv, NEW byte \in Bytes, SendStray(byte)
  PROVE  AssemblerInv'
  <1>1. /\ wire' = <<byte>> /\ whole' = <<>> /\ UNCHANGED <<assembler, heard>>
        /\ frame' = <<>> /\ sent < MaxSent /\ sent' = sent + 1
    BY DEF SendStray
  <1>2. wire' \in Seq(Bytes)
    BY <1>1
  <1>3. whole' \in Seq(Frames) /\ Len(whole') <= 1
    BY <1>1, EmptySeq
  <1> QED
    BY <1>1, <1>2, <1>3, SenderStep

LEMMA AssemblerStep ==
  ASSUME AssemblerInv, [Next]_vars
  PROVE  AssemblerInv'
  <1>1. CASE FeedByte
    BY <1>1, FeedByteStep
  <1>2. CASE Reset
    BY <1>2, ResetStep
  <1>3. ASSUME NEW cmd \in Bytes, NEW data \in Payloads, SendFrame(cmd, data)
        PROVE  AssemblerInv'
    BY <1>3, SendFrameStep
  <1>4. ASSUME NEW cmd \in Bytes, NEW data \in Payloads,
               NEW n \in 1..(Len(data) + 5), SendPart(cmd, data, n)
        PROVE  AssemblerInv'
    BY <1>4, SendPartStep
  <1>5. ASSUME NEW byte \in Bytes, SendStray(byte) PROVE AssemblerInv'
    BY <1>5, SendStrayStep
  <1>6. CASE UNCHANGED vars
    BY <1>6 DEF vars, assembler, AssemblerInv, TypeOK, BufInv, HasHeader,
                PartialFrameIsHeard, DeliveredFramesWereHeard, WholeInv, InFrame,
                WholeFrame, Taken, CompleteFrameIsDelivered
  <1> QED
    BY <1>1, <1>2, <1>3, <1>4, <1>5, <1>6, Zenon DEF Next

(* What buf holds in every state of the receiver, and where in a frame that
   met a waiting receiver it stands, is an invariant. *)
THEOREM AssemblerInvariance == Spec => []AssemblerInv
  BY AssemblerInit, AssemblerStep, PTL DEF Spec

(* The receiver of _process_byte always is in one of its states, with a buffer
   one byte shorter than the longest frame at most. *)
THEOREM Typing == Spec => []TypeOK
  <1>1. AssemblerInv => TypeOK
    BY DEF AssemblerInv
  <1> QED
    BY <1>1, AssemblerInvariance, PTL

(* The bytes of a partial frame are the last ones _process_byte was given:
   none of them is skipped on the way to a frame. *)
THEOREM NothingIsSkipped == Spec => []PartialFrameIsHeard
  <1>1. AssemblerInv => PartialFrameIsHeard
    BY DEF AssemblerInv
  <1> QED
    BY <1>1, AssemblerInvariance, PTL

(* A frame that _process_byte returns is encoded by the bytes it was given
   last, whatever frames, cut frames and stray bytes came before. *)
THEOREM NothingIsInvented == Spec => []DeliveredFramesWereHeard
  <1>1. AssemblerInv => DeliveredFramesWereHeard
    BY DEF AssemblerInv
  <1> QED
    BY <1>1, AssemblerInvariance, PTL

(* Every frame of build_frame that meets a waiting receiver is returned with
   its last byte and not before, for every number of byte values, every SOF
   and every maximal length. *)
THEOREM FramesGetThrough == Spec => []CompleteFrameIsDelivered
  <1>1. AssemblerInv => CompleteFrameIsDelivered
    BY DEF AssemblerInv
  <1> QED
    BY <1>1, AssemblerInvariance, PTL
=============================================================================
