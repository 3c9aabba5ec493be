--------------------------- MODULE DumpFileProofs ---------------------------
(***************************************************************************)
(* Theorems about the chunks of a dump and what is read from a dump file,  *)
(* for files and dumps of any size and any block and chunk size.           *)
(***************************************************************************)
EXTENDS DumpFile, SequenceTheorems, FiniteSetTheorems, WellFoundedInduction,
        TLAPS

(* Division with remainder. *)
LEMMA DivFacts ==
  ASSUME NEW n \in Nat, NEW d \in Nat \ {0}
  PROVE  /\ n \div d \in Nat
         /\ (n \div d) * d <= n
         /\ n < (n \div d) * d + d
  OBVIOUS

(* A multiple divides without remainder. *)
LEMMA DivExact ==
  ASSUME NEW q \in Nat, NEW d \in Nat \ {0}
  PROVE  (q * d) \div d = q /\ (q * d) % d = 0
  OBVIOUS

(* Multiplication is monotonic and distributes. *)
LEMMA MulMono ==
  ASSUME NEW a \in Nat, NEW b \in Nat, NEW c \in Nat
  PROVE  /\ a * c \in Nat
         /\ a <= b => a * c <= b * c
         /\ c > 0 /\ a < b => a * c < b * c
         /\ c > 0 /\ a * c < b * c => a < b
         /\ (a + b) * c = a * c + b * c
  OBVIOUS

(* What the number of chunks is. *)
LEMMA ChunkCount ==
  ASSUME NEW total \in Nat
  PROVE  /\ NumberOfChunks(total) \in Nat
         /\ NumberOfChunks(total) * chunk_size >= total
         /\ NumberOfChunks(total) > 0 => (NumberOfChunks(total) - 1) * chunk_size < total
  <1>1. chunk_size \in Nat \ {0} /\ total + chunk_size - 1 \in Nat
    BY SizesAssumption
  <1> DEFINE n == (total + chunk_size - 1) \div chunk_size
  <1>2. /\ n \in Nat
        /\ n * chunk_size <= total + chunk_size - 1
        /\ total + chunk_size - 1 < n * chunk_size + chunk_size
    BY <1>1, DivFacts
  <1> HIDE DEF n
  <1>3. n > 0 => (n - 1) * chunk_size = n * chunk_size - chunk_size
    BY <1>1, <1>2
  <1>4. n * chunk_size \in Nat
    BY <1>1, <1>2
  <1> QED BY <1>1, <1>2, <1>3, <1>4 DEF n, NumberOfChunks

(* Chunk i is not empty, lies within the dump and has chunk_size blocks at the
   most, as write_emu_block_data wants it. *)
THEOREM ChunksFit ==
  ASSUME NEW total \in Nat, NEW i \in 1..NumberOfChunks(total)
  PROVE  /\ ChunkStart(i) \in Nat /\ ChunkEnd(i, total) \in Nat
         /\ ChunkStart(i) < ChunkEnd(i, total)
         /\ ChunkEnd(i, total) <= total
         /\ ChunkEnd(i, total) - ChunkStart(i) <= chunk_size
  <1> DEFINE n == NumberOfChunks(total)
             start == (i - 1) * chunk_size
  <1>1. n \in Nat /\ n > 0 /\ (n - 1) * chunk_size < total
    BY ChunkCount
  <1> HIDE DEF n
  <1>2. i - 1 \in Nat /\ i - 1 <= n - 1 /\ n - 1 \in Nat
    BY <1>1 DEF n
  <1>3. start \in Nat /\ start <= (n - 1) * chunk_size /\ (n - 1) * chunk_size \in Nat
    BY <1>2, MulMono, SizesAssumption
  <1>4. i * chunk_size = start + chunk_size
    BY <1>2, SizesAssumption
  <1> HIDE DEF start
  <1> QED BY <1>1, <1>3, <1>4, SizesAssumption DEF ChunkStart, ChunkEnd, start

(* No block of a dump is left out: the chunk that block b is in. *)
THEOREM ChunksCover ==
  ASSUME NEW total \in Nat, NEW b \in 0..(total - 1)
  PROVE  \E i \in 1..NumberOfChunks(total) :
           ChunkStart(i) <= b /\ b < ChunkEnd(i, total)
  <1> DEFINE q == b \div chunk_size
             n == NumberOfChunks(total)
  <1>1. q \in Nat /\ q * chunk_size <= b /\ b < q * chunk_size + chunk_size
    BY DivFacts, SizesAssumption
  <1>2. n \in Nat /\ n * chunk_size >= total
    BY ChunkCount
  <1> HIDE DEF q, n
  <1>3. q * chunk_size \in Nat /\ n * chunk_size \in Nat
    BY <1>1, <1>2, MulMono, SizesAssumption
  <1>4. q < n
    <2>1. q * chunk_size < n * chunk_size
      BY <1>1, <1>2, <1>3
    <2> QED BY <2>1, <1>1, <1>2, MulMono, SizesAssumption
  <1>5. q + 1 \in 1..n /\ (q + 1) - 1 = q
    BY <1>1, <1>2, <1>4
  <1>6. (q + 1) * chunk_size = q * chunk_size + chunk_size
    BY <1>1, SizesAssumption
  <1>7. ChunkStart(q + 1) <= b
    BY <1>1, <1>5 DEF ChunkStart
  <1>8. b < ChunkEnd(q + 1, total)
    BY <1>1, <1>3, <1>6, SizesAssumption DEF ChunkEnd
  <1> QED BY <1>5, <1>7, <1>8 DEF n

(* Nor is one written twice: a later chunk starts where an earlier one has ended. *)
THEOREM ChunksInOrder ==
  ASSUME NEW total \in Nat, NEW i \in 1..NumberOfChunks(total),
         NEW j \in 1..NumberOfChunks(total), i < j
  PROVE  ChunkEnd(i, total) <= ChunkStart(j)
  <1>1. NumberOfChunks(total) \in Nat
    BY ChunkCount
  <1>2. i \in Nat /\ j - 1 \in Nat /\ i <= j - 1
    BY <1>1
  <1>3. i * chunk_size <= (j - 1) * chunk_size
        /\ i * chunk_size \in Nat /\ (j - 1) * chunk_size \in Nat
    BY <1>2, MulMono, SizesAssumption
  <1> QED BY <1>3 DEF ChunkEnd, ChunkStart

(* A range of blocks that lies within a dump comes out as whole blocks. *)
THEOREM SlicesAreWhole ==
  ASSUME NEW S, NEW dump \in Seq(S), NEW start \in Nat, NEW end \in Nat,
         start <= end, end <= BlocksOf(dump)
  PROVE  /\ Slice(dump, start, end) \in Seq(S)
         /\ Len(Slice(dump, start, end)) = (end - start) * BLOCK
         /\ Len(Slice(dump, start, end)) % BLOCK = 0
         /\ BlocksOf(Slice(dump, start, end)) = end - start
         /\ \A k \in 1..((end - start) * BLOCK) :
              Slice(dump, start, end)[k] = dump[start * BLOCK + k]
  <1> DEFINE a == start * BLOCK
             z == end * BLOCK
             w == (end - start) * BLOCK
             s == SubSeq(dump, a + 1, z)
  <1>1. BLOCK \in Nat \ {0} /\ Len(dump) \in Nat
    BY SizesAssumption
  <1>2. BlocksOf(dump) \in Nat /\ BlocksOf(dump) * BLOCK <= Len(dump)
    BY <1>1, DivFacts DEF BlocksOf
  <1>3. BlocksOf(dump) * BLOCK \in Nat /\ z <= BlocksOf(dump) * BLOCK
    BY <1>1, <1>2, MulMono
  <1>4. a \in Nat /\ z \in Nat /\ w \in Nat /\ z = a + w
    <2>1. end - start \in Nat /\ start + (end - start) = end
      OBVIOUS
    <2> QED BY <2>1, <1>1, MulMono
  <1> HIDE DEF a, z, w
  <1>5. z <= Len(dump)
    BY <1>1, <1>2, <1>3, <1>4
  <1>6. s \in Seq(S) /\ Len(s) = w /\ \A k \in 1..w : s[k] = dump[a + k]
    BY <1>1, <1>4, <1>5
  <1> HIDE DEF s
  <1>7. Slice(dump, start, end) = s
    BY DEF Slice, s, a, z
  <1>8. w \div BLOCK = end - start /\ w % BLOCK = 0
    <2>1. end - start \in Nat
      OBVIOUS
    <2> QED BY <2>1, <1>1, DivExact DEF w
  <1> QED BY <1>6, <1>7, <1>8 DEF BlocksOf, a, w

(* A chunk has the blocks of its range. *)
LEMMA ChunkHolds ==
  ASSUME NEW S, NEW dump \in Seq(S), NEW i \in 1..NumberOfChunks(BlocksOf(dump)),
         NEW b \in Nat, ChunkStart(i) <= b, b < ChunkEnd(i, BlocksOf(dump))
  PROVE  LET end == ChunkEnd(i, BlocksOf(dump))
             chunk == Slice(dump, ChunkStart(i), end)
         IN  /\ ChunkStart(i) + BlocksOf(chunk) = end
             /\ b \in ChunkStart(i)..(ChunkStart(i) + BlocksOf(chunk) - 1)
             /\ Slice(chunk, b - ChunkStart(i), b - ChunkStart(i) + 1)
                  = Slice(dump, b, b + 1)
  <1> DEFINE total == BlocksOf(dump)
  <1>1. total \in Nat /\ BLOCK \in Nat \ {0}
    BY DivFacts, SizesAssumption DEF BlocksOf
  <1>2. ChunkStart(i) <= b /\ b < ChunkEnd(i, total)
    OBVIOUS
  <1> HIDE DEF total
  <1> DEFINE start == ChunkStart(i)
             end == ChunkEnd(i, total)
             chunk == Slice(dump, start, end)
             here == b - start
  <1>3. /\ start \in Nat /\ end \in Nat /\ start <= end /\ end <= total
        /\ b \in Nat /\ here \in Nat /\ here + 1 <= end - start
        /\ b + 1 <= total /\ b = start + here
    BY <1>1, <1>2, ChunksFit DEF total
  <1> HIDE DEF start, end, here
  <1>4. /\ chunk \in Seq(S) /\ BlocksOf(chunk) = end - start
        /\ \A k \in 1..((end - start) * BLOCK) : chunk[k] = dump[start * BLOCK + k]
    BY <1>3, SlicesAreWhole DEF total
  <1> HIDE DEF chunk
  <1>5. start + BlocksOf(chunk) = end /\ b \in start..(start + BlocksOf(chunk) - 1)
    BY <1>3, <1>4
  <1> DEFINE one == Slice(chunk, here, here + 1)
             block == Slice(dump, b, b + 1)
  <1>6. (here + 1) - here = 1 /\ (b + 1) - b = 1 /\ 1 * BLOCK = BLOCK
    BY <1>1, <1>3
  <1>7. /\ one \in Seq(S) /\ Len(one) = BLOCK
        /\ \A k \in 1..BLOCK : one[k] = chunk[here * BLOCK + k]
    <2>1. here + 1 \in Nat /\ here <= here + 1 /\ here + 1 <= BlocksOf(chunk)
      BY <1>3, <1>4
    <2>2. /\ one \in Seq(S) /\ Len(one) = ((here + 1) - here) * BLOCK
          /\ \A k \in 1..(((here + 1) - here) * BLOCK) : one[k] = chunk[here * BLOCK + k]
      BY <2>1, <1>3, <1>4, SlicesAreWhole
    <2> QED BY <2>2, <1>6
  <1>8. /\ block \in Seq(S) /\ Len(block) = BLOCK
        /\ \A k \in 1..BLOCK : block[k] = dump[b * BLOCK + k]
    <2>1. b + 1 \in Nat /\ b <= b + 1 /\ b + 1 <= BlocksOf(dump)
      BY <1>3 DEF total
    <2>2. /\ block \in Seq(S) /\ Len(block) = ((b + 1) - b) * BLOCK
          /\ \A k \in 1..(((b + 1) - b) * BLOCK) : block[k] = dump[b * BLOCK + k]
      BY <2>1, <1>3, SlicesAreWhole
    <2> QED BY <2>2, <1>6
  <1> HIDE DEF one, block
  <1>9. ASSUME NEW k \in 1..BLOCK PROVE one[k] = block[k]
    <2>1. /\ here * BLOCK \in Nat /\ start * BLOCK \in Nat
          /\ b * BLOCK = start * BLOCK + here * BLOCK
      BY <1>1, <1>3, MulMono
    <2>2. here * BLOCK + BLOCK <= (end - start) * BLOCK
      <3>1. (here + 1) * BLOCK = here * BLOCK + 1 * BLOCK
        BY <1>1, <1>3, MulMono
      <3>2. here + 1 \in Nat /\ end - start \in Nat
        BY <1>3
      <3>3. (here + 1) * BLOCK <= (end - start) * BLOCK
        BY <1>1, <1>3, <3>2, MulMono
      <3> QED BY <3>1, <3>3, <1>6
    <2>3. (end - start) * BLOCK \in Nat
      BY <1>1, <1>3, MulMono
    <2>4. here * BLOCK + k \in 1..((end - start) * BLOCK)
      BY <1>1, <2>1, <2>2, <2>3
    <2>5. chunk[here * BLOCK + k] = dump[start * BLOCK + (here * BLOCK + k)]
      BY <1>4, <2>4
    <2>6. start * BLOCK + (here * BLOCK + k) = b * BLOCK + k
      BY <1>1, <2>1
    <2> QED BY <1>7, <1>8, <2>5, <2>6
  <1>10. one = block
    <2>1. one = [k \in 1..Len(one) |-> one[k]] /\ block = [k \in 1..Len(block) |-> block[k]]
      BY <1>7, <1>8
    <2> QED BY <1>7, <1>8, <1>9, <2>1
  <1> QED BY <1>5, <1>10 DEF start, end, chunk, here, one, block, total

(* The chunks of a dump put together are the dump: every whole block of it is in
   a chunk, at the place handle_load_dump gives the device for it. *)
THEOREM ChunksHoldTheDump ==
  ASSUME NEW S, NEW dump \in Seq(S), NEW b \in 0..(BlocksOf(dump) - 1)
  PROVE  LET total == BlocksOf(dump)
             Chunk(i) == Slice(dump, ChunkStart(i), ChunkEnd(i, total))
         IN  \E i \in 1..NumberOfChunks(total) :
               /\ b \in ChunkStart(i)..(ChunkStart(i) + BlocksOf(Chunk(i)) - 1)
               /\ Slice(Chunk(i), b - ChunkStart(i), b - ChunkStart(i) + 1)
                    = Slice(dump, b, b + 1)
  <1> DEFINE total == BlocksOf(dump)
  <1>1. total \in Nat
    BY DivFacts, SizesAssumption DEF BlocksOf
  <1>2. PICK i \in 1..NumberOfChunks(total) :
           ChunkStart(i) <= b /\ b < ChunkEnd(i, total)
    BY <1>1, ChunksCover
  <1> QED BY <1>2, ChunkHolds

-----------------------------------------------------------------------------
(* Recursion. *)

(* Induction up to a bound: a set that holds 0 and, with each number below n,
   the next one, holds every number up to n. *)
LEMMA CountsUp ==
  ASSUME NEW n \in Nat, NEW T, 0 \in T,
         \A i \in 0..(n - 1) : i \in T => i + 1 \in T
  PROVE  \A i \in 0..n : i \in T
  <1> DEFINE Below(i) == 1..i
             U == {Below(i) : i \in (0..n) \ T}
  <1> SUFFICES ASSUME NEW k \in 0..n, k \notin T PROVE FALSE
    OBVIOUS
  <1>1. IsWellFoundedOn(StrictSubsetOrdering(1..n), FiniteSubsetsOf(1..n))
    BY FS_StrictSubsetOrderingWellFounded
  <1>2. U \subseteq FiniteSubsetsOf(1..n) /\ U # {}
    <2>1. ASSUME NEW j \in 0..n PROVE Below(j) \in FiniteSubsetsOf(1..n)
      <3>1. Below(j) \subseteq 1..n /\ IsFiniteSet(Below(j))
        BY FS_Interval
      <3> QED
        BY <3>1 DEF FiniteSubsetsOf
    <2> QED
      BY <2>1
  <1>3. PICK u \in U : \A v \in U : ~(<<v, u>> \in StrictSubsetOrdering(1..n))
    BY <1>1, <1>2, WFMin
  <1>4. PICK j \in (0..n) \ T : u = Below(j)
    BY <1>3
  <1>5. j # 0 /\ j - 1 \in 0..(n - 1) /\ j - 1 \notin T
    BY <1>4
  <1>6. /\ Below(j - 1) \subseteq Below(j) /\ Below(j) \subseteq 1..n
        /\ j \in Below(j) /\ j \notin Below(j - 1)
    BY <1>5
  <1>7. <<Below(j - 1), Below(j)>> \in StrictSubsetOrdering(1..n)
    BY <1>6 DEF StrictSubsetOrdering
  <1>8. Below(j - 1) \in U
    BY <1>5
  <1> QED
    BY <1>3, <1>4, <1>7, <1>8

(* The first m steps of a function that is defined by recursion on its argument. *)
Recurs(f, m, first, step) ==
  \A i \in 0..m : f[i] = IF i = 0 THEN first ELSE step[<<f[i - 1], i>>]

(* There is such a function. *)
LEMMA Recursion ==
  ASSUME NEW n \in Nat, NEW V, NEW first \in V, NEW step \in [V \X (1..n) -> V]
  PROVE  \E f \in [0..n -> V] : Recurs(f, n, first, step)
  <1> USE DEF Recurs
  <1> DEFINE Steps(f, m) == Recurs(f, m, first, step)
             T == {m \in 0..n : \E f \in [0..m -> V] : Steps(f, m)}
  <1>1. 0 \in T
    <2>1. [i \in 0..0 |-> first] \in [0..0 -> V]
      OBVIOUS
    <2>2. Steps([i \in 0..0 |-> first], 0)
      OBVIOUS
    <2>3. 0 \in 0..n
      OBVIOUS
    <2> QED
      BY <2>1, <2>2, <2>3, Zenon
  <1>2. ASSUME NEW m \in 0..(n - 1), m \in T PROVE m + 1 \in T
    <2>1. PICK f \in [0..m -> V] : Steps(f, m)
      BY <1>2
    <2> DEFINE last == step[<<f[m], m + 1>>]
               g == [i \in 0..(m + 1) |-> IF i = m + 1 THEN last ELSE f[i]]
    <2>2. last \in V
      BY <2>1
    <2> HIDE DEF last
    <2>3. g \in [0..(m + 1) -> V]
      BY <2>1, <2>2
    <2>4. Steps(g, m + 1)
      <3>1. m \in Nat /\ m + 1 # 0 /\ m + 1 \in 0..(m + 1) /\ m \in 0..m
        OBVIOUS
      <3>2. \A i \in 0..m : g[i] = f[i]
        OBVIOUS
      <3>3. \A i \in 0..(m + 1) : i \in 0..m \/ i = m + 1
        OBVIOUS
      <3>4. g[m + 1] = step[<<g[m], m + 1>>]
        BY <3>1, <3>2 DEF last
      <3>5. \A i \in 0..m : i # 0 => i - 1 \in 0..m
        OBVIOUS
      <3> HIDE DEF g
      <3>6. \A i \in 0..m : g[i] = IF i = 0 THEN first ELSE step[<<g[i - 1], i>>]
        BY <2>1, <3>2, <3>5
      <3>7. (m + 1) - 1 = m
        OBVIOUS
      <3> QED
        BY <3>1, <3>3, <3>4, <3>6, <3>7
    <2>5. m + 1 \in 0..n
      OBVIOUS
    <2> HIDE DEF g
    <2>6. \E h \in [0..(m + 1) -> V] : Steps(h, m + 1)
      BY <2>3, <2>4
    <2> QED
      BY <2>5, <2>6
  <1>3. n \in T
    <2> HIDE DEF T
    <2>1. \A i \in 0..n : i \in T
      BY <1>1, <1>2, CountsUp, Zenon
    <2> QED
      BY <2>1
  <1> QED
    BY <1>3

-----------------------------------------------------------------------------
(* Parsing. *)

(* Lines that have one block at most. *)
Lines(S) == [num : Nat, data : {bytes \in Seq(S) : Len(bytes) <= BLOCK}]

(* One line for each number. *)
Distinct(read) == \A j, k \in 1..Len(read) : read[j].num = read[k].num => j = k

(* What the dictionary holds after the first n lines: of the lines with a
   number, the last one. *)
Dictionary(lines, n, read) ==
  /\ Distinct(read)
  /\ \A j \in 1..Len(read) :
       \E l \in 1..n : /\ read[j] = lines[l]
                       /\ \A m \in (l + 1)..n : lines[m].num # lines[l].num
  /\ \A l \in 1..n : \E j \in 1..Len(read) : read[j].num = lines[l].num

(* A line more. *)
LEMMA InsertKeeps ==
  ASSUME NEW S, NEW lines \in Seq(Lines(S)), NEW n \in 0..(Len(lines) - 1),
         NEW read \in Seq(Lines(S)), Dictionary(lines, n, read)
  PROVE  /\ Insert(read, lines[n + 1]) \in Seq(Lines(S))
         /\ Dictionary(lines, n + 1, Insert(read, lines[n + 1]))
  <1> DEFINE line == lines[n + 1]
             I == {i \in 1..Len(read) : read[i].num = line.num}
             at == SelectInSeq(read, LAMBDA b : b.num = line.num)
             new == Insert(read, line)
  <1>1. Len(lines) \in Nat /\ Len(read) \in Nat /\ n \in Nat /\ n + 1 \in 1..Len(lines)
    OBVIOUS
  <1>2. line \in Lines(S)
    BY <1>1, ElementOfSeq
  <1>3. at = IF I # {} THEN Min(I) ELSE 0
    BY Zenon DEF SelectInSeq
  <1>4. new = IF at = 0 THEN Append(read, line) ELSE [read EXCEPT ![at] = line]
    BY Zenon DEF Insert
  <1> HIDE DEF new, at, line
  <1>5. CASE I = {}
    <2>1. new = Append(read, line)
      BY <1>3, <1>4, <1>5
    <2>2. /\ new \in Seq(Lines(S)) /\ Len(new) = Len(read) + 1 /\ new[Len(read) + 1] = line
          /\ \A j \in 1..Len(read) : new[j] = read[j]
      BY <1>2, <2>1, AppendProperties
    <2>3. \A j \in 1..Len(read) : read[j].num # line.num
      BY <1>5
    <2>4. \A j \in 1..Len(new) : j \in 1..Len(read) \/ j = Len(read) + 1
      BY <1>1, <2>2
    <2>5. \A j, k \in 1..Len(new) : new[j].num = new[k].num => j = k
      <3>1. \A j, k \in 1..Len(read) : new[j].num = new[k].num => j = k
        BY <2>2 DEF Dictionary, Distinct
      <3>2. \A j \in 1..Len(read) : new[j].num # new[Len(read) + 1].num
        BY <2>2, <2>3
      <3> QED
        BY <2>4, <3>1, <3>2
    <2>6. ASSUME NEW j \in 1..Len(new)
          PROVE  \E l \in 1..(n + 1) : /\ new[j] = lines[l]
                                       /\ \A m \in (l + 1)..(n + 1) : lines[m].num # lines[l].num
      <3>1. CASE j = Len(read) + 1
        <4>1. new[j] = lines[n + 1] /\ n + 1 \in 1..(n + 1) /\ (n + 1 + 1)..(n + 1) = {}
          BY <1>1, <2>2, <3>1 DEF line
        <4> QED
          BY <4>1
      <3>2. CASE j \in 1..Len(read)
        <4>1. PICK l \in 1..n : /\ read[j] = lines[l]
                                /\ \A m \in (l + 1)..n : lines[m].num # lines[l].num
          BY <3>2 DEF Dictionary, Distinct
        <4>2. lines[n + 1].num # lines[l].num
          BY <2>3, <3>2, <4>1 DEF line
        <4>3. \A m \in (l + 1)..(n + 1) : m \in (l + 1)..n \/ m = n + 1
          BY <1>1
        <4> QED
          BY <1>1, <2>2, <3>2, <4>1, <4>2, <4>3
      <3> QED
        BY <2>4, <3>1, <3>2
    <2>7. ASSUME NEW l \in 1..(n + 1)
          PROVE  \E j \in 1..Len(new) : new[j].num = lines[l].num
      <3>1. CASE l = n + 1
        BY <1>1, <2>2, <3>1 DEF line
      <3>2. CASE l \in 1..n
        <4>1. PICK j \in 1..Len(read) : read[j].num = lines[l].num
          BY <3>2 DEF Dictionary, Distinct
        <4>2. j \in 1..Len(new)
          BY <1>1, <2>2
        <4> QED
          BY <2>2, <4>1, <4>2
      <3> QED
        BY <1>1, <3>1, <3>2
    <2> QED
      BY <2>2, <2>5, <2>6, <2>7 DEF Dictionary, Distinct, new, line
  <1>6. CASE I # {}
    <2>1. PICK i \in 1..Len(read) : read[i].num = line.num
      BY <1>6
    <2>2. I = {i}
      BY <2>1 DEF Dictionary, Distinct
    <2>3. at = i
      <3>1. Min({i}) = i
        BY DEF Min
      <3> QED
        BY <1>3, <1>6, <2>2, <3>1
    <2>4. new = [read EXCEPT ![i] = line]
      BY <1>1, <1>4, <2>3
    <2>5. /\ new \in Seq(Lines(S)) /\ Len(new) = Len(read)
          /\ \A j \in 1..Len(read) : new[j] = IF j = i THEN line ELSE read[j]
      BY <1>2, <2>4, ExceptSeq
    <2>6. \A j \in 1..Len(read) : new[j].num = read[j].num
      BY <2>1, <2>5
    <2>7. \A j, k \in 1..Len(new) : new[j].num = new[k].num => j = k
      BY <2>5, <2>6 DEF Dictionary, Distinct
    <2>8. ASSUME NEW j \in 1..Len(new)
          PROVE  \E l \in 1..(n + 1) : /\ new[j] = lines[l]
                                       /\ \A m \in (l + 1)..(n + 1) : lines[m].num # lines[l].num
      <3>1. CASE j = i
        <4>1. new[j] = lines[n + 1] /\ n + 1 \in 1..(n + 1) /\ (n + 1 + 1)..(n + 1) = {}
          BY <1>1, <2>5, <3>1 DEF line
        <4> QED
          BY <4>1
      <3>2. CASE j # i
        <4>1. PICK l \in 1..n : /\ read[j] = lines[l]
                                /\ \A m \in (l + 1)..n : lines[m].num # lines[l].num
          BY <2>5 DEF Dictionary, Distinct
        <4>2. read[j].num # line.num
          BY <2>1, <2>5, <3>2 DEF Dictionary, Distinct
        <4>3. lines[n + 1].num # lines[l].num
          BY <4>1, <4>2 DEF line
        <4>4. \A m \in (l + 1)..(n + 1) : m \in (l + 1)..n \/ m = n + 1
          BY <1>1
        <4> QED
          BY <1>1, <2>5, <3>2, <4>1, <4>3, <4>4
      <3> QED
        BY <3>1, <3>2
    <2>9. ASSUME NEW l \in 1..(n + 1)
          PROVE  \E j \in 1..Len(new) : new[j].num = lines[l].num
      <3>1. CASE l = n + 1
        BY <1>1, <2>5, <3>1 DEF line
      <3>2. CASE l \in 1..n
        BY <2>5, <2>6, <3>2 DEF Dictionary, Distinct
      <3> QED
        BY <1>1, <3>1, <3>2
    <2> QED
      BY <2>5, <2>7, <2>8, <2>9 DEF Dictionary, Distinct, new, line
  <1> QED
    BY <1>5, <1>6

(* What Insert makes of a dictionary is one. *)
LEMMA InsertType ==
  ASSUME NEW S, NEW read \in Seq(Lines(S)), Distinct(read), NEW line \in Lines(S)
  PROVE  Insert(read, line) \in Seq(Lines(S)) /\ Distinct(Insert(read, line))
  <1> DEFINE lines == Append(read, line)
             n == Len(read)
  <1>1. /\ n \in 0..(Len(lines) - 1) /\ lines \in Seq(Lines(S)) /\ lines[n + 1] = line
        /\ \A i \in 1..n : lines[i] = read[i]
    BY AppendProperties
  <1> HIDE DEF lines
  <1>2. Dictionary(lines, n, read)
    <2>1. ASSUME NEW j \in 1..n
          PROVE  \E l \in 1..n : /\ read[j] = lines[l]
                                 /\ \A m \in (l + 1)..n : lines[m].num # lines[l].num
      <3>1. ASSUME NEW m \in (j + 1)..n PROVE lines[m].num # lines[j].num
        <4>1. m \in 1..n /\ m # j
          OBVIOUS
        <4> QED
          BY <1>1, <4>1 DEF Distinct
      <3> QED
        BY <1>1, <3>1
    <2>2. \A l \in 1..n : \E j \in 1..n : read[j].num = lines[l].num
      BY <1>1
    <2> QED
      BY <2>1, <2>2 DEF Dictionary
  <1>3. Insert(read, lines[n + 1]) \in Seq(Lines(S)) /\ Dictionary(lines, n + 1, Insert(read, lines[n + 1]))
    BY <1>1, <1>2, InsertKeeps
  <1> QED
    BY <1>1, <1>3 DEF Dictionary

(* The dictionary that _parse_flipper_nfc reads. *)
Read(lines) ==
  LET blocks[i \in 0..Len(lines)] ==
        IF i = 0 THEN <<>> ELSE Insert(blocks[i - 1], lines[i])
  IN  blocks[Len(lines)]

(* It holds what the lines say last. *)
LEMMA ReadIsDictionary ==
  ASSUME NEW S, NEW lines \in Seq(Lines(S))
  PROVE  Read(lines) \in Seq(Lines(S)) /\ Dictionary(lines, Len(lines), Read(lines))
  <1> DEFINE n == Len(lines)
             V == {read \in Seq(Lines(S)) : Distinct(read)}
             step == [p \in V \X (1..n) |-> Insert(p[1], lines[p[2]])]
             Equation(f) == f = [i \in 0..n |->
               IF i = 0 THEN <<>> ELSE Insert(f[i - 1], lines[i])]
             blocks == CHOOSE f : Equation(f)
             T == {i \in 0..n : /\ blocks[i] \in Seq(Lines(S))
                                /\ Dictionary(lines, i, blocks[i])}
  <1>1. n \in Nat /\ \A i \in 1..n : lines[i] \in Lines(S)
    BY ElementOfSeq
  <1>2. <<>> \in V
    BY DEF Distinct
  <1>3. step \in [V \X (1..n) -> V]
    <2>1. ASSUME NEW p \in V \X (1..n) PROVE Insert(p[1], lines[p[2]]) \in V
      BY <1>1, InsertType
    <2> QED
      BY <2>1
  <1>4. \E f : Equation(f)
    <2> HIDE DEF n, V, step
    <2> DEFINE first == <<>>
    <2>4. n \in Nat /\ first \in V
      BY <1>1, <1>2
    <2> HIDE DEF first
    <2>5. \E f \in [0..n -> V] : Recurs(f, n, first, step)
      BY <2>4, <1>3, Recursion, Zenon
    <2>1. PICK f \in [0..n -> V] :
             \A i \in 0..n : f[i] = IF i = 0 THEN <<>> ELSE step[<<f[i - 1], i>>]
      BY <2>5, Zenon DEF first, Recurs
    <2>2. ASSUME NEW i \in 0..n, i # 0 PROVE step[<<f[i - 1], i>>] = Insert(f[i - 1], lines[i])
      <3>1. i - 1 \in 0..n /\ i \in 1..n
        BY <1>1, <2>2
      <3>2. <<f[i - 1], i>> \in V \X (1..n)
        BY <2>1, <3>1
      <3> QED
        BY <3>2 DEF step
    <2>3. f = [i \in 0..n |-> IF i = 0 THEN <<>> ELSE Insert(f[i - 1], lines[i])]
      BY <2>1, <2>2
    <2> QED
      BY <2>3 DEF n
  <1>5. Equation(blocks)
    <2> HIDE DEF Equation
    <2> QED
      BY <1>4
  <1>6. \A i \in 0..n : blocks[i] = IF i = 0 THEN <<>> ELSE Insert(blocks[i - 1], lines[i])
    <2> HIDE DEF blocks
    <2> QED
      BY <1>5
  <1>7. Read(lines) = blocks[n]
    BY DEF Read
  <1> HIDE DEF blocks
  <1>8. 0 \in T
    <2>1. 0 \in 0..n /\ blocks[0] = <<>>
      BY <1>1, <1>6
    <2>2. <<>> \in Seq(Lines(S)) /\ Dictionary(lines, 0, <<>>)
      BY DEF Dictionary, Distinct
    <2> QED
      BY <2>1, <2>2
  <1>9. ASSUME NEW i \in 0..(n - 1), i \in T PROVE i + 1 \in T
    <2>1. blocks[i + 1] = Insert(blocks[i], lines[i + 1])
      <3>1. i + 1 \in 0..n /\ i + 1 # 0 /\ (i + 1) - 1 = i
        BY <1>1
      <3> QED
        BY <1>6, <3>1
    <2>2. /\ Insert(blocks[i], lines[i + 1]) \in Seq(Lines(S))
          /\ Dictionary(lines, i + 1, Insert(blocks[i], lines[i + 1]))
      BY <1>1, <1>9, InsertKeeps
    <2> QED
      BY <1>1, <2>1, <2>2
  <1>10. n \in T
    <2> HIDE DEF T, n
    <2>1. \A i \in 0..n : i \in T
      BY <1>1, <1>8, <1>9, CountsUp, Zenon
    <2> QED
      BY <1>1, <2>1
  <1> QED
    BY <1>7, <1>10

-----------------------------------------------------------------------------
(* The dump that is made of the dictionary. *)

(* Images of so many blocks, and what is at a place of one. *)
Images(S, total) == {r \in Seq(S) : Len(r) = total * BLOCK}
At(b, k) == b * BLOCK + k

(* A place of a block lies within an image, before those of later blocks. *)
LEMMA Places ==
  ASSUME NEW total \in Nat, NEW b \in 0..(total - 1), NEW k \in 1..BLOCK
  PROVE  /\ At(b, k) \in 1..(total * BLOCK) /\ b * BLOCK \in Nat
         /\ b * BLOCK + BLOCK <= total * BLOCK
         /\ \A c \in 0..(b - 1) : c * BLOCK \in Nat /\ c * BLOCK + BLOCK < At(b, k)
         /\ \A c \in (b + 1)..(total - 1) : c * BLOCK \in Nat /\ At(b, k) <= c * BLOCK
  <1>1. BLOCK \in Nat \ {0} /\ 1 * BLOCK = BLOCK
    BY SizesAssumption
  <1>2. ASSUME NEW c \in Nat, NEW d \in Nat, c < d
        PROVE  /\ c * BLOCK \in Nat /\ d * BLOCK \in Nat
               /\ c * BLOCK + BLOCK <= d * BLOCK
    <2>1. c + 1 \in Nat /\ c + 1 <= d
      BY <1>2
    <2>2. (c + 1) * BLOCK = c * BLOCK + 1 * BLOCK
      BY <1>1, MulMono
    <2>3. (c + 1) * BLOCK <= d * BLOCK /\ c * BLOCK \in Nat /\ d * BLOCK \in Nat
      BY <1>1, <2>1, MulMono
    <2> QED
      BY <1>1, <2>2, <2>3
  <1>3. b \in Nat /\ b < total
    OBVIOUS
  <1>4. /\ b * BLOCK \in Nat /\ total * BLOCK \in Nat
        /\ b * BLOCK + BLOCK <= total * BLOCK
    BY <1>2, <1>3
  <1>5. ASSUME NEW c \in 0..(b - 1)
        PROVE  c * BLOCK \in Nat /\ c * BLOCK + BLOCK < At(b, k)
    <2>1. c \in Nat /\ c < b
      BY <1>3
    <2>2. c * BLOCK \in Nat /\ c * BLOCK + BLOCK <= b * BLOCK
      BY <1>2, <1>3, <2>1
    <2> QED
      BY <1>1, <1>4, <2>2 DEF At
  <1>6. ASSUME NEW c \in (b + 1)..(total - 1)
        PROVE  c * BLOCK \in Nat /\ At(b, k) <= c * BLOCK
    <2>1. c \in Nat /\ b < c
      BY <1>3
    <2>2. c * BLOCK \in Nat /\ b * BLOCK + BLOCK <= c * BLOCK
      BY <1>2, <1>3, <2>1
    <2> QED
      BY <1>1, <1>4, <2>2 DEF At
  <1> QED
    BY <1>1, <1>4, <1>5, <1>6 DEF At

(* What a concatenation holds. *)
LEMMA Joined ==
  ASSUME NEW S, NEW a \in Seq(S), NEW z \in Seq(S)
  PROVE  /\ a \o z \in Seq(S) /\ Len(a \o z) = Len(a) + Len(z)
         /\ \A i \in 1..Len(a) : (a \o z)[i] = a[i]
         /\ \A i \in 1..Len(z) : (a \o z)[Len(a) + i] = z[i]
  <1>1. /\ a \o z \in Seq(S) /\ Len(a \o z) = Len(a) + Len(z)
        /\ \A i \in 1..(Len(a) + Len(z)) :
             (a \o z)[i] = IF i <= Len(a) THEN a[i] ELSE z[i - Len(a)]
    BY ConcatProperties
  <1>2. ASSUME NEW i \in 1..Len(z) PROVE (a \o z)[Len(a) + i] = z[i]
    <2>1. /\ Len(a) + i \in 1..(Len(a) + Len(z)) /\ ~(Len(a) + i <= Len(a))
          /\ Len(a) + i - Len(a) = i
      OBVIOUS
    <2> QED
      BY <1>1, <2>1
  <1>3. ASSUME NEW i \in 1..Len(a) PROVE (a \o z)[i] = a[i]
    <2>1. i \in 1..(Len(a) + Len(z)) /\ i <= Len(a)
      OBVIOUS
    <2> QED
      BY <1>1, <2>1
  <1> QED
    BY <1>1, <1>2, <1>3

(* A line's data take the first places of its block, and nothing else changes. *)
LEMMA AssignBlock ==
  ASSUME NEW S, NEW total \in Nat, NEW r \in Images(S, total),
         NEW line \in Lines(S), line.num < total
  PROVE  /\ Assign(r, line) \in Images(S, total)
         /\ \A b \in 0..(total - 1), k \in 1..BLOCK :
              Assign(r, line)[At(b, k)] =
                IF b = line.num /\ k \in 1..Len(line.data) THEN line.data[k]
                                                          ELSE r[At(b, k)]
  <1> DEFINE start == line.num * BLOCK
             size == Len(line.data)
             all == total * BLOCK
             before == SubSeq(r, 1, start)
             after == SubSeq(r, start + size + 1, all)
             new == Assign(r, line)
  <1>1. /\ BLOCK \in Nat \ {0} /\ line.num \in 0..(total - 1)
        /\ r \in Seq(S) /\ Len(r) = all
    BY SizesAssumption DEF Lines, Images
  <1>2. line.data \in Seq(S) /\ size \in Nat /\ size <= BLOCK
    BY DEF Lines
  <1>3. 1 \in 1..BLOCK
    BY <1>1
  <1>4. start \in Nat /\ all \in Nat /\ start + BLOCK <= all /\ start + size <= all
    <2>1. start \in Nat /\ start + BLOCK <= all
      BY <1>1, <1>3, Places
    <2>2. all \in Nat
      BY <1>1, MulMono
    <2> QED
      BY <1>1, <1>2, <2>1, <2>2
  <1>5. new = before \o line.data \o after
    BY <1>1, <1>2 DEF Assign
  <1> HIDE DEF start, size, all, new
  <1>6. /\ before \in Seq(S) /\ Len(before) = start
        /\ \A i \in 1..start : before[i] = r[i]
    BY <1>1, <1>4
  <1>7. /\ after \in Seq(S) /\ Len(after) = all - (start + size)
        /\ \A i \in 1..(all - (start + size)) : after[i] = r[start + size + i]
    BY <1>1, <1>2, <1>4, SMTT(60)
  <1> HIDE DEF before, after
  <1> DEFINE front == before \o line.data
  <1>8. /\ front \in Seq(S) /\ Len(front) = start + size
        /\ \A i \in 1..start : front[i] = r[i]
        /\ \A i \in 1..size : front[start + i] = line.data[i]
    <2>1. line.data \in Seq(S) /\ before \in Seq(S)
      BY <1>2, <1>6
    <2>2. /\ front \in Seq(S) /\ Len(front) = Len(before) + Len(line.data)
          /\ \A i \in 1..Len(before) : front[i] = before[i]
          /\ \A i \in 1..Len(line.data) : front[Len(before) + i] = line.data[i]
      BY <2>1, Joined
    <2> HIDE DEF front
    <2> QED
      BY <1>2, <1>6, <2>2 DEF size
  <1> HIDE DEF front
  <1>9. /\ new \in Seq(S) /\ Len(new) = all
        /\ \A i \in 1..(start + size) : new[i] = front[i]
        /\ \A i \in 1..(all - (start + size)) : new[start + size + i] = r[start + size + i]
    <2>1. new = front \o after
      BY <1>5 DEF front
    <2>2. /\ front \o after \in Seq(S) /\ Len(front \o after) = Len(front) + Len(after)
          /\ \A i \in 1..Len(front) : (front \o after)[i] = front[i]
          /\ \A i \in 1..Len(after) : (front \o after)[Len(front) + i] = after[i]
      <3>1. front \in Seq(S) /\ after \in Seq(S)
        BY <1>7, <1>8
      <3> QED
        BY <3>1, Joined
    <2>3. /\ new \in Seq(S) /\ Len(new) = Len(front) + Len(after)
          /\ \A i \in 1..Len(front) : new[i] = front[i]
          /\ \A i \in 1..Len(after) : new[Len(front) + i] = after[i]
      BY <2>1, <2>2
    <2>4. Len(front) + Len(after) = all
      BY <1>1, <1>2, <1>4, <1>7, <1>8
    <2> QED
      BY <1>7, <1>8, <2>3, <2>4
  <1>10. ASSUME NEW b \in 0..(total - 1), NEW k \in 1..BLOCK
         PROVE  new[At(b, k)] = IF b = line.num /\ k \in 1..size THEN line.data[k]
                                                                ELSE r[At(b, k)]
    <2>1. At(b, k) \in 1..all
      BY Places DEF all
    <2>2. CASE b = line.num
      <3>1. At(b, k) = start + k
        BY <2>2 DEF At, start
      <3>2. CASE k \in 1..size
        <4>1. start + k \in 1..(start + size)
          BY <1>2, <1>4, <3>2
        <4> QED
          BY <1>8, <1>9, <2>2, <3>1, <3>2, <4>1
      <3>3. CASE k \notin 1..size
        <4> DEFINE i == k - size
        <4>1. i \in 1..(all - (start + size)) /\ start + k = start + size + i
          BY <1>1, <1>2, <1>4, <3>3
        <4> HIDE DEF i
        <4> QED
          BY <1>9, <3>1, <3>3, <4>1
      <3> QED
        BY <3>2, <3>3
    <2>3. CASE b < line.num
      <3>1. line.num \in (b + 1)..(total - 1)
        BY <1>1, <2>3
      <3>2. At(b, k) <= start
        BY <3>1, Places DEF start
      <3>3. At(b, k) \in 1..start /\ At(b, k) \in 1..(start + size) /\ b # line.num
        BY <1>1, <1>2, <1>4, <2>1, <2>3, <3>2
      <3> QED
        BY <1>8, <1>9, <3>3
    <2>4. CASE b > line.num
      <3>1. line.num \in 0..(b - 1)
        BY <1>1, <2>4
      <3>2. start + BLOCK < At(b, k)
        BY <3>1, Places DEF start
      <3> DEFINE i == At(b, k) - (start + size)
      <3>3. i \in 1..(all - (start + size)) /\ At(b, k) = start + size + i
        BY <1>1, <1>2, <1>4, <2>1, <3>2
      <3>4. b # line.num
        BY <1>1, <2>4
      <3> HIDE DEF i
      <3> QED
        BY <1>9, <3>3, <3>4
    <2> QED
      BY <1>1, <2>2, <2>3, <2>4
  <1> QED
    BY <1>9, <1>10 DEF new, all, size, Images

(* What _parse_flipper_nfc makes of its dictionary. *)
Filled(read, total) ==
  LET result[i \in 0..Len(read)] ==
        IF i = 0 THEN [b \in 1..(total * BLOCK) |-> Zero]
                 ELSE Assign(result[i - 1], read[i])
  IN  result[Len(read)]

(* An image that shows the first i lines, and zeros elsewhere. *)
Shows(r, read, i, total) ==
  \A b \in 0..(total - 1), k \in 1..BLOCK :
    /\ \A j \in 1..i : read[j].num = b => r[At(b, k)] = Padded(read[j].data)[k]
    /\ (\A j \in 1..i : read[j].num # b) => r[At(b, k)] = Zero

(* A line more. *)
LEMMA AssignShows ==
  ASSUME NEW S, NEW read \in Seq(Lines(S)), Distinct(read), NEW total \in Nat,
         NEW i \in 0..(Len(read) - 1), read[i + 1].num < total,
         NEW r \in Images(S, total), Shows(r, read, i, total)
  PROVE  Shows(Assign(r, read[i + 1]), read, i + 1, total)
  <1> DEFINE line == read[i + 1]
             new == Assign(r, line)
  <1>1. i + 1 \in 1..Len(read) /\ line \in Lines(S) /\ \A j \in 1..(i + 1) : j \in 1..i \/ j = i + 1
    BY ElementOfSeq
  <1>2. \A j \in 1..i : read[j].num # line.num
    BY <1>1 DEF Distinct
  <1>3. \A b \in 0..(total - 1), k \in 1..BLOCK :
          new[At(b, k)] = IF b = line.num /\ k \in 1..Len(line.data) THEN line.data[k]
                                                                     ELSE r[At(b, k)]
    BY <1>1, AssignBlock
  <1> HIDE DEF new
  <1>4. ASSUME NEW b \in 0..(total - 1), NEW k \in 1..BLOCK
        PROVE  /\ \A j \in 1..(i + 1) : read[j].num = b => new[At(b, k)] = Padded(read[j].data)[k]
               /\ (\A j \in 1..(i + 1) : read[j].num # b) => new[At(b, k)] = Zero
    <2>1. CASE b = line.num
      <3>1. new[At(b, k)] = Padded(line.data)[k]
        <4>1. r[At(b, k)] = Zero
          BY <1>2, <2>1 DEF Shows
        <4> QED
          BY <1>3, <2>1, <4>1 DEF Padded
      <3>2. ASSUME NEW j \in 1..(i + 1), read[j].num = b PROVE j = i + 1
        BY <1>1, <1>2, <2>1, <3>2
      <3>3. i + 1 \in 1..(i + 1)
        OBVIOUS
      <3> QED
        BY <2>1, <3>1, <3>2, <3>3
    <2>2. CASE b # line.num
      <3>1. new[At(b, k)] = r[At(b, k)]
        BY <1>3, <2>2
      <3>2. \A j \in 1..i : j \in 1..(i + 1)
        OBVIOUS
      <3> QED
        BY <1>1, <2>2, <3>1, <3>2 DEF Shows
    <2> QED
      BY <2>1, <2>2
  <1> QED
    BY <1>4 DEF Shows, new

(* All of them. *)
LEMMA FilledShows ==
  ASSUME NEW S, Zero \in S, NEW total \in Nat,
         NEW read \in Seq(Lines(S)), Distinct(read),
         \A j \in 1..Len(read) : read[j].num < total
  PROVE  /\ Filled(read, total) \in Images(S, total)
         /\ Shows(Filled(read, total), read, Len(read), total)
  <1> DEFINE n == Len(read)
             V == Images(S, total)
             first == [b \in 1..(total * BLOCK) |-> Zero]
             step == [p \in V \X (1..n) |-> Assign(p[1], read[p[2]])]
             Equation(f) == f = [i \in 0..n |->
               IF i = 0 THEN [b \in 1..(total * BLOCK) |-> Zero]
                        ELSE Assign(f[i - 1], read[i])]
             result == CHOOSE f : Equation(f)
             T == {i \in 0..n : result[i] \in V /\ Shows(result[i], read, i, total)}
  <1>1. n \in Nat /\ \A i \in 1..n : read[i] \in Lines(S) /\ read[i].num < total
    BY ElementOfSeq
  <1>2. first \in V
    <2>1. total * BLOCK \in Nat
      BY SizesAssumption, MulMono
    <2> QED
      BY <2>1 DEF Images
  <1>3. step \in [V \X (1..n) -> V]
    <2>1. ASSUME NEW p \in V \X (1..n) PROVE Assign(p[1], read[p[2]]) \in V
      BY <1>1, AssignBlock
    <2> QED
      BY <2>1
  <1>4. \E f : Equation(f)
    <2> HIDE DEF n, V, step, first
    <2>1. \E f \in [0..n -> V] : Recurs(f, n, first, step)
      BY <1>1, <1>2, <1>3, Recursion, Zenon
    <2>2. PICK f \in [0..n -> V] : Recurs(f, n, first, step)
      BY <2>1
    <2>3. ASSUME NEW i \in 0..n, i # 0 PROVE step[<<f[i - 1], i>>] = Assign(f[i - 1], read[i])
      <3>1. i - 1 \in 0..n /\ i \in 1..n
        BY <1>1, <2>3
      <3>2. <<f[i - 1], i>> \in V \X (1..n)
        BY <2>2, <3>1
      <3> QED
        BY <3>2 DEF step
    <2>4. f = [i \in 0..n |-> IF i = 0 THEN first ELSE Assign(f[i - 1], read[i])]
      BY <2>2, <2>3 DEF Recurs
    <2> QED
      BY <2>4 DEF n, first
  <1>5. Equation(result)
    <2> HIDE DEF Equation
    <2> QED
      BY <1>4
  <1>6. \A i \in 0..n : result[i] = IF i = 0 THEN first ELSE Assign(result[i - 1], read[i])
    <2> HIDE DEF result
    <2> QED
      BY <1>5
  <1>7. Filled(read, total) = result[n]
    BY DEF Filled
  <1> HIDE DEF result
  <1>8. 0 \in T
    <2>1. 0 \in 0..n /\ result[0] = first
      <3>1. 0 \in 0..n
        BY <1>1
      <3> HIDE DEF first, n
      <3> QED
        BY <1>6, <3>1
    <2>2. Shows(first, read, 0, total)
      <3>1. ASSUME NEW b \in 0..(total - 1), NEW k \in 1..BLOCK PROVE first[At(b, k)] = Zero
        BY Places
      <3> HIDE DEF first
      <3> QED
        BY <3>1 DEF Shows
    <2> QED
      BY <1>2, <2>1, <2>2
  <1>9. ASSUME NEW i \in 0..(n - 1), i \in T PROVE i + 1 \in T
    <2>1. result[i + 1] = Assign(result[i], read[i + 1])
      <3>1. i + 1 \in 0..n /\ i + 1 # 0 /\ (i + 1) - 1 = i
        BY <1>1
      <3> QED
        BY <1>6, <3>1
    <2>2. i + 1 \in 1..n /\ i + 1 \in 0..n
      BY <1>1
    <2>3. Assign(result[i], read[i + 1]) \in V
      BY <1>1, <1>9, <2>2, AssignBlock
    <2>4. Shows(Assign(result[i], read[i + 1]), read, i + 1, total)
      BY <1>1, <1>9, <2>2, AssignShows
    <2> QED
      BY <2>1, <2>2, <2>3, <2>4
  <1>10. n \in T
    <2> HIDE DEF T, n
    <2>1. \A i \in 0..n : i \in T
      BY <1>1, <1>8, <1>9, CountsUp, Zenon
    <2> QED
      BY <1>1, <2>1
  <1> QED
    BY <1>7, <1>10

-----------------------------------------------------------------------------
(* What a file says. *)

(* A set of numbers up to a bound has a greatest. *)
LEMMA MaxOf ==
  ASSUME NEW n \in Nat, NEW T \in SUBSET (0..n), T # {}
  PROVE  Max(T) \in T /\ \A x \in T : x <= Max(T)
  <1>1. \E m \in T : \A x \in T : m >= x
    <2> SUFFICES ASSUME \A m \in T : \E x \in T : ~(m >= x) PROVE FALSE
      OBVIOUS
    <2> DEFINE U == {i \in 0..n : \A j \in 0..i : n - j \notin T}
    <2>1. n \notin T
      OBVIOUS
    <2>2. 0 \in U
      BY <2>1
    <2>3. ASSUME NEW i \in 0..(n - 1), i \in U PROVE i + 1 \in U
      <3>1. n - (i + 1) \notin T
        <4> SUFFICES ASSUME n - (i + 1) \in T PROVE FALSE
          OBVIOUS
        <4>1. PICK x \in T : ~(n - (i + 1) >= x)
          OBVIOUS
        <4>2. n - x \in 0..i /\ n - (n - x) = x
          BY <4>1
        <4> QED
          BY <2>3, <4>2
      <3>2. \A j \in 0..(i + 1) : j \in 0..i \/ j = i + 1
        OBVIOUS
      <3>3. \A j \in 0..i : n - j \notin T
        BY <2>3
      <3>4. i + 1 \in 0..n
        OBVIOUS
      <3> QED
        BY <3>1, <3>2, <3>3, <3>4
    <2>4. \A i \in 0..n : i \in U
      <3> HIDE DEF U
      <3> QED
        BY <2>2, <2>3, CountsUp, Zenon
    <2>5. PICK x \in T : TRUE
      OBVIOUS
    <2>6. n - x \in 0..n /\ n - x \in 0..(n - x) /\ n - (n - x) = x
      OBVIOUS
    <2>7. n - x \in U
      BY <2>4, <2>6
    <2>8. n - (n - x) \notin T
      BY <2>6, <2>7
    <2> QED
      BY <2>6, <2>8
  <1>2. Max(T) \in T /\ \A x \in T : Max(T) >= x
    BY <1>1 DEF Max
  <1>3. T \subseteq Nat
    OBVIOUS
  <1> HIDE DEF Max
  <1> QED
    BY <1>2, <1>3

(* Lines have a greatest number. *)
LEMMA MaxNumber ==
  ASSUME NEW S, NEW lines \in Seq(Lines(S)), lines # <<>>
  PROVE  LET T == {line.num : line \in ToSet(lines)}
         IN  Max(T) \in T /\ Max(T) \in Nat /\ \A x \in T : x <= Max(T)
  <1> DEFINE n == Len(lines)
             T == {line.num : line \in ToSet(lines)}
             U == {i \in 0..n : \E m \in Nat : \A j \in 1..i : lines[j].num <= m}
  <1>1. n \in Nat /\ n > 0
    BY EmptySeq
  <1>2. \A i \in 1..n : lines[i] \in Lines(S) /\ lines[i].num \in Nat
    <2>1. \A i \in 1..n : lines[i] \in Lines(S)
      BY ElementOfSeq
    <2> QED
      BY <2>1 DEF Lines
  <1>3. 0 \in U
    BY <1>1
  <1>4. ASSUME NEW i \in 0..(n - 1), i \in U PROVE i + 1 \in U
    <2>1. PICK m \in Nat : \A j \in 1..i : lines[j].num <= m
      BY <1>4
    <2> DEFINE new == m + lines[i + 1].num
    <2>2. i + 1 \in 1..n /\ i + 1 \in 0..n /\ lines[i + 1].num \in Nat
      BY <1>1, <1>2
    <2>3. new \in Nat /\ new >= m /\ new >= lines[i + 1].num
      BY <2>2
    <2>4. \A j \in 1..(i + 1) : (j \in 1..i \/ j = i + 1) /\ j \in 1..n
      BY <1>1
    <2> HIDE DEF new
    <2>5. \A j \in 1..(i + 1) : lines[j].num <= new
      BY <1>2, <2>1, <2>2, <2>3, <2>4
    <2> QED
      BY <2>2, <2>3, <2>5
  <1>5. n \in U
    <2> HIDE DEF U, n
    <2>1. \A i \in 0..n : i \in U
      BY <1>1, <1>3, <1>4, CountsUp, Zenon
    <2> QED
      BY <1>1, <2>1
  <1>6. PICK m \in Nat : \A j \in 1..n : lines[j].num <= m
    BY <1>5
  <1>7. ToSet(lines) = {lines[i] : i \in 1..n}
    BY DEF ToSet
  <1>8. T \in SUBSET (0..m)
    BY <1>2, <1>6, <1>7
  <1>9. T # {}
    <2>1. 1 \in 1..n
      BY <1>1
    <2>2. lines[1] \in ToSet(lines)
      BY <1>7, <2>1
    <2> QED
      BY <2>2
  <1> HIDE DEF T
  <1>10. Max(T) \in T /\ \A x \in T : x <= Max(T)
    BY <1>8, <1>9, MaxOf
  <1>11. Max(T) \in Nat
    <2>1. \A x \in T : x \in Nat
      BY <1>8
    <2> QED
      BY <1>10, <2>1, Zenon
  <1> QED
    BY <1>10, <1>11, Zenon DEF T

(* The numbers of the dictionary are those of the lines. *)
LEMMA SameNumbers ==
  ASSUME NEW S, NEW lines \in Seq(Lines(S)), NEW read \in Seq(Lines(S)),
         Dictionary(lines, Len(lines), read)
  PROVE  {read[i].num : i \in 1..Len(read)} = {line.num : line \in ToSet(lines)}
  <1>1. ToSet(lines) = {lines[i] : i \in 1..Len(lines)}
    BY DEF ToSet
  <1>2. \A j \in 1..Len(read) : \E l \in 1..Len(lines) : read[j] = lines[l]
    BY DEF Dictionary
  <1>3. \A l \in 1..Len(lines) : \E j \in 1..Len(read) : read[j].num = lines[l].num
    BY DEF Dictionary
  <1>4. \A i \in 1..Len(read) : read[i].num \in {line.num : line \in ToSet(lines)}
    BY <1>1, <1>2
  <1>5. \A line \in ToSet(lines) : line.num \in {read[i].num : i \in 1..Len(read)}
    BY <1>1, <1>3
  <1> QED
    BY <1>4, <1>5, Zenon

(* _parse_flipper_nfc is the dictionary, laid out. *)
LEMMA ParseIsFilled ==
  ASSUME NEW S, NEW lines \in Seq(Lines(S)), lines # <<>>
  PROVE  _parse_flipper_nfc(lines) =
           Filled(Read(lines), Max({line.num : line \in ToSet(lines)}) + 1)
  <1>1. _parse_flipper_nfc(lines) =
          IF Read(lines) = <<>> THEN Unreadable
          ELSE Filled(Read(lines), Max({Read(lines)[i].num : i \in 1..Len(Read(lines))}) + 1)
    BY Zenon DEF _parse_flipper_nfc, Read, Filled
  <1> DEFINE read == Read(lines)
  <1>2. read \in Seq(Lines(S)) /\ Dictionary(lines, Len(lines), read)
    BY ReadIsDictionary
  <1> HIDE DEF read
  <1>3. {read[i].num : i \in 1..Len(read)} = {line.num : line \in ToSet(lines)}
    BY <1>2, SameNumbers
  <1>4. read # <<>>
    <2>1. 1 \in 1..Len(lines)
      BY EmptySeq
    <2>2. PICK j \in 1..Len(read) : read[j].num = lines[1].num
      BY <1>2, <2>1 DEF Dictionary
    <2> QED
      BY <2>2, EmptySeq
  <1> QED
    BY <1>1, <1>3, <1>4 DEF read

(* The data of block b of an image. *)
LEMMA SliceAt ==
  ASSUME NEW S, NEW total \in Nat, NEW r \in Images(S, total), NEW b \in 0..(total - 1)
  PROVE  /\ BlocksOf(r) = total
         /\ Slice(r, b, b + 1) = [k \in 1..BLOCK |-> r[At(b, k)]]
  <1>1. BLOCK \in Nat \ {0} /\ r \in Seq(S) /\ Len(r) = total * BLOCK
    BY SizesAssumption DEF Images
  <1>2. BlocksOf(r) = total
    BY <1>1, DivExact DEF BlocksOf
  <1> DEFINE next == b + 1
             s == Slice(r, b, next)
  <1>3. b \in Nat /\ next \in Nat /\ b <= next /\ next <= BlocksOf(r)
    BY <1>2
  <1>5. (next - b) * BLOCK = BLOCK
    BY <1>1, <1>3
  <1> HIDE DEF next
  <1>4. /\ s \in Seq(S) /\ Len(s) = (next - b) * BLOCK
        /\ \A k \in 1..((next - b) * BLOCK) : s[k] = r[b * BLOCK + k]
    BY <1>1, <1>3, SlicesAreWhole
  <1> HIDE DEF s
  <1>6. s \in Seq(S) /\ Len(s) = BLOCK /\ \A k \in 1..BLOCK : s[k] = r[At(b, k)]
    BY <1>4, <1>5 DEF At
  <1>7. s = [k \in 1..Len(s) |-> s[k]]
    BY <1>6
  <1>8. s = [k \in 1..BLOCK |-> r[At(b, k)]]
    BY <1>6, <1>7
  <1> QED
    BY <1>2, <1>8 DEF s, next

(* A text file is read as it says: the dump has a block for each number up to
   the greatest, each with the data of the last line for it filled up with zeros,
   whatever an earlier line had there, or zeros. *)
THEOREM TextIsRead ==
  ASSUME NEW S, Zero \in S, NEW file, file.suffix = ".nfc",
         file.lines \in Seq(Lines(S)), file.lines # <<>>
  PROVE  /\ BlocksIn(file) \in Nat
         /\ _parse_dump_file(file) \in Seq(S)
         /\ BlocksOf(_parse_dump_file(file)) = BlocksIn(file)
         /\ \A b \in 0..(BlocksIn(file) - 1) :
              Slice(_parse_dump_file(file), b, b + 1) = Said(file, b)
  <1> DEFINE lines == file.lines
             n == Len(lines)
             read == Read(lines)
             total == BlocksIn(file)
             dump == _parse_dump_file(file)
             numbers == {line.num : line \in ToSet(lines)}
  <1> HIDE DEF lines
  <1>1. /\ lines \in Seq(Lines(S)) /\ lines # <<>> /\ n \in Nat
        /\ read \in Seq(Lines(S)) /\ Dictionary(lines, n, read)
    BY ReadIsDictionary DEF lines
  <1>2. total = Max(numbers) + 1
    BY DEF BlocksIn, lines
  <1>3. Max(numbers) \in numbers /\ Max(numbers) \in Nat /\ \A x \in numbers : x <= Max(numbers)
    BY <1>1, MaxNumber
  <1>4. dump = Filled(read, Max(numbers) + 1)
    <2>1. dump = _parse_flipper_nfc(lines)
      BY DEF _parse_dump_file, lines
    <2> HIDE DEF dump
    <2> QED
      BY <1>1, <2>1, ParseIsFilled
  <1>5. {read[i].num : i \in 1..Len(read)} = numbers
    BY <1>1, SameNumbers
  <1>6. \A i \in 1..Len(read) : read[i].num \in numbers /\ read[i] \in Lines(S)
    BY <1>1, <1>5, ElementOfSeq
  <1> HIDE DEF read, total, dump, numbers, n
  <1>7. total \in Nat
    BY <1>2, <1>3
  <1>8. \A i \in 1..Len(read) : read[i].num < total
    <2>1. \A i \in 1..Len(read) : read[i].num \in Nat
      BY <1>6 DEF Lines
    <2> QED
      BY <1>2, <1>3, <1>6, <2>1
  <1>9. dump \in Images(S, total) /\ Shows(dump, read, Len(read), total)
    <2>1. Distinct(read)
      BY <1>1 DEF Dictionary
    <2> QED
      BY <1>1, <1>2, <1>4, <1>7, <1>8, <2>1, FilledShows
  <1>10. dump \in Seq(S) /\ BlocksOf(dump) = total
    <2>1. total - 1 \in 0..(total - 1) /\ 0 \in 0..(total - 1)
      BY <1>2, <1>3
    <2> QED
      BY <1>7, <1>9, <2>1, SliceAt DEF Images
  <1>11. ASSUME NEW b \in 0..(total - 1)
         PROVE  Slice(dump, b, b + 1) = Said(file, b)
    <2> DEFINE F == LinesFor(file, b)
    <2>1. Slice(dump, b, b + 1) = [k \in 1..BLOCK |-> dump[At(b, k)]]
      BY <1>7, <1>9, SliceAt
    <2>2. F = {i \in 1..n : lines[i].num = b}
      BY DEF LinesFor, lines, n
    <2>3. Said(file, b) = IF F = {} THEN Padded(<<>>) ELSE Padded(lines[Max(F)].data)
      BY DEF Said, lines
    <2> HIDE DEF F
    <2>4. CASE F = {}
      <3>1. \A j \in 1..Len(read) : read[j].num # b
        <4>1. \A j \in 1..Len(read) : \E l \in 1..n : read[j] = lines[l]
          BY <1>1 DEF Dictionary
        <4> QED
          BY <2>2, <2>4, <4>1
      <3>2. \A k \in 1..BLOCK : dump[At(b, k)] = Zero
        BY <1>9, <3>1 DEF Shows
      <3>3. Padded(<<>>) = [k \in 1..BLOCK |-> Zero]
        <4> DEFINE none == <<>>
        <4>1. 1..Len(none) = {}
          OBVIOUS
        <4> HIDE DEF none
        <4>2. Padded(none) = [k \in 1..BLOCK |-> Zero]
          BY <4>1 DEF Padded
        <4> QED
          BY <4>2 DEF none
      <3> QED
        BY <2>1, <2>3, <2>4, <3>2, <3>3
    <2>5. CASE F # {}
      <3>1. F \in SUBSET (0..n)
        BY <2>2
      <3>2. Max(F) \in F /\ \A x \in F : x <= Max(F)
        BY <1>1, <2>5, <3>1, MaxOf
      <3> DEFINE last == Max(F)
      <3> HIDE DEF last
      <3>3. last \in 1..n /\ lines[last].num = b
        BY <2>2, <3>2 DEF last
      <3>4. PICK j \in 1..Len(read) : read[j].num = b
        BY <1>1, <3>3 DEF Dictionary
      <3>5. PICK l \in 1..n : /\ read[j] = lines[l]
                              /\ \A m \in (l + 1)..n : lines[m].num # lines[l].num
        BY <1>1 DEF Dictionary
      <3>6. l = last
        <4>1. l \in F
          BY <2>2, <3>4, <3>5
        <4>2. l <= last
          BY <3>2, <4>1 DEF last
        <4>3. last \notin (l + 1)..n
          BY <3>3, <3>4, <3>5
        <4> QED
          BY <1>1, <3>3, <4>2, <4>3
      <3>7. \A k \in 1..BLOCK : dump[At(b, k)] = Padded(lines[last].data)[k]
        BY <1>9, <3>4, <3>5, <3>6 DEF Shows
      <3>8. Padded(lines[last].data) = [k \in 1..BLOCK |-> Padded(lines[last].data)[k]]
        BY DEF Padded
      <3> QED
        BY <2>1, <2>3, <2>5, <3>7, <3>8 DEF last
    <2> QED
      BY <2>4, <2>5
  <1> QED
    BY <1>7, <1>10, <1>11 DEF dump, total

(* Every file that load_dump goes on with is read as it says, a raw one because
   it is its bytes. *)
THEOREM FileIsRead ==
  ASSUME NEW S, NEW file, file.suffix = ".nfc" => Zero \in S /\ file.lines \in Seq(Lines(S)),
         _parse_dump_file(file) \in Seq(S), Len(_parse_dump_file(file)) >= BLOCK
  PROVE  /\ BlocksIn(file) \in Nat \ {0}
         /\ BlocksOf(_parse_dump_file(file)) = BlocksIn(file)
         /\ \A b \in 0..(BlocksIn(file) - 1) :
              Slice(_parse_dump_file(file), b, b + 1) = Said(file, b)
  <1> DEFINE dump == _parse_dump_file(file)
  <1>1. BLOCK \in Nat \ {0} /\ Len(dump) \in Nat
    BY SizesAssumption
  <1>2. Len(dump) # 0
    BY <1>1
  <1>3. BlocksOf(dump) \in Nat \ {0}
    <2>1. /\ BlocksOf(dump) \in Nat
          /\ Len(dump) < BlocksOf(dump) * BLOCK + BLOCK
      BY <1>1, DivFacts DEF BlocksOf
    <2> QED
      BY <1>1, <2>1
  <1>4. CASE file.suffix = ".nfc"
    <2>1. file.lines # <<>>
      <3> SUFFICES ASSUME file.lines = <<>> PROVE FALSE
        OBVIOUS
      <3>1. dump = _parse_flipper_nfc(<<>>)
        BY <1>4 DEF _parse_dump_file
      <3> DEFINE none == <<>>
      <3>2. none \in Seq(Lines(S)) /\ Len(none) = 0
        OBVIOUS
      <3> HIDE DEF none
      <3>3. Read(none) = <<>>
        <4>1. Read(none) \in Seq(Lines(S)) /\ Dictionary(none, Len(none), Read(none))
          BY <3>2, ReadIsDictionary
        <4>2. \A j \in 1..Len(Read(none)) : FALSE
          BY <3>2, <4>1 DEF Dictionary
        <4>3. Len(Read(none)) = 0
          BY <4>1, <4>2
        <4> QED
          BY <4>1, <4>3, EmptySeq
      <3>4. _parse_flipper_nfc(none) = <<>>
        <4>1. _parse_flipper_nfc(none) =
                IF Read(none) = <<>> THEN Unreadable
                ELSE Filled(Read(none), Max({Read(none)[i].num : i \in 1..Len(Read(none))}) + 1)
          BY Zenon DEF _parse_flipper_nfc, Read, Filled
        <4> QED
          BY <3>3, <4>1 DEF Unreadable
      <3>5. dump = <<>>
        BY <3>1, <3>4 DEF none
      <3> QED
        BY <1>2, <3>5
    <2> QED
      BY <1>3, <1>4, <2>1, TextIsRead
  <1>5. CASE file.suffix # ".nfc"
    <2>1. dump = file.bytes
      <3>1. file.suffix \in {".mfd", ".bin"} \/ dump = <<>>
        BY <1>5 DEF _parse_dump_file, Unreadable
      <3>2. file.suffix \in {".mfd", ".bin"} => dump = file.bytes
        BY DEF _parse_dump_file
      <3>3. dump # <<>>
        BY <1>2
      <3> HIDE DEF dump
      <3> QED
        BY <3>1, <3>2, <3>3
    <2> HIDE DEF dump
    <2>2. BlocksIn(file) = BlocksOf(dump)
      BY <1>5, <2>1 DEF BlocksIn, BlocksOf
    <2>3. \A b \in 0..(BlocksIn(file) - 1) : Slice(dump, b, b + 1) = Said(file, b)
      BY <1>5, <2>1 DEF Said
    <2> QED
      BY <1>3, <2>2, <2>3 DEF dump
  <1> QED
    BY <1>4, <1>5
=============================================================================
