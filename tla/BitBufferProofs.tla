-------------------------- MODULE BitBufferProofs --------------------------
(***************************************************************************)
(* Proofs about BitBuffer, for every capacity, every set of field widths   *)
(* and every bound on the packet: its invariant, and that it implements     *)
(* BitQueue, as every operation on words is the operation of the queue on   *)
(* the bits they hold.                                                     *)
(***************************************************************************)
EXTENDS BitBuffer, SequenceTheorems, TLAPS

\* Shifts and masks of any set of positions are words.
LEMMA WordOps ==
  ASSUME NEW w, NEW n
  PROVE  /\ ShiftLeft(w, n) \in Word
         /\ ShiftRight(w, n) \in Word
         /\ LowMask(n) \in Word
         /\ {} \in Word
BY DEF ShiftLeft, ShiftRight, LowMask, Word

\* The value of a field no wider than a word is a word.
LEMMA FieldIsWord ==
  ASSUME NEW blocks \in Widths, NEW val \in SUBSET (0 .. blocks - 1)
  PROVE  val \in Word /\ blocks \in 1..BUFFER_CAPACITY
BY CapacityAssumption, WidthsAssumption DEF Word, BitPositions

\* A Write does one of two things to the open buffer: it merges the value in, or
\* it fills the buffer up, stores it and starts the next one with the spill.  A
\* buffer that is full afterwards is stored too.
Opened == IF buffer_size = 0
          THEN [packet |-> Append(packet, buffer), buffer |-> {}, size |-> BUFFER_CAPACITY]
          ELSE [packet |-> packet, buffer |-> buffer, size |-> buffer_size]

Merged(val, blocks) ==
  [buffer |-> Opened.buffer \cup ShiftLeft(val, Opened.size - blocks),
   size |-> Opened.size - blocks]

Filled(val, blocks) == Opened.buffer \cup ShiftRight(val, blocks - Opened.size)

Spilt(val, blocks) ==
  LET bits == blocks - Opened.size IN
  [buffer |-> ShiftLeft(val \cap LowMask(bits), BUFFER_CAPACITY - bits),
   size |-> BUFFER_CAPACITY - bits]

LEMMA OpenedType ==
  ASSUME TypeOK
  PROVE  /\ Opened.packet \in Seq(Word)
         /\ Opened.buffer \in Word
         /\ Opened.size \in 1..BUFFER_CAPACITY
BY CapacityAssumption, WordOps DEF TypeOK, Opened

LEMMA WriteCases ==
  ASSUME TypeOK, NEW val \in Word, NEW blocks \in 1..BUFFER_CAPACITY,
         Write(val, blocks)
  PROVE  /\ mode = "WRITE_MODE" /\ mode' = mode /\ reg' = reg
         /\ \/ /\ blocks < Opened.size
               /\ packet' = Opened.packet
               /\ buffer' = Merged(val, blocks).buffer
               /\ buffer_size' = Merged(val, blocks).size
            \/ /\ blocks = Opened.size
               /\ packet' = Append(Opened.packet, Merged(val, blocks).buffer)
               /\ buffer' = {}
               /\ buffer_size' = BUFFER_CAPACITY
            \/ /\ blocks > Opened.size
               /\ packet' = Append(Opened.packet, Filled(val, blocks))
               /\ buffer' = Spilt(val, blocks).buffer
               /\ buffer_size' = Spilt(val, blocks).size
<1> DEFINE W == Opened.packet
           B == Opened.buffer
           S == Opened.size
<1>1. /\ W = IF buffer_size = 0 THEN Append(packet, buffer) ELSE packet
      /\ B = IF buffer_size = 0 THEN {} ELSE buffer
      /\ S = IF buffer_size = 0 THEN BUFFER_CAPACITY ELSE buffer_size
  BY DEF Opened
<1>2. B \in Word /\ S \in 1..BUFFER_CAPACITY
  BY OpenedType
<1> HIDE DEF W, B, S
<1>3. PICK first \in pack32(B, S, val, blocks) :
        IF first.overflow
        THEN \E second \in pack32({}, BUFFER_CAPACITY, first.val, first.bits) :
               Store(Append(W, first.buffer), second)
        ELSE Store(W, first)
  BY <1>1 DEF Write
<1>4. CASE blocks <= S
  <2> DEFINE r == [buffer |-> B \cup ShiftLeft(val, S - blocks), buffer_size |-> S - blocks,
                   overflow |-> FALSE, bits |-> 0, val |-> {}]
  <2>1. pack32(B, S, val, blocks) = {r}
    BY <1>4 DEF pack32
  <2>2. first = r
    BY <1>3, <2>1
  <2>3. Store(W, r)
    BY <1>3, <2>2
  <2>4. /\ Merged(val, blocks).buffer = r.buffer
        /\ Merged(val, blocks).size = r.buffer_size
    BY DEF Merged, B, S
  <2> QED
    BY <1>2, <1>4, <2>3, <2>4 DEF Store, Write, W, S
<1>5. CASE ~(blocks <= S)
  <2> DEFINE bits == blocks - S
             r1 == [buffer |-> B \cup ShiftRight(val, bits), buffer_size |-> 0,
                    overflow |-> TRUE, bits |-> bits, val |-> val \cap LowMask(bits)]
             r2 == [buffer |-> {} \cup ShiftLeft(val \cap LowMask(bits), BUFFER_CAPACITY - bits),
                    buffer_size |-> BUFFER_CAPACITY - bits,
                    overflow |-> FALSE, bits |-> 0, val |-> {}]
  <2>1. /\ bits \in 1 .. BUFFER_CAPACITY - 1
        /\ bits # BUFFER_CAPACITY
        /\ bits <= BUFFER_CAPACITY
        /\ bits < BUFFER_CAPACITY
    BY <1>2, <1>5, CapacityAssumption
  <2>8. pack32(B, S, val, blocks) = {r1}
    <3>1. ShiftRightOutcomes(val, bits) = {ShiftRight(val, bits)}
      BY <2>1 DEF ShiftRightOutcomes
    <3> QED
      BY <1>5, <2>1, <3>1 DEF pack32
  <2>2. first = r1
    BY <1>3, <2>8
  <2>3. PICK second \in pack32({}, BUFFER_CAPACITY, val \cap LowMask(bits), bits) :
          Store(Append(W, r1.buffer), second)
    BY <1>3, <2>2
  <2>4. pack32({}, BUFFER_CAPACITY, val \cap LowMask(bits), bits) = {r2}
    BY <2>1 DEF pack32
  <2>5. Store(Append(W, r1.buffer), r2)
    BY <2>3, <2>4
  <2>6. BUFFER_CAPACITY - bits # 0
    BY <2>1, CapacityAssumption
  <2>7. /\ Filled(val, blocks) = r1.buffer
        /\ Spilt(val, blocks).buffer = r2.buffer
        /\ Spilt(val, blocks).size = r2.buffer_size
    BY DEF Filled, Spilt, B, S
  <2> QED
    BY <1>2, <1>5, <2>5, <2>6, <2>7 DEF Store, Write, W, S
<1> QED
  BY <1>2, <1>4, <1>5

-----------------------------------------------------------------------------
(* The invariant.  SpareBitsClear is not inductive by itself: it needs the *)
(* ranges of TypeOK.                                                       *)

Inv == TypeOK /\ SpareBitsClear

LEMMA InitInv == Init => Inv
BY CapacityAssumption, WordOps DEF Init, Inv, TypeOK, SpareBitsClear, Modes

LEMMA WriteInv ==
  ASSUME Inv, NEW blocks \in Widths, NEW val \in SUBSET (0 .. blocks - 1),
         Write(val, blocks)
  PROVE  Inv'
<1>1. val \in Word /\ blocks \in 1..BUFFER_CAPACITY
  BY FieldIsWord
<1>2. TypeOK /\ SpareBitsClear
  BY DEF Inv
<1> DEFINE W == Opened.packet
           B == Opened.buffer
           S == Opened.size
<1>3. W \in Seq(Word) /\ B \in Word /\ S \in 1..BUFFER_CAPACITY
  BY <1>2, OpenedType
<1>4. mode = "WRITE_MODE" /\ mode' = "WRITE_MODE" /\ reg' \in Word
  BY <1>1, <1>2, WriteCases DEF TypeOK
<1>5. \A b \in B : b >= S
  BY <1>2, <1>4, CapacityAssumption DEF Opened, SpareBitsClear
<1>6. CASE /\ blocks < S
           /\ packet' = W
           /\ buffer' = Merged(val, blocks).buffer
           /\ buffer_size' = Merged(val, blocks).size
  <2>1. /\ buffer' = B \cup ShiftLeft(val, S - blocks)
        /\ buffer_size' = S - blocks
    BY <1>6 DEF Merged
  <2>2. buffer' \in Word /\ buffer_size' \in 0..BUFFER_CAPACITY
    BY <1>1, <1>3, <1>6, <2>1, WordOps, CapacityAssumption DEF Word
  <2>3. \A b \in ShiftLeft(val, S - blocks) : b >= S - blocks
    BY <1>1, <1>3, <1>6, CapacityAssumption DEF ShiftLeft, Word, BitPositions
  <2>4. \A b \in buffer' : b >= buffer_size'
    BY <1>1, <1>3, <1>5, <2>1, <2>3, CapacityAssumption DEF Word, BitPositions
  <2> QED
    BY <1>3, <1>4, <1>6, <2>2, <2>4 DEF Inv, TypeOK, SpareBitsClear, Modes
<1>7. CASE /\ blocks = S
           /\ packet' = Append(W, Merged(val, blocks).buffer)
           /\ buffer' = {}
           /\ buffer_size' = BUFFER_CAPACITY
  <2>1. Merged(val, blocks).buffer \in Word
    BY <1>3, WordOps DEF Merged, Word
  <2> QED
    BY <1>3, <1>4, <1>7, <2>1, WordOps, CapacityAssumption
    DEF Inv, TypeOK, SpareBitsClear, Modes
<1>8. CASE /\ blocks > S
           /\ packet' = Append(W, Filled(val, blocks))
           /\ buffer' = Spilt(val, blocks).buffer
           /\ buffer_size' = Spilt(val, blocks).size
  <2> DEFINE bits == blocks - S
             room == BUFFER_CAPACITY - bits
  <2>1. /\ buffer' = ShiftLeft(val \cap LowMask(bits), room)
        /\ buffer_size' = room
        /\ Filled(val, blocks) \in Word
    BY <1>3, <1>8, WordOps DEF Spilt, Filled, Word
  <2>2. room \in 0..BUFFER_CAPACITY
    BY <1>1, <1>3, <1>8, CapacityAssumption
  <2>3. \A b \in ShiftLeft(val \cap LowMask(bits), room) : b >= room
    BY <1>1, <2>2, CapacityAssumption DEF ShiftLeft, Word, BitPositions
  <2>4. buffer' \in Word /\ buffer_size' \in 0..BUFFER_CAPACITY
    BY <2>1, <2>2, WordOps
  <2>5. packet' \in Seq(Word)
    BY <1>3, <1>8, <2>1
  <2>6. \A b \in buffer' : b >= buffer_size'
    BY <2>1, <2>3
  <2> QED
    BY <1>4, <2>4, <2>5, <2>6 DEF Inv, TypeOK, SpareBitsClear, Modes
<1> QED
  BY <1>1, <1>2, <1>6, <1>7, <1>8, WriteCases

\* What unpack32 returns, and that it keeps the spare bits clear.
LEMMA UnpackType ==
  ASSUME NEW b \in Word, NEW size \in 1..BUFFER_CAPACITY,
         NEW bitsize \in 1..BUFFER_CAPACITY,
         \A x \in b : x >= BUFFER_CAPACITY - size
  PROVE  LET r == unpack32(b, size, bitsize) IN
         /\ r.val \in Word
         /\ r.buffer \in Word
         /\ r.buffer_size \in 0..BUFFER_CAPACITY
         /\ r.overflow => r.bits \in 1..BUFFER_CAPACITY
         /\ \A x \in r.buffer : x >= BUFFER_CAPACITY - r.buffer_size
<1>1. CASE bitsize <= size
  <2> DEFINE rest == IF bitsize = BUFFER_CAPACITY THEN {} ELSE ShiftLeft(b, bitsize)
  <2>1. rest \in Word
    BY WordOps
  <2>2. \A x \in ShiftLeft(b, bitsize) : x >= BUFFER_CAPACITY - (size - bitsize)
    BY <1>1, CapacityAssumption DEF ShiftLeft, Word, BitPositions
  <2>3. \A x \in rest : x >= BUFFER_CAPACITY - (size - bitsize)
    BY <2>2
  <2>4. size - bitsize \in 0..BUFFER_CAPACITY
    BY <1>1, CapacityAssumption
  <2> QED
    BY <1>1, <2>1, <2>3, <2>4, WordOps DEF unpack32
<1>2. CASE ~(bitsize <= size)
  <2>1. bitsize - size \in 1..BUFFER_CAPACITY /\ 0 \in 0..BUFFER_CAPACITY
    BY <1>2, CapacityAssumption
  <2> QED
    BY <1>2, <2>1, WordOps DEF unpack32
<1> QED
  BY <1>1, <1>2

\* A Read takes the field from the open word, or the rest of it from the next.
LEMMA ReadInv ==
  ASSUME Inv, NEW bitsize \in Widths, Read(bitsize)
  PROVE  Inv'
<1>1. TypeOK /\ SpareBitsClear
  BY DEF Inv
<1>2. bitsize \in 1..BUFFER_CAPACITY
  BY WidthsAssumption
<1> DEFINE refill == buffer_size = 0
           W == IF refill THEN Tail(packet) ELSE packet
           B == IF refill THEN Head(packet) ELSE buffer
           S == IF refill THEN BUFFER_CAPACITY ELSE buffer_size
           first == unpack32(B, S, bitsize)
           second == unpack32(Head(W), BUFFER_CAPACITY, first.bits)
<1>3. /\ mode = "READ_MODE" /\ mode' = mode
      /\ refill => packet # << >>
      /\ IF first.overflow
         THEN /\ W # << >>
              /\ packet' = Tail(W)
              /\ buffer' = second.buffer
              /\ buffer_size' = second.buffer_size
              /\ reg' = ShiftLeft(first.val, first.bits) \cup second.val
         ELSE /\ packet' = W
              /\ buffer' = first.buffer
              /\ buffer_size' = first.buffer_size
              /\ reg' = first.val
  BY DEF Read
<1>4. /\ W \in Seq(Word) /\ B \in Word /\ S \in 1..BUFFER_CAPACITY
      /\ \A x \in B : x >= BUFFER_CAPACITY - S
  <2>1. CASE refill
    <3>1. packet \in Seq(Word) /\ packet # << >>
      BY <1>1, <1>3, <2>1 DEF TypeOK
    <3>2. Tail(packet) \in Seq(Word) /\ Head(packet) \in Word
      BY <3>1
    <3> QED
      BY <2>1, <3>2, CapacityAssumption DEF Word, BitPositions
  <2>2. CASE ~refill
    BY <1>1, <1>3, <2>2, CapacityAssumption DEF TypeOK, SpareBitsClear
  <2> QED
    BY <2>1, <2>2
<1> HIDE DEF refill, W, B, S
<1>5. /\ first.val \in Word /\ first.buffer \in Word
      /\ first.buffer_size \in 0..BUFFER_CAPACITY
      /\ first.overflow => first.bits \in 1..BUFFER_CAPACITY
      /\ \A x \in first.buffer : x >= BUFFER_CAPACITY - first.buffer_size
  BY <1>2, <1>4, UnpackType
<1>6. CASE first.overflow
  <2>1. W \in Seq(Word) /\ W # << >>
    BY <1>3, <1>4, <1>6
  <2>2. Tail(W) \in Seq(Word) /\ Head(W) \in Word
    BY <2>1
  <2>3. \A x \in Head(W) : x >= BUFFER_CAPACITY - BUFFER_CAPACITY
    BY <2>2, CapacityAssumption DEF Word, BitPositions
  <2>4. BUFFER_CAPACITY \in 1..BUFFER_CAPACITY /\ first.bits \in 1..BUFFER_CAPACITY
    BY <1>5, <1>6, CapacityAssumption
  <2>5. /\ second.val \in Word /\ second.buffer \in Word
        /\ second.buffer_size \in 0..BUFFER_CAPACITY
        /\ \A x \in second.buffer : x >= BUFFER_CAPACITY - second.buffer_size
    BY <2>2, <2>3, <2>4, UnpackType
  <2>6. ShiftLeft(first.val, first.bits) \cup second.val \in Word
    BY <2>5, WordOps DEF Word
  <2> HIDE DEF first, second
  <2> QED
    BY <1>3, <1>6, <2>2, <2>5, <2>6 DEF Inv, TypeOK, SpareBitsClear, Modes
<1>7. CASE ~first.overflow
  <2> HIDE DEF first, second
  <2> QED
    BY <1>3, <1>4, <1>5, <1>7 DEF Inv, TypeOK, SpareBitsClear, Modes
<1> QED
  BY <1>6, <1>7

LEMMA FlushInv == Inv /\ Flush => Inv'
BY CapacityAssumption, WordOps DEF Inv, TypeOK, SpareBitsClear, Modes, Flush

LEMMA SetReadModeInv == Inv /\ SetReadMode => Inv'
<1> SUFFICES ASSUME Inv, SetReadMode PROVE Inv'
  OBVIOUS
<1>1. packet \in Seq(Word) /\ packet # << >> /\ reg' \in Word
  BY DEF Inv, TypeOK, SetReadMode
<1>2. Head(packet) \in Word /\ Tail(packet) \in Seq(Word)
  BY <1>1
<1>3. \A b \in Head(packet) : b >= BUFFER_CAPACITY - BUFFER_CAPACITY
  BY <1>2, CapacityAssumption DEF Word, BitPositions
<1> QED
  BY <1>1, <1>2, <1>3, CapacityAssumption
  DEF Inv, TypeOK, SpareBitsClear, Modes, SetReadMode

LEMMA SetWriteModeInv == Inv /\ Reopenable /\ SetWriteMode => Inv'
<1> SUFFICES ASSUME Inv, Reopenable, SetWriteMode PROVE Inv'
  OBVIOUS
<1>1. CASE buffer_size = 0
  <2>1. buffer = {}
    BY <1>1, CapacityAssumption
    DEF Inv, TypeOK, SpareBitsClear, Reopenable, Word, BitPositions
  <2>2. ShiftLeft(buffer, BUFFER_CAPACITY) = {}
    BY <2>1 DEF ShiftLeft
  <2> QED
    BY <1>1, <2>1, <2>2, CapacityAssumption, WordOps
    DEF Inv, TypeOK, SpareBitsClear, Modes, Reopenable, SetWriteMode
<1>2. CASE buffer_size = BUFFER_CAPACITY
  <2>1. CASE buffer # {}
    <3>1. /\ packet' = Append(packet, buffer)
          /\ buffer' = {} /\ buffer_size' = BUFFER_CAPACITY
          /\ mode' = "WRITE_MODE" /\ reg' = reg
      BY <1>2, <2>1 DEF SetWriteMode
    <3>2. packet' \in Seq(Word) /\ reg' \in Word
      BY <3>1 DEF Inv, TypeOK
    <3> QED
      BY <3>1, <3>2, CapacityAssumption, WordOps
      DEF Inv, TypeOK, SpareBitsClear, Modes
  <2>2. CASE buffer = {}
    <3>1. ShiftLeft(buffer, BUFFER_CAPACITY - BUFFER_CAPACITY) = {}
      BY <2>2 DEF ShiftLeft
    <3> QED
      BY <1>2, <2>2, <3>1, CapacityAssumption, WordOps
      DEF Inv, TypeOK, SpareBitsClear, Modes, SetWriteMode
  <2> QED
    BY <2>1, <2>2
<1> QED
  BY <1>1, <1>2 DEF Reopenable

LEMMA NextInv == Inv /\ [Next]_vars => Inv'
<1> SUFFICES ASSUME Inv, [Next]_vars PROVE Inv'
  OBVIOUS
<1>1. CASE \E blocks \in Widths : \E val \in SUBSET (0 .. blocks - 1) :
             Len(packet) < MaxWords /\ Write(val, blocks)
  BY <1>1, WriteInv
<1>2. CASE Flush
  BY <1>2, FlushInv
<1>3. CASE Flushed /\ SetReadMode
  BY <1>3, SetReadModeInv
<1>4. CASE \E bitsize \in Widths : Read(bitsize)
  BY <1>4, ReadInv
<1>5. CASE Reopenable /\ SetWriteMode
  BY <1>5, SetWriteModeInv
<1>6. CASE UNCHANGED vars
  BY <1>6 DEF vars, Inv, TypeOK, SpareBitsClear
<1> QED
  BY <1>1, <1>2, <1>3, <1>4, <1>5, <1>6 DEF Next

\* The inductive invariant holds in every reachable state.
THEOREM InvHolds == Spec => []Inv
<1>1. Inv /\ [Next]_vars => Inv'
  BY NextInv
<1> QED
  BY <1>1, InitInv, PTL DEF Spec

\* The counts of room and of unread bits, and every word, stay in range.
THEOREM TypeCorrect == Spec => []TypeOK
<1>1. Inv => TypeOK
  BY DEF Inv
<1> QED
  BY <1>1, InvHolds, PTL

\* pack32 may merge with a plain or, and Read may compare the buffer with zero:
\* there is nothing in it but the data.
THEOREM SpareBitsStayClear == Spec => []SpareBitsClear
<1>1. Inv => SpareBitsClear
  BY DEF Inv
<1> QED
  BY <1>1, InvHolds, PTL

-----------------------------------------------------------------------------
(* The stream of bits.                                                     *)

LEMMA HighBitsType ==
  ASSUME NEW w, NEW n \in Nat
  PROVE  HighBits(w, n) \in Seq(BOOLEAN) /\ Len(HighBits(w, n)) = n
BY DEF HighBits

LEMMA NoPacketBits == PacketBits(<< >>) = << >>
<1>1. BUFFER_CAPACITY * Len(<< >>) = 0
  BY CapacityAssumption
<1> QED
  BY <1>1 DEF PacketBits

\* The bits of a buffer that are its data include every 1 bit of it.
LEMMA OnesAreData ==
  ASSUME NEW b \in Word, NEW size \in 0..BUFFER_CAPACITY,
         \A x \in b : x >= BUFFER_CAPACITY - size
  PROVE  b # {} <=> \E i \in 1..size : HighBits(b, size)[i]
<1>1. ASSUME NEW x \in b
      PROVE  /\ BUFFER_CAPACITY - x \in 1..size
             /\ HighBits(b, size)[BUFFER_CAPACITY - x]
  <2>1. x \in 0 .. BUFFER_CAPACITY - 1 /\ x >= BUFFER_CAPACITY - size
    BY <1>1 DEF Word, BitPositions
  <2>2. BUFFER_CAPACITY - x \in 1..size /\ BUFFER_CAPACITY - (BUFFER_CAPACITY - x) = x
    BY <2>1, CapacityAssumption
  <2> QED
    BY <1>1, <2>2 DEF HighBits
<1>2. ASSUME NEW i \in 1..size, HighBits(b, size)[i]
      PROVE  b # {}
  BY <1>2 DEF HighBits
<1> QED
  BY <1>1, <1>2

\* Read's answer to "is there more" never denies a 1 bit that was not read.
THEOREM MoreStaysHonest == Spec => []MoreIsHonest
<1>1. Inv => MoreIsHonest
  <2> SUFFICES ASSUME Inv, mode = "READ_MODE"
               PROVE  More <=> packet # << >> \/ \E i \in 1..Len(Stream) : Stream[i]
    BY DEF MoreIsHonest
  <2>1. CASE packet # << >>
    BY <2>1 DEF More
  <2>2. CASE packet = << >>
    <3>1. /\ buffer \in Word /\ buffer_size \in 0..BUFFER_CAPACITY
          /\ \A x \in buffer : x >= BUFFER_CAPACITY - buffer_size
      BY DEF Inv, TypeOK, SpareBitsClear
    <3>2. buffer_size \in Nat
      BY <3>1, CapacityAssumption
    <3>3. Stream = HighBits(buffer, buffer_size) \o << >>
      BY <2>2, NoPacketBits DEF Stream
    <3>4. Stream = HighBits(buffer, buffer_size) /\ Len(Stream) = buffer_size
      BY <3>2, <3>3, HighBitsType
    <3> QED
      BY <2>2, <3>1, <3>4, OnesAreData DEF More
  <2> QED
    BY <2>1, <2>2
<1> QED
  BY <1>1, InvHolds, PTL

-----------------------------------------------------------------------------
(* Bit sequences.                                                          *)

FieldBits(v, n) == Queue!FieldBits(v, n)
ValueOf(s) == Queue!ValueOf(s)

\* Element i of the first n bits of a word is position BUFFER_CAPACITY - i.
LEMMA HighBitsBits ==
  ASSUME NEW w, NEW n \in Nat
  PROVE  /\ HighBits(w, n) \in Seq(BOOLEAN)
         /\ Len(HighBits(w, n)) = n
         /\ \A i \in 1..n : HighBits(w, n)[i] = ((BUFFER_CAPACITY - i) \in w)
BY DEF HighBits

\* Element i of the bits of a field of n bits is position n - i of its value.
LEMMA FieldBitsBits ==
  ASSUME NEW v, NEW n \in Nat
  PROVE  /\ FieldBits(v, n) \in Seq(BOOLEAN)
         /\ Len(FieldBits(v, n)) = n
         /\ \A i \in 1..n : FieldBits(v, n)[i] = ((n - i) \in v)
BY DEF FieldBits, Queue!FieldBits

\* The bits of a packet are those of its words, from the highest to the lowest.
LEMMA PacketBitsBits ==
  ASSUME NEW ws \in Seq(Word)
  PROVE  /\ PacketBits(ws) \in Seq(BOOLEAN)
         /\ Len(PacketBits(ws)) = BUFFER_CAPACITY * Len(ws)
         /\ \A i \in 1 .. BUFFER_CAPACITY * Len(ws) :
              PacketBits(ws)[i] =
                ((BUFFER_CAPACITY - 1 - ((i - 1) % BUFFER_CAPACITY))
                   \in ws[((i - 1) \div BUFFER_CAPACITY) + 1])
<1> DEFINE n == BUFFER_CAPACITY * Len(ws)
           bit(i) == (BUFFER_CAPACITY - 1 - ((i - 1) % BUFFER_CAPACITY))
                        \in ws[((i - 1) \div BUFFER_CAPACITY) + 1]
<1>1. n \in Nat
  BY CapacityAssumption
<1>2. PacketBits(ws) = [i \in 1..n |-> bit(i)]
  BY DEF PacketBits
<1>3. \A i \in 1..n : bit(i) \in BOOLEAN
  OBVIOUS
<1> HIDE DEF bit, n
<1>4. /\ PacketBits(ws) \in Seq(BOOLEAN)
      /\ Len(PacketBits(ws)) = n
      /\ \A i \in 1..n : PacketBits(ws)[i] = bit(i)
  BY <1>1, <1>2, <1>3
<1> QED
  BY <1>4 DEF bit, n

\* Bits of words, fields and packets are sequences of bits.
LEMMA BitTypes ==
  /\ \A w : \A n \in Nat : HighBits(w, n) \in Seq(BOOLEAN)
  /\ \A v : \A n \in Nat : FieldBits(v, n) \in Seq(BOOLEAN)
  /\ \A ws \in Seq(Word) : PacketBits(ws) \in Seq(BOOLEAN)
<1>1. \A w : \A n \in Nat : HighBits(w, n) \in Seq(BOOLEAN)
  BY HighBitsBits
<1>2. \A v : \A n \in Nat : FieldBits(v, n) \in Seq(BOOLEAN)
  BY FieldBitsBits
<1>3. \A ws \in Seq(Word) : PacketBits(ws) \in Seq(BOOLEAN)
  BY PacketBitsBits
<1> QED
  BY <1>1, <1>2, <1>3

\* A sequence is the concatenation of two others if it has their lengths and
\* their elements.
LEMMA SplitBits ==
  ASSUME NEW s \in Seq(BOOLEAN), NEW h \in Seq(BOOLEAN), NEW f \in Seq(BOOLEAN),
         Len(s) = Len(h) + Len(f),
         \A i \in 1 .. Len(h) : s[i] = h[i],
         \A i \in 1 .. Len(f) : s[Len(h) + i] = f[i]
  PROVE  s = h \o f
<1>1. /\ h \o f \in Seq(BOOLEAN) /\ Len(h \o f) = Len(h) + Len(f)
      /\ \A i \in 1 .. Len(h) : (h \o f)[i] = h[i]
      /\ \A i \in Len(h) + 1 .. Len(h) + Len(f) : (h \o f)[i] = f[i - Len(h)]
  OBVIOUS
<1>2. ASSUME NEW i \in 1 .. Len(s)
      PROVE  s[i] = (h \o f)[i]
  <2>1. CASE i \in 1 .. Len(h)
    BY <1>1, <2>1
  <2>2. CASE i \in Len(h) + 1 .. Len(h) + Len(f)
    <3>1. i - Len(h) \in 1 .. Len(f) /\ Len(h) + (i - Len(h)) = i
      BY <2>2
    <3>2. s[i] = f[i - Len(h)]
      BY <3>1
    <3> QED
      BY <1>1, <2>2, <3>2
  <2>3. i \in 1 .. Len(h) \/ i \in Len(h) + 1 .. Len(h) + Len(f)
    OBVIOUS
  <2> QED
    BY <2>1, <2>2, <2>3
<1> QED
  BY <1>1, <1>2, SeqEqual

\* Word and position of bit i of a packet.
LEMMA DivMod ==
  ASSUME NEW C \in Nat \ {0}, NEW k \in Nat, NEW r \in 0 .. C - 1
  PROVE  (C * k + r) \div C = k /\ (C * k + r) % C = r
OBVIOUS

\* The number of the word of a bit is below the number of words.
LEMMA DivModBound ==
  ASSUME NEW C \in Nat \ {0}, NEW n \in Nat, NEW x \in Nat, x < C * n
  PROVE  /\ x \div C \in 0 .. n - 1
         /\ x % C \in 0 .. C - 1
         /\ x = C * (x \div C) + (x % C)
OBVIOUS

\* A word stored at the back of the packet appends its bits.
LEMMA PacketBitsAppend ==
  ASSUME NEW ws \in Seq(Word), NEW w \in Word
  PROVE  PacketBits(Append(ws, w)) = PacketBits(ws) \o HighBits(w, BUFFER_CAPACITY)
<1> DEFINE C == BUFFER_CAPACITY
           n == Len(ws)
           N == C * n
           aw == Append(ws, w)
           s == PacketBits(aw)
           p == PacketBits(ws)
           h == HighBits(w, C)
<1>1. C \in Nat \ {0} /\ n \in Nat /\ N \in Nat
  BY CapacityAssumption
<1>2. /\ aw \in Seq(Word) /\ Len(aw) = n + 1
      /\ \A j \in 1..n : aw[j] = ws[j]
      /\ aw[n + 1] = w
  OBVIOUS
<1>3. C * (n + 1) = N + C
  BY <1>1
<1>4. /\ s \in Seq(BOOLEAN) /\ Len(s) = N + C
      /\ \A i \in 1 .. N + C :
           s[i] = ((C - 1 - ((i - 1) % C)) \in aw[((i - 1) \div C) + 1])
  BY <1>2, <1>3, PacketBitsBits
<1>5. /\ p \in Seq(BOOLEAN) /\ Len(p) = N
      /\ \A i \in 1 .. N :
           p[i] = ((C - 1 - ((i - 1) % C)) \in ws[((i - 1) \div C) + 1])
  BY PacketBitsBits
<1>6. /\ h \in Seq(BOOLEAN) /\ Len(h) = C
      /\ \A i \in 1..C : h[i] = ((C - i) \in w)
  BY <1>1, HighBitsBits
<1>9. \A x \in Nat : x < N => (x \div C) \in 0 .. n - 1
  BY <1>1, DivModBound
<1>10. \A j \in 0 .. C - 1 : (N + j) \div C = n /\ (N + j) % C = j
  BY <1>1, DivMod
<1> HIDE DEF C, n, N, aw, s, p, h
<1>7. ASSUME NEW i \in 1 .. N
      PROVE  s[i] = p[i]
  <2>1. i - 1 \in Nat /\ i - 1 < N /\ i \in 1 .. N + C
    BY <1>1
  <2>2. (i - 1) \div C \in 0 .. n - 1
    BY <1>9, <2>1
  <2>3. aw[((i - 1) \div C) + 1] = ws[((i - 1) \div C) + 1]
    BY <1>1, <1>2, <2>2
  <2> QED
    BY <1>4, <1>5, <2>1, <2>3
<1>8. ASSUME NEW j \in 1..C
      PROVE  s[N + j] = h[j]
  <2> DEFINE i == N + j
  <2>1. /\ j - 1 \in 0 .. C - 1 /\ i - 1 = N + (j - 1)
        /\ C - 1 - (j - 1) = C - j /\ i \in 1 .. N + C
    BY <1>1
  <2> HIDE DEF i
  <2>2. (i - 1) \div C = n /\ (i - 1) % C = j - 1
    BY <1>10, <2>1
  <2>3. s[i] = ((C - j) \in w)
    BY <1>2, <1>4, <2>1, <2>2
  <2>4. h[j] = ((C - j) \in w)
    BY <1>6
  <2>5. s[i] = h[j]
    BY <2>3, <2>4
  <2> QED
    BY <2>5 DEF i
<1>11. s = p \o h
  <2>1. \A i \in 1 .. Len(p) : s[i] = p[i]
    BY <1>5, <1>7, Zenon
  <2>2. \A j \in 1 .. Len(h) : s[Len(p) + j] = h[j]
    BY <1>5, <1>6, <1>8, Zenon
  <2>3. Len(s) = Len(p) + Len(h)
    BY <1>4, <1>5, <1>6
  <2> QED
    BY <1>4, <1>5, <1>6, <2>1, <2>2, <2>3, SplitBits
<1> QED
  BY <1>11 DEF s, p, h, aw, C

\* The bits of the first word come before those of the others.
LEMMA PacketBitsTail ==
  ASSUME NEW ws \in Seq(Word), ws # << >>
  PROVE  PacketBits(ws) = HighBits(Head(ws), BUFFER_CAPACITY) \o PacketBits(Tail(ws))
<1> DEFINE C == BUFFER_CAPACITY
           n == Len(Tail(ws))
           N == C * n
           w == Head(ws)
           tl == Tail(ws)
           s == PacketBits(ws)
           p == PacketBits(tl)
           h == HighBits(w, C)
<1>1. C \in Nat \ {0} /\ n \in Nat /\ N \in Nat
  BY CapacityAssumption
<1>2. /\ tl \in Seq(Word) /\ Len(ws) = n + 1
      /\ w = ws[1]
      /\ \A j \in 1..n : tl[j] = ws[j + 1]
  OBVIOUS
<1>3. C * (n + 1) = C + N
  BY <1>1
<1>4. /\ s \in Seq(BOOLEAN) /\ Len(s) = C + N
      /\ \A i \in 1 .. C + N :
           s[i] = ((C - 1 - ((i - 1) % C)) \in ws[((i - 1) \div C) + 1])
  BY <1>2, <1>3, PacketBitsBits
<1>5. /\ p \in Seq(BOOLEAN) /\ Len(p) = N
      /\ \A i \in 1 .. N :
           p[i] = ((C - 1 - ((i - 1) % C)) \in tl[((i - 1) \div C) + 1])
  BY <1>2, PacketBitsBits
<1>6. /\ h \in Seq(BOOLEAN) /\ Len(h) = C
      /\ \A i \in 1..C : h[i] = ((C - i) \in w)
  BY <1>1, HighBitsBits
<1>7. \A x \in Nat : x < N => (x \div C) \in 0 .. n - 1
  BY <1>1, DivModBound
<1>8. \A j \in 0 .. C - 1 : j \div C = 0 /\ j % C = j
  <2>1. \A j \in 0 .. C - 1 : (C * 0 + j) \div C = 0 /\ (C * 0 + j) % C = j
    BY <1>1, DivMod
  <2>2. \A j \in 0 .. C - 1 : C * 0 + j = j
    BY <1>1
  <2> QED
    BY <2>1, <2>2
<1>9. ASSUME NEW x \in Nat
      PROVE  (C + x) \div C = (x \div C) + 1 /\ (C + x) % C = x % C
  <2> DEFINE k == x \div C
             r == x % C
  <2>1. k \in Nat /\ r \in 0 .. C - 1 /\ x = C * k + r
    BY <1>1
  <2>2. \A m \in Nat, j \in 0 .. C - 1 : (C * m + j) \div C = m /\ (C * m + j) % C = j
    BY <1>1, DivMod
  <2> HIDE DEF k, r, C
  <2>3. k + 1 \in Nat /\ C + x = C * (k + 1) + r
    BY <1>1, <2>1
  <2>4. (C * (k + 1) + r) \div C = k + 1 /\ (C * (k + 1) + r) % C = r
    BY <2>1, <2>2, <2>3
  <2> QED
    BY <2>3, <2>4 DEF k, r
<1> HIDE DEF C, n, N, w, tl, s, p, h
<1>10. ASSUME NEW i \in 1 .. C
       PROVE  s[i] = h[i]
  <2>1. /\ i - 1 \in 0 .. C - 1 /\ i \in 1 .. C + N
        /\ C - 1 - (i - 1) = C - i
    BY <1>1
  <2>2. (i - 1) \div C = 0 /\ (i - 1) % C = i - 1
    BY <1>8, <2>1
  <2>3. s[i] = ((C - i) \in w)
    BY <1>2, <1>4, <2>1, <2>2
  <2> QED
    BY <1>6, <2>3
<1>11. ASSUME NEW j \in 1..N
       PROVE  s[C + j] = p[j]
  <2> DEFINE i == C + j
             x == j - 1
  <2>1. x \in Nat /\ x < N /\ i - 1 = C + x /\ i \in 1 .. C + N
    BY <1>1
  <2>2. (i - 1) \div C = (x \div C) + 1 /\ (i - 1) % C = x % C
    BY <1>9, <2>1
  <2>3. x \div C \in 0 .. n - 1
    BY <1>7, <2>1
  <2>4. tl[(x \div C) + 1] = ws[(x \div C) + 1 + 1]
    BY <1>1, <1>2, <2>3
  <2>5. s[i] = ((C - 1 - (x % C)) \in ws[(x \div C) + 1 + 1])
    BY <1>4, <2>1, <2>2
  <2>6. p[j] = ((C - 1 - (x % C)) \in tl[(x \div C) + 1])
    BY <1>5
  <2> HIDE DEF i, x
  <2>7. s[i] = p[j]
    BY <2>4, <2>5, <2>6
  <2> QED
    BY <2>7 DEF i
<1>12. s = h \o p
  <2>1. \A i \in 1 .. Len(h) : s[i] = h[i]
    BY <1>6, <1>10, Zenon
  <2>2. \A j \in 1 .. Len(p) : s[Len(h) + j] = p[j]
    BY <1>5, <1>6, <1>11, Zenon
  <2>3. Len(s) = Len(h) + Len(p)
    BY <1>4, <1>5, <1>6
  <2> QED
    BY <1>4, <1>5, <1>6, <2>1, <2>2, <2>3, SplitBits
<1> QED
  BY <1>12 DEF s, p, h, w, tl, C

-----------------------------------------------------------------------------
(* Writing: what merging a value into the open buffer, or filling it and    *)
(* starting the next one, does to the bits.                                 *)

\* A value merged into the room of the buffer appends its bits (pack32, the
\* field fits).
LEMMA MergeBits ==
  ASSUME NEW b \in Word, NEW S \in 1..BUFFER_CAPACITY, NEW n \in 1..S,
         NEW v \in SUBSET (0 .. n - 1), \A x \in b : x >= S
  PROVE  HighBits(b \cup ShiftLeft(v, S - n), BUFFER_CAPACITY - (S - n))
           = HighBits(b, BUFFER_CAPACITY - S) \o FieldBits(v, n)
<1> DEFINE C == BUFFER_CAPACITY
           m == b \cup ShiftLeft(v, S - n)
           s == HighBits(m, C - (S - n))
           h == HighBits(b, C - S)
           f == FieldBits(v, n)
<1>1. /\ C \in Nat \ {0} /\ S \in 1..C /\ n \in 1..S
      /\ C - S \in Nat /\ C - (S - n) = C - S + n /\ n \in Nat
  BY CapacityAssumption
<1>2. /\ s \in Seq(BOOLEAN) /\ Len(s) = C - S + n
      /\ \A i \in 1 .. C - S + n : s[i] = ((C - i) \in m)
  <2>1. C - (S - n) \in Nat
    BY <1>1
  <2> QED
    BY <1>1, <2>1, HighBitsBits
<1>3. /\ h \in Seq(BOOLEAN) /\ Len(h) = C - S
      /\ \A i \in 1 .. C - S : h[i] = ((C - i) \in b)
  BY <1>1, HighBitsBits
<1>4. /\ f \in Seq(BOOLEAN) /\ Len(f) = n
      /\ \A i \in 1..n : f[i] = ((n - i) \in v)
  BY <1>1, FieldBitsBits
<1>5. ASSUME NEW i \in 1 .. C - S
      PROVE  s[i] = h[i]
  <2>1. (C - i) \in m <=> (C - i) \in b
    BY <1>1 DEF ShiftLeft
  <2>2. i \in 1 .. C - S + n
    BY <1>1
  <2> HIDE DEF m, s, h, C
  <2> QED
    BY <1>2, <1>3, <2>1, <2>2
<1>6. ASSUME NEW k \in 1..n
      PROVE  s[C - S + k] = f[k]
  <2> DEFINE i == C - S + k
  <2>1. /\ C - i \in 0 .. C - 1 /\ C - i < S
        /\ C - i - (S - n) = n - k /\ i \in 1 .. C - S + n
    BY <1>1
  <2>2. (C - i) \in m <=> (n - k) \in v
    BY <1>1, <2>1 DEF ShiftLeft, BitPositions
  <2>3. s[i] = ((C - i) \in m) /\ f[k] = ((n - k) \in v)
    BY <1>2, <1>4, <2>1
  <2> QED
    BY <2>2, <2>3
<1> HIDE DEF C, m, s, h, f
<1>7. s = h \o f
  <2>1. \A k \in 1 .. Len(f) : s[Len(h) + k] = f[k]
    BY <1>3, <1>4, <1>6, Zenon
  <2>2. \A i \in 1 .. Len(h) : s[i] = h[i]
    BY <1>3, <1>5, Zenon
  <2>3. Len(s) = Len(h) + Len(f)
    BY <1>2, <1>3, <1>4
  <2> QED
    BY <1>2, <1>3, <1>4, <2>1, <2>2, <2>3, SplitBits
<1> QED
  BY <1>7 DEF s, h, f, m, C

\* A value that spills appends its bits to the word filled up and to the next
\* one (pack32, the field does not fit).
LEMMA SpillBits ==
  ASSUME NEW b \in Word, NEW S \in 1..BUFFER_CAPACITY, NEW n \in 1..BUFFER_CAPACITY,
         NEW v \in SUBSET (0 .. n - 1), n > S, \A x \in b : x >= S
  PROVE  HighBits(b \cup ShiftRight(v, n - S), BUFFER_CAPACITY)
           \o HighBits(ShiftLeft(v \cap LowMask(n - S), BUFFER_CAPACITY - (n - S)), n - S)
           = HighBits(b, BUFFER_CAPACITY - S) \o FieldBits(v, n)
<1> DEFINE C == BUFFER_CAPACITY
           k == n - S
           m == b \cup ShiftRight(v, k)
           l == ShiftLeft(v \cap LowMask(k), C - k)
           s == HighBits(m, C)
           t == HighBits(l, k)
           h == HighBits(b, C - S)
           f == FieldBits(v, n)
           fs == FieldBits(ShiftRight(v, k), S)
<1>1. /\ C \in Nat \ {0} /\ S \in 1..C /\ n \in 1..C /\ n \in Nat /\ S \in Nat
      /\ k \in 1 .. C - 1 /\ k \in Nat /\ C - S \in Nat
      /\ C - S + S = C /\ S + k = n
  BY CapacityAssumption
<1>2. /\ s \in Seq(BOOLEAN) /\ Len(s) = C
      /\ \A i \in 1..C : s[i] = ((C - i) \in m)
  BY <1>1, HighBitsBits
<1>3. /\ t \in Seq(BOOLEAN) /\ Len(t) = k
      /\ \A i \in 1..k : t[i] = ((C - i) \in l)
  BY <1>1, HighBitsBits
<1>4. /\ h \in Seq(BOOLEAN) /\ Len(h) = C - S
      /\ \A i \in 1 .. C - S : h[i] = ((C - i) \in b)
  BY <1>1, HighBitsBits
<1>5. /\ f \in Seq(BOOLEAN) /\ Len(f) = n
      /\ \A i \in 1..n : f[i] = ((n - i) \in v)
  BY <1>1, FieldBitsBits
<1>6. /\ fs \in Seq(BOOLEAN) /\ Len(fs) = S
      /\ \A i \in 1..S : fs[i] = ((S - i) \in ShiftRight(v, k))
  BY <1>1, FieldBitsBits
<1>7. s = h \o fs
  <2>1. ASSUME NEW i \in 1 .. C - S
        PROVE  s[i] = h[i]
    <3>1. (C - i) \in m <=> (C - i) \in b
      BY <1>1 DEF ShiftRight
    <3>2. i \in 1..C
      BY <1>1
    <3> HIDE DEF m, s, h, C
    <3> QED
      BY <1>2, <1>4, <3>1, <3>2
  <2>2. ASSUME NEW j \in 1..S
        PROVE  s[C - S + j] = fs[j]
    <3> DEFINE i == C - S + j
    <3>1. C - i = S - j /\ i \in 1..C /\ S - j < S
      BY <1>1
    <3>2. (C - i) \in m <=> (S - j) \in ShiftRight(v, k)
      BY <1>1, <3>1
    <3>3. s[i] = ((C - i) \in m) /\ fs[j] = ((S - j) \in ShiftRight(v, k))
      BY <1>2, <1>6, <3>1
    <3> QED
      BY <3>2, <3>3
  <2> HIDE DEF C, k, m, s, h, fs
  <2>3. \A j \in 1 .. Len(fs) : s[Len(h) + j] = fs[j]
    BY <1>4, <1>6, <2>2, Zenon
  <2>4. \A i \in 1 .. Len(h) : s[i] = h[i]
    BY <1>4, <2>1, Zenon
  <2>5. Len(s) = Len(h) + Len(fs)
    BY <1>1, <1>2, <1>4, <1>6
  <2> QED
    BY <1>2, <1>4, <1>6, <2>3, <2>4, <2>5, SplitBits
<1>8. f = fs \o t
  <2>1. ASSUME NEW i \in 1..S
        PROVE  f[i] = fs[i]
    <3>1. S - i \in 0 .. C - 1 /\ S - i + k = n - i /\ i \in 1..n
      BY <1>1
    <3>2. (n - i) \in v <=> (S - i) \in ShiftRight(v, k)
      BY <1>1, <3>1 DEF ShiftRight, BitPositions
    <3>3. f[i] = ((n - i) \in v) /\ fs[i] = ((S - i) \in ShiftRight(v, k))
      BY <1>5, <1>6, <3>1
    <3> QED
      BY <3>2, <3>3
  <2>2. ASSUME NEW j \in 1..k
        PROVE  f[S + j] = t[j]
    <3> DEFINE i == S + j
    <3>1. /\ n - i = k - j /\ i \in 1..n /\ C - j \in 0 .. C - 1
          /\ C - j - (C - k) = k - j /\ k - j \in 0 .. C - 1 /\ k - j < k
      BY <1>1
    <3>2. (n - i) \in v <=> (C - j) \in l
      BY <1>1, <3>1 DEF ShiftLeft, LowMask, BitPositions
    <3>3. f[i] = ((n - i) \in v) /\ t[j] = ((C - j) \in l)
      BY <1>3, <1>5, <3>1
    <3> QED
      BY <3>2, <3>3
  <2> HIDE DEF C, k, f, fs, t
  <2>3. \A j \in 1 .. Len(t) : f[Len(fs) + j] = t[j]
    BY <1>3, <1>6, <2>2, Zenon
  <2>4. \A i \in 1 .. Len(fs) : f[i] = fs[i]
    BY <1>6, <2>1, Zenon
  <2>5. Len(f) = Len(fs) + Len(t)
    BY <1>1, <1>3, <1>5, <1>6
  <2> QED
    BY <1>3, <1>5, <1>6, <2>3, <2>4, <2>5, SplitBits
<1> HIDE DEF C, k, m, l, s, t, h, f, fs
<1>9. s \o t = h \o f
  BY <1>3, <1>4, <1>6, <1>7, <1>8, ConcatAssociative
<1> QED
  BY <1>9 DEF s, t, h, f, m, l, k, C

-----------------------------------------------------------------------------
(* Reading: what unpacking a field, or the rest of a word and the part of   *)
(* the field in the next word, does to the bits.                            *)

\* A field read from the bits it was written as has the value it had.
LEMMA ValueBits ==
  ASSUME NEW n \in Nat, NEW v \in SUBSET (0 .. n - 1)
  PROVE  ValueOf(FieldBits(v, n)) = v
<1> DEFINE f == FieldBits(v, n)
<1>1. /\ f \in Seq(BOOLEAN) /\ Len(f) = n
      /\ \A i \in 1..n : f[i] = ((n - i) \in v)
  BY FieldBitsBits
<1>2. ValueOf(f) = {Len(f) - i : i \in {j \in 1 .. Len(f) : f[j]}}
  BY DEF ValueOf, Queue!ValueOf
<1> HIDE DEF f
<1>3. ASSUME NEW x \in v
      PROVE  x \in ValueOf(f)
  <2>1. n - x \in 1..n /\ n - (n - x) = x
    OBVIOUS
  <2>2. f[n - x]
    BY <1>1, <2>1
  <2> QED
    BY <1>1, <1>2, <2>1, <2>2
<1>4. ASSUME NEW x \in ValueOf(f)
      PROVE  x \in v
  <2>1. PICK i \in 1..n : f[i] /\ x = n - i
    BY <1>1, <1>2
  <2> QED
    BY <1>1, <2>1
<1>5. ValueOf(f) = v
  BY <1>3, <1>4
<1> QED
  BY <1>5 DEF f

\* unpack32 takes a field off the front of the unread bits and leaves the rest.
LEMMA UnpackFits ==
  ASSUME NEW b \in Word, NEW size \in 1..BUFFER_CAPACITY, NEW n \in 1..size
  PROVE  LET r == unpack32(b, size, n) IN
         /\ r.val \in SUBSET (0 .. n - 1)
         /\ HighBits(b, size) = FieldBits(r.val, n) \o HighBits(r.buffer, r.buffer_size)
<1> DEFINE C == BUFFER_CAPACITY
           val == ShiftRight(b \cap ShiftLeft(LowMask(n), C - n), C - n)
           rest == IF n = C THEN {} ELSE ShiftLeft(b, n)
           s == HighBits(b, size)
           f == FieldBits(val, n)
           h == HighBits(rest, size - n)
<1>1. /\ C \in Nat \ {0} /\ size \in 1..C /\ n \in 1..C /\ n \in Nat /\ size \in Nat
      /\ size - n \in Nat /\ C - n \in Nat /\ n <= size
  BY CapacityAssumption
<1>2. /\ unpack32(b, size, n).val = val
      /\ unpack32(b, size, n).buffer = rest
      /\ unpack32(b, size, n).buffer_size = size - n
  BY <1>1 DEF unpack32
<1>3. /\ s \in Seq(BOOLEAN) /\ Len(s) = size
      /\ \A i \in 1..size : s[i] = ((C - i) \in b)
  BY <1>1, HighBitsBits
<1>4. /\ f \in Seq(BOOLEAN) /\ Len(f) = n
      /\ \A i \in 1..n : f[i] = ((n - i) \in val)
  BY <1>1, FieldBitsBits
<1>5. /\ h \in Seq(BOOLEAN) /\ Len(h) = size - n
      /\ \A i \in 1 .. size - n : h[i] = ((C - i) \in rest)
  BY <1>1, HighBitsBits
<1>6. val \in SUBSET (0 .. n - 1)
  BY <1>1 DEF ShiftLeft, ShiftRight, LowMask, BitPositions
<1>7. ASSUME NEW i \in 1..n
      PROVE  s[i] = f[i]
  <2>1. /\ n - i \in 0 .. C - 1 /\ n - i < n /\ n - i + (C - n) = C - i
        /\ C - i \in 0 .. C - 1 /\ C - i - (C - n) = n - i /\ i \in 1..size
    BY <1>1
  <2>2. (C - i) \in b <=> (n - i) \in val
    BY <1>1, <2>1 DEF ShiftLeft, ShiftRight, LowMask, BitPositions
  <2> HIDE DEF s, f, val, C
  <2> QED
    BY <1>3, <1>4, <2>1, <2>2
<1>8. ASSUME NEW j \in 1 .. size - n
      PROVE  s[n + j] = h[j]
  <2>1. /\ n # C /\ C - j \in 0 .. C - 1 /\ C - j - n = C - (n + j)
        /\ n + j \in 1..size
    BY <1>1
  <2>2. (C - (n + j)) \in b <=> (C - j) \in rest
    BY <1>1, <2>1 DEF ShiftLeft, BitPositions
  <2> HIDE DEF s, h, rest, C
  <2> QED
    BY <1>3, <1>5, <2>1, <2>2
<1> HIDE DEF C, val, rest, s, f, h
<1>9. s = f \o h
  <2>1. \A j \in 1 .. Len(h) : s[Len(f) + j] = h[j]
    BY <1>4, <1>5, <1>8, Zenon
  <2>2. \A i \in 1 .. Len(f) : s[i] = f[i]
    BY <1>4, <1>7, Zenon
  <2>3. Len(s) = Len(f) + Len(h)
    BY <1>1, <1>3, <1>4, <1>5
  <2> QED
    BY <1>3, <1>4, <1>5, <2>1, <2>2, <2>3, SplitBits
<1>10. s = HighBits(b, size) /\ f = FieldBits(val, n) /\ h = HighBits(rest, size - n)
  BY DEF s, f, h
<1> QED
  BY <1>2, <1>6, <1>9, <1>10

\* unpack32 takes all unread bits and says how many the field still needs.
LEMMA UnpackRest ==
  ASSUME NEW b \in Word, NEW size \in 1..BUFFER_CAPACITY,
         NEW n \in 1..BUFFER_CAPACITY, n > size
  PROVE  LET r == unpack32(b, size, n) IN
         /\ r.overflow /\ r.bits = n - size
         /\ r.val \in SUBSET (0 .. size - 1)
         /\ HighBits(b, size) = FieldBits(r.val, size)
<1> DEFINE C == BUFFER_CAPACITY
           val == ShiftRight(b, C - size)
           s == HighBits(b, size)
           f == FieldBits(val, size)
<1>1. C \in Nat \ {0} /\ size \in 1..C /\ size \in Nat /\ ~(n <= size)
  BY CapacityAssumption
<1>2. /\ unpack32(b, size, n).val = val
      /\ unpack32(b, size, n).overflow
      /\ unpack32(b, size, n).bits = n - size
  BY <1>1 DEF unpack32
<1>3. /\ s \in Seq(BOOLEAN) /\ Len(s) = size
      /\ \A i \in 1..size : s[i] = ((C - i) \in b)
  BY <1>1, HighBitsBits
<1>4. /\ f \in Seq(BOOLEAN) /\ Len(f) = size
      /\ \A i \in 1..size : f[i] = ((size - i) \in val)
  BY <1>1, FieldBitsBits
<1>5. val \in SUBSET (0 .. size - 1)
  BY <1>1 DEF ShiftRight, BitPositions, Word
<1>6. ASSUME NEW i \in 1..size
      PROVE  s[i] = f[i]
  <2>1. size - i \in 0 .. C - 1 /\ size - i + (C - size) = C - i
    BY <1>1
  <2>2. (C - i) \in b <=> (size - i) \in val
    BY <1>1, <2>1 DEF ShiftRight, BitPositions
  <2> HIDE DEF s, f, val, C
  <2> QED
    BY <1>3, <1>4, <2>2
<1> HIDE DEF s, f
<1>7. s = f
  BY <1>3, <1>4, <1>6, SeqEqual
<1>8. s = HighBits(b, size) /\ f = FieldBits(val, size)
  BY DEF s, f
<1> QED
  BY <1>2, <1>5, <1>7, <1>8

\* The two parts of a field make up the field.
LEMMA JoinBits ==
  ASSUME NEW a \in Nat, NEW k \in Nat,
         NEW n \in 0 .. BUFFER_CAPACITY, a + k = n,
         NEW u \in SUBSET (0 .. a - 1), NEW v \in SUBSET (0 .. k - 1)
  PROVE  /\ ShiftLeft(u, k) \cup v \in SUBSET (0 .. n - 1)
         /\ FieldBits(ShiftLeft(u, k) \cup v, n) = FieldBits(u, a) \o FieldBits(v, k)
<1> DEFINE w == ShiftLeft(u, k) \cup v
           s == FieldBits(w, n)
           f == FieldBits(u, a)
           g == FieldBits(v, k)
<1>1. w \in SUBSET (0 .. n - 1)
  <2>1. \A x \in ShiftLeft(u, k) : x \in 0 .. n - 1
    BY CapacityAssumption DEF ShiftLeft, BitPositions
  <2>2. \A x \in v : x \in 0 .. n - 1
    OBVIOUS
  <2> QED
    BY <2>1, <2>2
<1>2. /\ s \in Seq(BOOLEAN) /\ Len(s) = n
      /\ \A i \in 1 .. n : s[i] = ((n - i) \in w)
  <2>1. n \in Nat
    BY CapacityAssumption
  <2> QED
    BY <2>1, FieldBitsBits
<1>3. /\ f \in Seq(BOOLEAN) /\ Len(f) = a
      /\ \A i \in 1..a : f[i] = ((a - i) \in u)
  BY FieldBitsBits
<1>4. /\ g \in Seq(BOOLEAN) /\ Len(g) = k
      /\ \A i \in 1..k : g[i] = ((k - i) \in v)
  BY FieldBitsBits
<1>5. ASSUME NEW i \in 1..a
      PROVE  s[i] = f[i]
  <2>1. /\ n - i \in BitPositions /\ n - i - k = a - i
        /\ n - i >= k /\ i \in 1 .. n
    BY CapacityAssumption DEF BitPositions
  <2>2. (n - i) \in w <=> (a - i) \in u
    BY <2>1 DEF ShiftLeft
  <2> HIDE DEF s, f, w
  <2> QED
    BY <1>2, <1>3, <2>1, <2>2
<1>6. ASSUME NEW j \in 1..k
      PROVE  s[a + j] = g[j]
  <2>1. n - (a + j) = k - j /\ k - j - k < 0 /\ a + j \in 1 .. n
    OBVIOUS
  <2>2. (k - j) \in w <=> (k - j) \in v
    BY <2>1 DEF ShiftLeft
  <2> HIDE DEF s, g, w
  <2> QED
    BY <1>2, <1>4, <2>1, <2>2
<1> HIDE DEF w, s, f, g
<1>7. s = f \o g
  <2>1. \A j \in 1 .. Len(g) : s[Len(f) + j] = g[j]
    BY <1>3, <1>4, <1>6, Zenon
  <2>2. \A i \in 1 .. Len(f) : s[i] = f[i]
    BY <1>3, <1>5, Zenon
  <2>3. Len(s) = Len(f) + Len(g)
    BY <1>2, <1>3, <1>4
  <2> QED
    BY <1>2, <1>3, <1>4, <2>1, <2>2, <2>3, SplitBits
<1> QED
  BY <1>1, <1>7 DEF s, f, g, w

-----------------------------------------------------------------------------
(* The steps of the buffer.                                                 *)

\* The stream is a sequence of bits.
LEMMA StreamType == Inv => Stream \in Seq(BOOLEAN)
<1> SUFFICES ASSUME Inv PROVE Stream \in Seq(BOOLEAN)
  OBVIOUS
<1>1. buffer_size \in Nat /\ BUFFER_CAPACITY - buffer_size \in Nat
  BY CapacityAssumption DEF Inv, TypeOK
<1>2. /\ PacketBits(packet) \in Seq(BOOLEAN)
      /\ HighBits(buffer, buffer_size) \in Seq(BOOLEAN)
      /\ HighBits(buffer, BUFFER_CAPACITY - buffer_size) \in Seq(BOOLEAN)
  BY <1>1, PacketBitsBits, HighBitsBits DEF Inv, TypeOK
<1> DEFINE p == PacketBits(packet)
           h == HighBits(buffer, BUFFER_CAPACITY - buffer_size)
           g == HighBits(buffer, buffer_size)
<1>3. Stream = IF mode = "WRITE_MODE" THEN p \o h ELSE g \o p
  BY DEF Stream
<1> HIDE DEF p, h, g
<1>4. p \o h \in Seq(BOOLEAN) /\ g \o p \in Seq(BOOLEAN)
  BY <1>2 DEF p, h, g
<1> QED
  BY <1>3, <1>4

\* No bits of a word are the empty sequence.
LEMMA NoBits == \A w : HighBits(w, 0) = << >>
BY DEF HighBits

\* Concatenation of bits is associative.
LEMMA JoinedBits ==
  \A a, b, c \in Seq(BOOLEAN) : (a \o b) \o c = a \o (b \o c)
BY ConcatAssociative

\* The empty sequence changes nothing that it is concatenated with.
LEMMA EmptyRight == \A s \in Seq(BOOLEAN) : s \o << >> = s /\ << >> \o s = s
OBVIOUS

\* A Write finds the stream in the buffer it opens.
LEMMA OpenedStream ==
  ASSUME Inv, mode = "WRITE_MODE"
  PROVE  Stream = PacketBits(Opened.packet)
                    \o HighBits(Opened.buffer, BUFFER_CAPACITY - Opened.size)
<1> DEFINE C == BUFFER_CAPACITY
<1>1. packet \in Seq(Word) /\ buffer \in Word
  BY DEF Inv, TypeOK
<1>2. CASE buffer_size = 0
  <2>1. Stream = PacketBits(packet) \o HighBits(buffer, C)
    BY <1>2, CapacityAssumption DEF Stream
  <2>2. Opened.packet = Append(packet, buffer) /\ Opened.buffer = {} /\ Opened.size = C
    BY <1>2 DEF Opened
  <2>3. HighBits(Opened.buffer, C - Opened.size) = << >>
    BY <2>2, NoBits, CapacityAssumption
  <2>4. PacketBits(Opened.packet) = PacketBits(packet) \o HighBits(buffer, C)
    BY <1>1, <2>2, PacketBitsAppend
  <2>5. Stream \in Seq(BOOLEAN)
    BY StreamType
  <2> QED
    BY <2>1, <2>3, <2>4, <2>5, EmptyRight
<1>3. CASE buffer_size # 0
  BY <1>3 DEF Stream, Opened
<1> QED
  BY <1>2, <1>3

\* A Write appends the bits of its field.
LEMMA WriteAppends ==
  ASSUME Inv, NEW n \in Widths, NEW v \in SUBSET (0 .. n - 1), Write(v, n)
  PROVE  Stream' = Stream \o FieldBits(v, n) /\ reg' = reg
<1> DEFINE C == BUFFER_CAPACITY
           W == Opened.packet
           B == Opened.buffer
           S == Opened.size
           p == PacketBits(W)
           h == HighBits(B, C - S)
           f == FieldBits(v, n)
<1>1. v \in Word /\ n \in 1..C
  BY FieldIsWord
<1>2. TypeOK /\ SpareBitsClear
  BY DEF Inv
<1>3. W \in Seq(Word) /\ B \in Word /\ S \in 1..C /\ C \in Nat \ {0}
  BY <1>2, OpenedType, CapacityAssumption
<1>4. mode = "WRITE_MODE" /\ mode' = "WRITE_MODE" /\ reg' = reg
  BY <1>1, <1>2, WriteCases
<1>5. \A b \in B : b >= S
  BY <1>2, <1>4, CapacityAssumption DEF Opened, SpareBitsClear
<1>6. Stream = p \o h
  BY <1>4, OpenedStream
<1>7. Stream' = PacketBits(packet') \o HighBits(buffer', C - buffer_size')
  BY <1>4 DEF Stream, PacketBits, HighBits
<1>8. p \in Seq(BOOLEAN) /\ h \in Seq(BOOLEAN) /\ f \in Seq(BOOLEAN)
  <2>1. C - S \in Nat /\ n \in Nat
    BY <1>1, <1>3
  <2> QED
    BY <1>3, <2>1, BitTypes
<1>9. (p \o h) \o f = p \o (h \o f)
  BY <1>8, JoinedBits
<1>9a. n \in 1..S => HighBits(B \cup ShiftLeft(v, S - n), C - (S - n)) = h \o f
  <2> HIDE DEF W, B, S, p
  <2> QED
    BY <1>3, <1>5, MergeBits
<1>10. CASE /\ n < S
            /\ packet' = W
            /\ buffer' = Merged(v, n).buffer
            /\ buffer_size' = Merged(v, n).size
  <2>1. buffer' = B \cup ShiftLeft(v, S - n) /\ buffer_size' = S - n
    BY <1>10 DEF Merged
  <2>2. n \in 1..S
    BY <1>1, <1>3, <1>10
  <2>3. HighBits(B \cup ShiftLeft(v, S - n), C - (S - n)) = h \o f
    BY <1>9a, <2>2
  <2>4. Stream' = p \o (h \o f)
    BY <1>7, <1>10, <2>1, <2>3
  <2> QED
    BY <1>4, <1>6, <1>9, <2>4
<1>11. CASE /\ n = S
            /\ packet' = Append(W, Merged(v, n).buffer)
            /\ buffer' = {}
            /\ buffer_size' = C
  <2> DEFINE m == B \cup ShiftLeft(v, S - n)
  <2>1. Merged(v, n).buffer = m /\ m \in Word
    BY <1>3, WordOps DEF Merged, Word
  <2>2. n \in 1..S /\ C - (S - n) = C /\ C - C = 0
    BY <1>1, <1>3, <1>11
  <2>3. HighBits(m, C - (S - n)) = h \o f
    BY <1>9a, <2>2
  <2>8. HighBits(m, C) = h \o f
    BY <2>2, <2>3
  <2>4. PacketBits(packet') = p \o (h \o f)
    BY <1>3, <1>11, <2>1, <2>8, PacketBitsAppend
  <2>5. HighBits(buffer', C - buffer_size') = << >>
    BY <1>11, <2>2, NoBits
  <2>6. p \o (h \o f) \in Seq(BOOLEAN)
    BY <1>8
  <2>7. Stream' = p \o (h \o f)
    BY <1>7, <2>4, <2>5, <2>6, EmptyRight
  <2> QED
    BY <1>4, <1>6, <1>9, <2>7
<1>12. CASE /\ n > S
            /\ packet' = Append(W, Filled(v, n))
            /\ buffer' = Spilt(v, n).buffer
            /\ buffer_size' = Spilt(v, n).size
  <2> DEFINE k == n - S
             m == B \cup ShiftRight(v, k)
             l == ShiftLeft(v \cap LowMask(k), C - k)
             t == HighBits(l, k)
  <2>1. Filled(v, n) = m /\ buffer' = l /\ buffer_size' = C - k /\ m \in Word
    BY <1>3, <1>12, WordOps DEF Filled, Spilt, Word
  <2>2. C - (C - k) = k /\ k \in Nat
    BY <1>1, <1>3, <1>12
  <2>3. HighBits(m, C) \o t = h \o f
    BY <1>1, <1>3, <1>5, <1>12, SpillBits
  <2>4. PacketBits(packet') = p \o HighBits(m, C)
    BY <1>3, <1>12, <2>1, PacketBitsAppend
  <2>5. HighBits(m, C) \in Seq(BOOLEAN) /\ t \in Seq(BOOLEAN)
    BY <1>3, <2>2, HighBitsBits
  <2>6. (p \o HighBits(m, C)) \o t = p \o (HighBits(m, C) \o t)
    BY <1>8, <2>5, JoinedBits
  <2>7. Stream' = (p \o HighBits(m, C)) \o t
    BY <1>7, <2>1, <2>2, <2>4
  <2> QED
    BY <1>4, <1>6, <1>9, <2>3, <2>6, <2>7
<1> QED
  BY <1>1, <1>2, <1>10, <1>11, <1>12, WriteCases

\* A Read finds the stream in the word it opens, if it has to, and in the rest
\* of the packet, and takes the bits of a field off its front.
LEMMA ReadTakes ==
  ASSUME Inv, NEW n \in Widths, Read(n)
  PROVE  \E v \in SUBSET (0 .. n - 1) : reg' = v /\ Stream = FieldBits(v, n) \o Stream'
<1> DEFINE C == BUFFER_CAPACITY
           refill == buffer_size = 0
           W == IF refill THEN Tail(packet) ELSE packet
           B == IF refill THEN Head(packet) ELSE buffer
           S == IF refill THEN C ELSE buffer_size
           first == unpack32(B, S, n)
           second == unpack32(Head(W), C, first.bits)
           p == PacketBits(W)
<1>1. TypeOK /\ n \in 1..C /\ n \in Nat /\ C \in Nat \ {0}
  BY WidthsAssumption, CapacityAssumption DEF Inv
<1>2. /\ mode = "READ_MODE" /\ mode' = mode
      /\ refill => packet # << >>
      /\ IF first.overflow
         THEN /\ W # << >>
              /\ packet' = Tail(W)
              /\ buffer' = second.buffer
              /\ buffer_size' = second.buffer_size
              /\ reg' = ShiftLeft(first.val, first.bits) \cup second.val
         ELSE /\ packet' = W
              /\ buffer' = first.buffer
              /\ buffer_size' = first.buffer_size
              /\ reg' = first.val
  BY DEF Read
<1>3. Stream' = HighBits(buffer', buffer_size') \o PacketBits(packet')
  BY <1>2 DEF Stream, PacketBits, HighBits
<1>4. /\ W \in Seq(Word) /\ B \in Word /\ S \in 1..C /\ S \in Nat
      /\ Stream = HighBits(B, S) \o p
  <2>1. CASE refill
    <3>1. packet \in Seq(Word) /\ packet # << >>
      BY <1>1, <1>2, <2>1 DEF TypeOK
    <3>2. Tail(packet) \in Seq(Word) /\ Head(packet) \in Word
      BY <3>1
    <3>3. Stream = << >> \o PacketBits(packet)
      BY <1>2, <2>1, NoBits DEF Stream
    <3>4. Stream = HighBits(Head(packet), C) \o PacketBits(Tail(packet))
      BY <3>1, <3>3, PacketBitsTail, PacketBitsBits, EmptyRight
    <3> QED
      BY <1>1, <2>1, <3>2, <3>4
  <2>2. CASE ~refill
    BY <1>1, <1>2, <2>2 DEF TypeOK, Stream
  <2> QED
    BY <2>1, <2>2
<1>5. (Inv)'
  BY ReadInv
<1>6. buffer_size' \in Nat /\ packet' \in Seq(Word)
  BY <1>1, <1>5 DEF Inv, TypeOK
<1> HIDE DEF C, refill, W, B, S
<1>7. CASE n <= S
  <2> DEFINE h == HighBits(first.buffer, first.buffer_size)
  <2>1. ~first.overflow /\ n \in 1..S
    BY <1>1, <1>4, <1>7 DEF unpack32
  <2>2. /\ first.val \in SUBSET (0 .. n - 1)
        /\ HighBits(B, S) = FieldBits(first.val, n) \o h
    BY <1>4, <2>1, UnpackFits DEF C
  <2>3. /\ reg' = first.val /\ packet' = W
        /\ buffer' = first.buffer /\ buffer_size' = first.buffer_size
    BY <1>2, <2>1
  <2>4. /\ FieldBits(first.val, n) \in Seq(BOOLEAN) /\ p \in Seq(BOOLEAN)
        /\ h \in Seq(BOOLEAN)
    BY <1>1, <1>4, <1>6, <2>3, FieldBitsBits, PacketBitsBits, HighBitsBits
  <2>5. Stream' = h \o p
    BY <1>3, <2>3
  <2> HIDE DEF first, h, p
  <2>6. Stream = FieldBits(first.val, n) \o (h \o p)
    BY <1>4, <2>2, <2>4, JoinedBits
  <2> QED
    BY <2>2, <2>3, <2>5, <2>6
<1>8. CASE n > S
  <2> DEFINE k == n - S
             h == HighBits(second.buffer, second.buffer_size)
             fu == FieldBits(first.val, S)
             fv == FieldBits(second.val, k)
             pt == PacketBits(Tail(W))
             w == ShiftLeft(first.val, k) \cup second.val
  <2>1. /\ first.overflow /\ first.bits = k
        /\ first.val \in SUBSET (0 .. S - 1)
        /\ HighBits(B, S) = fu
    BY <1>1, <1>4, <1>8, UnpackRest DEF C
  <2>2. k \in 1..C /\ k \in Nat /\ S + k = n /\ S + k <= C /\ C \in 1..C
    BY <1>1, <1>4, <1>8
  <2>3. W # << >> /\ Tail(W) \in Seq(Word) /\ Head(W) \in Word
    BY <1>2, <1>4, <2>1
  <2>4. second = unpack32(Head(W), C, k)
    BY <2>1
  <2>5. /\ second.val \in SUBSET (0 .. k - 1)
        /\ HighBits(Head(W), C) = fv \o h
    BY <2>2, <2>3, <2>4, UnpackFits DEF C
  <2>6. p = HighBits(Head(W), C) \o pt
    BY <1>4, <2>3, PacketBitsTail DEF C
  <2>7. /\ w \in SUBSET (0 .. n - 1)
        /\ FieldBits(w, n) = fu \o fv
    <3> HIDE DEF first, second, k
    <3>1. n \in 0 .. BUFFER_CAPACITY
      BY <1>1 DEF C
    <3>2. /\ ShiftLeft(first.val, k) \cup second.val \in SUBSET (0 .. n - 1)
          /\ FieldBits(ShiftLeft(first.val, k) \cup second.val, n)
               = FieldBits(first.val, S) \o FieldBits(second.val, k)
      <4>1. /\ S \in Nat /\ k \in Nat /\ S + k = n
            /\ first.val \in SUBSET (0 .. S - 1)
            /\ second.val \in SUBSET (0 .. k - 1)
        BY <1>4, <2>1, <2>2, <2>5
      <4> HIDE DEF w, fu, fv, h, p, pt
      <4>2. \A u \in SUBSET (0 .. S - 1), v \in SUBSET (0 .. k - 1) :
              /\ ShiftLeft(u, k) \cup v \in SUBSET (0 .. n - 1)
              /\ FieldBits(ShiftLeft(u, k) \cup v, n) = FieldBits(u, S) \o FieldBits(v, k)
        <5> HIDE DEF S
        <5> QED
          BY <3>1, <4>1, JoinBits
      <4> QED
        BY <4>1, <4>2, Zenon
    <3> QED
      BY <3>2 DEF w, fu, fv
  <2>8. /\ reg' = w /\ packet' = Tail(W)
        /\ buffer' = second.buffer /\ buffer_size' = second.buffer_size
    BY <1>2, <2>1
  <2>9. /\ fu \in Seq(BOOLEAN) /\ fv \in Seq(BOOLEAN) /\ h \in Seq(BOOLEAN)
        /\ pt \in Seq(BOOLEAN)
    BY <1>4, <1>6, <2>2, <2>3, <2>8, BitTypes
  <2>10. Stream' = h \o pt
    BY <1>3, <2>8
  <2>11. Stream = fu \o ((fv \o h) \o pt)
    BY <1>4, <2>1, <2>5, <2>6
  <2> HIDE DEF k, h, fu, fv, pt, w, first, second, p
  <2>12. fu \o ((fv \o h) \o pt) = (fu \o fv) \o (h \o pt)
    <3>1. (fv \o h) \o pt = fv \o (h \o pt)
      BY <2>9, JoinedBits
    <3>2. h \o pt \in Seq(BOOLEAN)
      BY <2>9
    <3>3. (fu \o fv) \o (h \o pt) = fu \o (fv \o (h \o pt))
      BY <2>9, <3>2, JoinedBits
    <3> QED
      BY <3>1, <3>3
  <2> QED
    BY <2>7, <2>8, <2>10, <2>11, <2>12
<1>9. n <= S \/ n > S
  BY <1>1, <1>4
<1> QED
  BY <1>7, <1>8, <1>9

\* Flush fills the last word up with zeros.
LEMMA FlushPads ==
  ASSUME Inv, Flush
  PROVE  /\ reg' = reg
         /\ \/ Stream' = Stream
            \/ \E n \in 1 .. BUFFER_CAPACITY - 1 : Stream' = Stream \o FieldBits({}, n)
<1> DEFINE C == BUFFER_CAPACITY
           S == buffer_size
           p == PacketBits(packet)
           h == HighBits(buffer, C - S)
<1>1. /\ mode = "WRITE_MODE" /\ mode' = mode /\ reg' = reg
      /\ packet' = Append(packet, buffer)
      /\ buffer' = {} /\ buffer_size' = C /\ S # C
  BY DEF Flush
<1>2. /\ packet \in Seq(Word) /\ buffer \in Word /\ S \in 0..C
      /\ C \in Nat \ {0} /\ \A b \in buffer : b >= S
  BY <1>1, CapacityAssumption DEF Inv, TypeOK, SpareBitsClear
<1>3. Stream = p \o h
  BY <1>1 DEF Stream
<1>4. PacketBits(packet') = p \o HighBits(buffer, C)
  BY <1>1, <1>2, PacketBitsAppend
<1>5. Stream' = p \o HighBits(buffer, C)
  <2>1. Stream' = PacketBits(packet') \o HighBits(buffer', C - buffer_size')
    BY <1>1 DEF Stream, PacketBits, HighBits
  <2>2. HighBits(buffer', C - buffer_size') = << >>
    BY <1>1, <1>2, NoBits
  <2>3. p \in Seq(BOOLEAN) /\ HighBits(buffer, C) \in Seq(BOOLEAN)
    BY <1>2, BitTypes
  <2>4. p \o HighBits(buffer, C) \in Seq(BOOLEAN)
    BY <2>3
  <2> QED
    BY <1>4, <2>1, <2>2, <2>4, EmptyRight
<1>6. CASE S = 0
  <2>1. C - S = C
    BY <1>2, <1>6
  <2> QED
    BY <1>1, <1>3, <1>5, <2>1
<1>7. CASE S # 0
  <2> DEFINE f == FieldBits({}, S)
  <2>1. S \in 1..C /\ S \in 1..S /\ S \in 1 .. C - 1 /\ C - (S - S) = C /\ C - S \in Nat
    BY <1>1, <1>2, <1>7
  <2>2. {} \in SUBSET (0 .. S - 1)
    OBVIOUS
  <2>3. HighBits(buffer \cup ShiftLeft({}, S - S), C - (S - S)) = h \o f
    BY <1>2, <2>1, <2>2, MergeBits
  <2>4. buffer \cup ShiftLeft({}, S - S) = buffer
    BY DEF ShiftLeft
  <2>5. Stream' = p \o (h \o f)
    BY <1>5, <2>1, <2>3, <2>4
  <2>6. p \in Seq(BOOLEAN) /\ h \in Seq(BOOLEAN) /\ f \in Seq(BOOLEAN)
    BY <1>2, <2>1, BitTypes
  <2>7. Stream' = Stream \o f
    BY <1>3, <2>5, <2>6, JoinedBits
  <2> QED
    BY <1>1, <2>1, <2>7
<1> QED
  BY <1>6, <1>7

\* Changing the mode changes no bit.
\* Changing to reading changes no bit: a flushed writer has none in the buffer.
LEMMA SetReadModeKeeps ==
  ASSUME Inv, Flushed, SetReadMode
  PROVE  Stream' = Stream /\ reg' = reg
<1> DEFINE C == BUFFER_CAPACITY
<1>1. packet \in Seq(Word) /\ packet # << >> /\ C \in Nat
  BY CapacityAssumption DEF Inv, TypeOK, SetReadMode
<1>2. Stream = PacketBits(packet)
  <2>1. Stream = PacketBits(packet) \o HighBits(buffer, C - C)
    BY DEF Flushed, Stream
  <2>2. HighBits(buffer, C - C) = << >>
    BY <1>1, NoBits
  <2> QED
    BY <1>1, <2>1, <2>2, PacketBitsBits, EmptyRight
<1>3. Stream' = HighBits(Head(packet), C) \o PacketBits(Tail(packet))
  BY DEF SetReadMode, Stream, PacketBits, HighBits
<1> QED
  BY <1>1, <1>2, <1>3, PacketBitsTail DEF SetReadMode

\* Changing to writing changes no bit: the reader holds a whole word or none.
LEMMA SetWriteModeKeeps ==
  ASSUME Inv, Reopenable, SetWriteMode
  PROVE  Stream' = Stream /\ reg' = reg
<1> DEFINE C == BUFFER_CAPACITY
           h == HighBits(buffer, buffer_size)
<1>1. /\ mode = "READ_MODE" /\ packet = << >> /\ mode' = "WRITE_MODE" /\ reg' = reg
      /\ buffer \in Word /\ C \in Nat \ {0} /\ buffer_size \in {0, C}
      /\ buffer_size \in Nat
      /\ \A b \in buffer : b >= C - buffer_size
  BY CapacityAssumption
  DEF Inv, TypeOK, SpareBitsClear, Reopenable, SetWriteMode
<1>2. h \in Seq(BOOLEAN)
  BY <1>1, HighBitsBits
<1>3. Stream = h
  <2>1. Stream = h \o << >>
    BY <1>1, NoPacketBits DEF Stream
  <2> QED
    BY <1>2, <2>1, EmptyRight
<1>4. Stream' = PacketBits(packet') \o HighBits(buffer', C - buffer_size')
  BY <1>1 DEF Stream, PacketBits, HighBits
<1>5. CASE buffer # {} /\ buffer_size = C
  <2>1. packet' = Append(<< >>, buffer) /\ buffer' = {} /\ buffer_size' = C
    BY <1>1, <1>5 DEF SetWriteMode
  <2>2. << >> \in Seq(Word) /\ C - C = 0
    BY <1>1
  <2>3. PacketBits(packet') = << >> \o HighBits(buffer, C)
    BY <1>1, <2>1, <2>2, PacketBitsAppend, NoPacketBits
  <2>4. HighBits(buffer', C - buffer_size') = << >>
    BY <2>1, <2>2, NoBits
  <2> QED
    BY <1>1, <1>2, <1>3, <1>4, <1>5, <2>3, <2>4, EmptyRight
<1>6. CASE ~(buffer # {} /\ buffer_size = C)
  <2>1. /\ packet' = << >> /\ buffer_size' = C - buffer_size
        /\ buffer' = ShiftLeft(buffer, C - buffer_size)
    BY <1>1, <1>6 DEF SetWriteMode
  <2>2. buffer = {}
    BY <1>1, <1>6 DEF Word, BitPositions
  <2>3. buffer' = buffer
    BY <2>1, <2>2 DEF ShiftLeft
  <2>4. C - buffer_size' = buffer_size
    BY <1>1, <2>1
  <2>5. Stream' = << >> \o h
    BY <1>4, <2>1, <2>3, <2>4, NoPacketBits
  <2> QED
    BY <1>1, <1>2, <1>3, <2>5, EmptyRight
<1> QED
  BY <1>5, <1>6

-----------------------------------------------------------------------------
(* The refinement.                                                          *)

\* What is at the front of the queue can be taken.
LEMMA TakeFront ==
  ASSUME NEW s \in Seq(BOOLEAN), NEW t \in Seq(BOOLEAN)
  PROVE  /\ SubSeq(s \o t, 1, Len(s)) = s
         /\ SubSeq(s \o t, Len(s) + 1, Len(s \o t)) = t
<1> DEFINE q == s \o t
           n == Len(s)
           a == SubSeq(q, 1, n)
           z == SubSeq(q, n + 1, Len(q))
<1>1. /\ q \in Seq(BOOLEAN) /\ Len(q) = n + Len(t) /\ n \in Nat
      /\ \A i \in 1..n : q[i] = s[i]
      /\ \A i \in n + 1 .. n + Len(t) : q[i] = t[i - n]
  OBVIOUS
<1> HIDE DEF q, n
<1>2. /\ a \in Seq(BOOLEAN) /\ Len(a) = n
      /\ \A i \in 1..n : a[i] = q[i]
  BY <1>1
<1>3. /\ z \in Seq(BOOLEAN) /\ Len(z) = Len(t)
      /\ \A i \in 1 .. Len(t) : z[i] = q[n + i]
  BY <1>1
<1> HIDE DEF a, z
<1>4. a = s
  BY <1>1, <1>2, SeqEqual DEF n
<1>5. \A i \in 1 .. Len(t) : q[n + i] = t[i]
  BY <1>1
<1>6. z = t
  BY <1>3, <1>5, SeqEqual
<1> QED
  BY <1>4, <1>6 DEF a, z, q, n

\* An empty buffer is an empty queue.
LEMMA InitRefines == Init => Queue!Init
<1> SUFFICES ASSUME Init PROVE Queue!Init
  OBVIOUS
<1>1. BUFFER_CAPACITY - BUFFER_CAPACITY = 0
  BY CapacityAssumption
<1>2. Stream = << >> \o << >>
  BY <1>1, NoPacketBits, NoBits DEF Init, Stream
<1>3. << >> \o << >> = << >>
  OBVIOUS
<1> QED
  BY <1>2, <1>3 DEF Init, Queue!Init

\* Every operation of the buffer is the operation of the queue, or no step.
LEMMA StepRefines == Inv /\ [Next]_vars => [Queue!Next]_<<Stream, reg>>
<1> SUFFICES ASSUME Inv, [Next]_vars
             PROVE  Queue!Next \/ UNCHANGED <<Stream, reg>>
  OBVIOUS
<1>1. ASSUME NEW n \in Widths, NEW v \in SUBSET (0 .. n - 1), Write(v, n)
      PROVE  Queue!Next
  <2>1. Queue!Put(v, n)
    BY <1>1, WriteAppends DEF Queue!Put, FieldBits
  <2> QED
    BY <1>1, <2>1 DEF Queue!Next
<1>2. CASE Flush
  <2>1. CASE Stream' = Stream
    BY <1>2, <2>1, FlushPads
  <2>2. ASSUME NEW n \in 1 .. BUFFER_CAPACITY - 1, Stream' = Stream \o FieldBits({}, n)
        PROVE  Queue!Next
    BY <1>2, <2>2, FlushPads DEF Queue!Next, Queue!Pad, FieldBits
  <2> QED
    BY <1>2, <2>1, <2>2, FlushPads
<1>3. CASE Flushed /\ SetReadMode
  BY <1>3, SetReadModeKeeps
<1>4. ASSUME NEW n \in Widths, Read(n)
      PROVE  Queue!Next
  <2>1. PICK v \in SUBSET (0 .. n - 1) : reg' = v /\ Stream = FieldBits(v, n) \o Stream'
    BY <1>4, ReadTakes
  <2>2. n \in Nat
    BY WidthsAssumption
  <2>3. /\ FieldBits(v, n) \in Seq(BOOLEAN) /\ Len(FieldBits(v, n)) = n
        /\ ValueOf(FieldBits(v, n)) = v
    BY <2>1, <2>2, FieldBitsBits, ValueBits
  <2>4. Stream' \in Seq(BOOLEAN)
    <3>1. Inv'
      BY <1>4, ReadInv
    <3>2. (Inv => Stream \in Seq(BOOLEAN))'
      BY StreamType, PTL
    <3> QED
      BY <3>1, <3>2
  <2>5. /\ SubSeq(Stream, 1, n) = FieldBits(v, n)
        /\ SubSeq(Stream, n + 1, Len(Stream)) = Stream'
    BY <2>1, <2>3, <2>4, TakeFront
  <2>6. n <= Len(Stream)
    BY <2>1, <2>2, <2>3, <2>4
  <2>7. Queue!Take(n)
    BY <2>1, <2>3, <2>5, <2>6 DEF Queue!Take, ValueOf
  <2> QED
    BY <2>7 DEF Queue!Next
<1>5. CASE Reopenable /\ SetWriteMode
  BY <1>5, SetWriteModeKeeps
<1>6. CASE UNCHANGED vars
  BY <1>6 DEF vars, Stream, PacketBits, HighBits
<1> QED
  BY <1>1, <1>2, <1>3, <1>4, <1>5, <1>6 DEF Next

\* The buffer of words is a queue of bits, whatever the size of a word and the
\* widths of the fields.
THEOREM BufferIsQueue == Spec => ImplementsQueue
<1>1. Inv /\ [Next]_vars => [Queue!Next]_<<Stream, reg>>
  BY StepRefines
<1> QED
  BY <1>1, InitRefines, InvHolds, PTL DEF Spec, ImplementsQueue, Queue!Spec
=============================================================================
