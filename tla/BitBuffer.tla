----------------------------- MODULE BitBuffer -----------------------------
(***************************************************************************)
(* class BitBuffer: packs values into a deque of words and unpacks them.   *)
(* One action per operation.  Callers obey the contract the comments and   *)
(* assertions of the class state: a value fits its field, the buffer is    *)
(* flushed before it is read, and no more is read than was written.        *)
(***************************************************************************)
EXTENDS Words, Sequences

CONSTANTS
  Widths,     \* field widths the callers use
  MaxWords    \* bound: no Write starts on a packet this long

ASSUME WidthsAssumption == Widths \subseteq 1..BUFFER_CAPACITY
ASSUME MaxWordsAssumption == MaxWords \in Nat

VARIABLES
  packet,       \* the full words, oldest first
  mode,
  buffer,       \* the word being filled or drained
  buffer_size,  \* room left (WRITE_MODE) or unread bits (READ_MODE) in buffer
  reg           \* the register the last Read fetched its value into

vars == <<packet, mode, buffer, buffer_size, reg>>

Modes == {"WRITE_MODE", "READ_MODE"}

Init ==
  /\ packet = << >>
  /\ mode = "WRITE_MODE"
  /\ buffer = {}
  /\ buffer_size = BUFFER_CAPACITY
  /\ reg = {}

-----------------------------------------------------------------------------
(* Packing.  pack32 on a buffer b with room for size bits gives the new    *)
(* buffer and its room, and the spill: a count of bits and their value.    *)
(* The result is a set because a spill of more than a word takes a shift   *)
(* that C++ leaves undefined.                                              *)

\* Faulty variant: the field is compared with the capacity, not with the room.
pack32AgainstCapacity(b, size, val, blocks) ==
  {[buffer |-> b \cup ShiftLeft(val, size - blocks),
    buffer_size |-> size - blocks,
    overflow |-> FALSE, bits |-> 0, val |-> {}]}

\* Faulty variant: the part that fits is shifted by the room, not by the spill.
pack32ShiftedByRoom(b, size, val, blocks) ==
  IF blocks <= size
  THEN {[buffer |-> b \cup ShiftLeft(val, size - blocks),
         buffer_size |-> size - blocks,
         overflow |-> FALSE, bits |-> 0, val |-> {}]}
  ELSE {[buffer |-> b \cup ShiftRight(val, size),
         buffer_size |-> 0,
         overflow |-> TRUE, bits |-> blocks - size,
         val |-> val \cap LowMask(blocks - size)]}

pack32(b, size, val, blocks) ==
  LET bits == blocks - size IN
  IF blocks <= size
  THEN {[buffer |-> b \cup ShiftLeft(val, size - blocks),
         buffer_size |-> size - blocks,
         overflow |-> FALSE, bits |-> 0, val |-> {}]}
  ELSE {[buffer |-> IF bits = BUFFER_CAPACITY THEN {} ELSE b \cup high,
         buffer_size |-> 0,
         overflow |-> TRUE, bits |-> bits, val |-> val \cap LowMask(bits)] :
           high \in ShiftRightOutcomes(val, bits)}

\* A buffer left full by the last pack32 moves to the packet at once.
Store(words, packed) ==
  IF packed.buffer_size = 0
  THEN /\ packet' = Append(words, packed.buffer)
       /\ buffer' = {}
       /\ buffer_size' = BUFFER_CAPACITY
  ELSE /\ packet' = words
       /\ buffer' = packed.buffer
       /\ buffer_size' = packed.buffer_size

Write(val, blocks) ==
  LET full  == buffer_size = 0
      words == IF full THEN Append(packet, buffer) ELSE packet
  IN /\ mode = "WRITE_MODE"
     /\ \E first \in pack32(IF full THEN {} ELSE buffer,
                            IF full THEN BUFFER_CAPACITY ELSE buffer_size,
                            val, blocks) :
          IF first.overflow
          THEN \E second \in pack32({}, BUFFER_CAPACITY, first.val, first.bits) :
                 Store(Append(words, first.buffer), second)
          ELSE Store(words, first)
     /\ UNCHANGED <<mode, reg>>

\* Faulty variant: the word is pushed and stays in the buffer.
FlushKeepingBuffer ==
  /\ mode = "WRITE_MODE"
  /\ buffer_size # BUFFER_CAPACITY
  /\ packet' = Append(packet, buffer)
  /\ buffer' = buffer
  /\ buffer_size' = BUFFER_CAPACITY
  /\ UNCHANGED <<mode, reg>>

Flush ==
  /\ mode = "WRITE_MODE"
  /\ buffer_size # BUFFER_CAPACITY
  /\ packet' = Append(packet, buffer)
  /\ buffer' = {}
  /\ buffer_size' = BUFFER_CAPACITY
  /\ UNCHANGED <<mode, reg>>

-----------------------------------------------------------------------------
(* Unpacking.  In READ_MODE the unread bits of buffer are its high ones.   *)

\* Faulty variant: a full word is "shifted out" by its width, which on x86 moves
\* nothing.
unpack32FullShift(b, size, bitsize) ==
  LET bits == bitsize - size
      gap  == BUFFER_CAPACITY - bitsize
  IN IF bitsize <= size
     THEN [val |-> ShiftRight(b \cap ShiftLeft(LowMask(bitsize), gap), gap),
           buffer |-> ShiftLeft(b, bitsize % BUFFER_CAPACITY),
           buffer_size |-> size - bitsize, overflow |-> FALSE, bits |-> 0]
     ELSE [val |-> ShiftRight(b, BUFFER_CAPACITY - size),
           buffer |-> {},
           buffer_size |-> 0, overflow |-> TRUE, bits |-> bits]

unpack32(b, size, bitsize) ==
  LET bits == bitsize - size
      gap  == BUFFER_CAPACITY - bitsize
  IN IF bitsize <= size
     THEN [val |-> ShiftRight(b \cap ShiftLeft(LowMask(bitsize), gap), gap),
           buffer |-> IF bitsize = BUFFER_CAPACITY THEN {} ELSE ShiftLeft(b, bitsize),
           buffer_size |-> size - bitsize, overflow |-> FALSE, bits |-> 0]
     ELSE [val |-> ShiftRight(b, BUFFER_CAPACITY - size),
           buffer |-> {},
           buffer_size |-> 0, overflow |-> TRUE, bits |-> bits]

\* The guards are the assertions of Read: a word is there whenever one is
\* popped from the packet.
Read(bitsize) ==
  LET refill == buffer_size = 0
      words  == IF refill THEN Tail(packet) ELSE packet
      first  == unpack32(IF refill THEN Head(packet) ELSE buffer,
                         IF refill THEN BUFFER_CAPACITY ELSE buffer_size,
                         bitsize)
      second == unpack32(Head(words), BUFFER_CAPACITY, first.bits)
  IN /\ mode = "READ_MODE"
     /\ refill => packet # << >>
     /\ IF first.overflow
        THEN /\ words # << >>
             /\ packet' = Tail(words)
             /\ buffer' = second.buffer
             /\ buffer_size' = second.buffer_size
             /\ reg' = ShiftLeft(first.val, first.bits) \cup second.val
        ELSE /\ packet' = words
             /\ buffer' = first.buffer
             /\ buffer_size' = first.buffer_size
             /\ reg' = first.val
     /\ mode' = mode

\* What Read returns: a word is left, or the rest of this one is not zero.
More == packet # << >> \/ buffer # {}

SetReadMode ==
  /\ packet # << >>
  /\ mode' = "READ_MODE"
  /\ buffer' = Head(packet)
  /\ packet' = Tail(packet)
  /\ buffer_size' = BUFFER_CAPACITY
  /\ reg' = reg

SetWriteMode ==
  /\ mode' = "WRITE_MODE"
  /\ IF buffer # {} /\ buffer_size = BUFFER_CAPACITY
     THEN /\ packet' = Append(packet, buffer)
          /\ buffer' = {}
          /\ buffer_size' = BUFFER_CAPACITY
     ELSE /\ packet' = packet
          /\ buffer_size' = BUFFER_CAPACITY - buffer_size
          /\ buffer' = ShiftLeft(buffer, BUFFER_CAPACITY - buffer_size)
  /\ reg' = reg

-----------------------------------------------------------------------------
(* The callers.                                                            *)

\* A buffer is flushed before it is opened for reading.
Flushed == mode = "WRITE_MODE" /\ buffer_size = BUFFER_CAPACITY

\* It is reopened for writing with its last word wholly read, or not read at all.
Reopenable ==
  /\ mode = "READ_MODE"
  /\ packet = << >>
  /\ buffer_size \in {0, BUFFER_CAPACITY}

Next ==
  \/ \E blocks \in Widths : \E val \in SUBSET (0 .. blocks - 1) :
        Len(packet) < MaxWords /\ Write(val, blocks)
  \/ Flush
  \/ Flushed /\ SetReadMode
  \/ \E bitsize \in Widths : Read(bitsize)
  \/ Reopenable /\ SetWriteMode

Spec == Init /\ [][Next]_vars

-----------------------------------------------------------------------------
(* Properties.                                                             *)

\* Every variable stays in its range: the room or the unread bits of the buffer
\* never wrap below zero, and a fetched value fits the register.
TypeOK ==
  /\ packet \in Seq(Word)
  /\ mode \in Modes
  /\ buffer \in Word
  /\ buffer_size \in 0 .. BUFFER_CAPACITY
  /\ reg \in Word

\* The part of buffer that holds no data is zero: the low buffer_size bits when
\* writing, all but the high buffer_size bits when reading.  pack32 relies on
\* it to merge a value with a plain or, and Read to tell that no data is left.
SpareBitsClear ==
  IF mode = "WRITE_MODE"
  THEN \A b \in buffer : b >= buffer_size
  ELSE \A b \in buffer : b >= BUFFER_CAPACITY - buffer_size

-----------------------------------------------------------------------------
(* The abstract queue behind the words.                                    *)

\* The n high bits of word w, most significant first.
HighBits(w, n) == [i \in 1..n |-> (BUFFER_CAPACITY - i) \in w]

PacketBits(words) ==
  [i \in 1 .. BUFFER_CAPACITY * Len(words) |->
     (BUFFER_CAPACITY - 1 - ((i - 1) % BUFFER_CAPACITY))
        \in words[((i - 1) \div BUFFER_CAPACITY) + 1]]

\* The bits written and not yet read, in the order they were written.
Stream ==
  IF mode = "WRITE_MODE"
  THEN PacketBits(packet) \o HighBits(buffer, BUFFER_CAPACITY - buffer_size)
  ELSE HighBits(buffer, buffer_size) \o PacketBits(packet)

\* Read's "there is more" is never wrong about data: it answers no only when
\* every bit not yet read is zero (so none is lost but padding, or fields of
\* zeros at the very end), and yes only when a word or a 1 bit is left.
MoreIsHonest ==
  mode = "READ_MODE" => (More <=> packet # << >> \/ \E i \in 1..Len(Stream) : Stream[i])

Queue == INSTANCE BitQueue WITH
  q <- Stream, MaxPad <- BUFFER_CAPACITY - 1, Field <- Widths

\* The buffer is a queue of bits: each Write appends exactly the bits of its
\* value, each Read removes and returns exactly the oldest ones, Flush adds
\* zero bits only, and switching modes moves nothing.
ImplementsQueue == Queue!Spec
=============================================================================
