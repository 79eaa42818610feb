---------------------------- MODULE InflateFile ----------------------------
(***************************************************************************)
(* BatBuffer::InflateFile: streams a compressed file back into records.    *)
(* Words are loaded one at a time; at every CHUNK_WORDS-th of them the     *)
(* loop decodes a batch of records and parks the partly read word in a     *)
(* pair of cache variables until the next batch; what is left at the end   *)
(* of the file is decoded by the tail loop.                                *)
(*                                                                         *)
(* The bit buffer returns the oldest bits of its words (BitBuffer), so a   *)
(* word is represented here by its number in the file, and what is checked *)
(* is which bits of the file every read fetches.                           *)
(***************************************************************************)
EXTENDS Integers, Sequences

CONSTANTS
  BUFFER_CAPACITY,  \* bits of a word
  NumFields,        \* Read calls it takes to decode a record
  Offset,           \* Offset[f]: bits of a record before the end of field f
  HalfFields,       \* fields after which the code asserts that there is more
  CHUNK_WORDS,      \* words between two batches (50)
  MIN_PACKET,       \* a batch needs a longer packet (7)
  Files             \* the files inflated: records compressed into one, and words
                    \* at its end that an interrupted compression never wrote

ASSUME LayoutAssumption ==
  /\ BUFFER_CAPACITY \in Nat \ {0}
  /\ NumFields \in Nat \ {0}
  /\ Offset \in [0..NumFields -> Nat]
  /\ Offset[0] = 0
  /\ \A f \in 1..NumFields : Offset[f] - Offset[f-1] \in 1..BUFFER_CAPACITY
  /\ \A f \in 0..NumFields : Offset[f] <= Offset[NumFields]
  /\ HalfFields \subseteq 1..NumFields

RecordBits == Offset[NumFields]
Width(f) == Offset[f] - Offset[f-1]

\* A record takes more than a word, and the halves of a value that follow those the
\* code asserts about are whole words.
ASSUME RecordAssumption ==
  /\ RecordBits > BUFFER_CAPACITY
  /\ \A f \in HalfFields : f < NumFields /\ Width(f + 1) = BUFFER_CAPACITY

ASSUME LoopAssumption ==
  /\ CHUNK_WORDS \in Nat \ {0}
  /\ MIN_PACKET \in Nat
  /\ Files \subseteq [records : Nat, lost : Nat]

\* A batch is longer than the packet it needs, and has the bits of as many records as
\* there are words in the packet when these are less than a record.
ASSUME BatchAssumption ==
  /\ CHUNK_WORDS > MIN_PACKET
  /\ \A n \in 0..RecordBits :
       n * BUFFER_CAPACITY < RecordBits =>
         n * RecordBits <= CHUNK_WORDS * BUFFER_CAPACITY

VARIABLES
  records, lost,            \* records compressed, and words missing at the
                            \* end of the file because the compression died
  lines_read,               \* words asked of the file so far
  packet, mode,             \* of the bit buffer
  buffer, buffer_size,      \* number of the word last taken from packet, and
                            \* its unread bits
  buffer_cache, buffer_size_cache,          \* parked while a batch is decoded
  readbuffer_cache, readbuffer_size_cache,  \* parked between batches
  first_read,
  i,                        \* counter of the batch loop
  field,                    \* field to read next
  more,                     \* result of the last Read
  emitted,                  \* records written to the output
  pc

buffers == <<packet, mode, buffer, buffer_size>>
caches == <<buffer_cache, buffer_size_cache, readbuffer_cache,
            readbuffer_size_cache, first_read>>
decoding == <<i, field, more, emitted>>
file == <<records, lost>>
vars == <<file, lines_read, buffers, caches, decoding, pc>>

\* Flush pads the last word, so a whole file is the records' bits rounded up.
WholeFile(n) == (n * RecordBits + BUFFER_CAPACITY - 1) \div BUFFER_CAPACITY
FileWords == WholeFile(records) - lost

Init ==
  /\ \E f \in Files : records = f.records /\ lost = f.lost
  /\ lost <= WholeFile(records)
  /\ lines_read = 0
  /\ packet = << >>
  /\ mode = "WRITE_MODE"
  /\ buffer = 0 /\ buffer_size = BUFFER_CAPACITY
  /\ buffer_cache = 0 /\ buffer_size_cache = BUFFER_CAPACITY
  /\ readbuffer_cache = 0 /\ readbuffer_size_cache = 0
  /\ first_read = TRUE
  /\ i = 0 /\ field = 1 /\ more = FALSE /\ emitted = 0
  /\ pc = "fill"

-----------------------------------------------------------------------------
(* The loading loop.                                                       *)

Loaded == Append(packet, lines_read + 1)

BatchDue == (lines_read + 1) % CHUNK_WORDS = 0 /\ Len(Loaded) > MIN_PACKET

LoadWord ==
  /\ pc = "fill"
  /\ lines_read < FileWords
  /\ ~BatchDue
  /\ lines_read' = lines_read + 1
  /\ packet' = Loaded
  /\ mode' = "WRITE_MODE"
  /\ UNCHANGED <<file, buffer, buffer_size, caches, decoding, pc>>

\* The first batch opens the buffer with SetReadMode, a later one with the
\* word the batch before it left unfinished.
StartBatch ==
  /\ pc = "fill"
  /\ lines_read < FileWords
  /\ BatchDue
  /\ lines_read' = lines_read + 1
  /\ mode' = "READ_MODE"
  /\ buffer_cache' = buffer
  /\ buffer_size_cache' = buffer_size
  /\ packet' = IF first_read THEN Tail(Loaded) ELSE Loaded
  /\ buffer' = IF first_read THEN Head(Loaded) ELSE readbuffer_cache
  /\ buffer_size' = IF first_read THEN BUFFER_CAPACITY ELSE readbuffer_size_cache
  /\ first_read' = FALSE
  /\ i' = 0
  /\ pc' = "batch"
  /\ UNCHANGED <<file, readbuffer_cache, readbuffer_size_cache,
                 field, more, emitted>>

\* Faulty variant: the tail is only decoded when a batch would be.
EndOfFileLongTail ==
  /\ pc = "fill"
  /\ lines_read >= FileWords
  /\ lines_read' = lines_read + 1
  /\ mode' = "READ_MODE"
  /\ buffer' = readbuffer_cache
  /\ buffer_size' = readbuffer_size_cache
  /\ pc' = IF Len(packet) > MIN_PACKET THEN "tail" ELSE "done"
  /\ UNCHANGED <<file, packet, caches, decoding>>

\* The read past the last word fails and ends the loop.
EndOfFile ==
  /\ pc = "fill"
  /\ lines_read >= FileWords
  /\ lines_read' = lines_read + 1
  /\ mode' = "READ_MODE"
  /\ buffer' = readbuffer_cache
  /\ buffer_size' = readbuffer_size_cache
  /\ pc' = IF packet # << >> THEN "tail" ELSE "done"
  /\ UNCHANGED <<file, packet, caches, decoding>>

-----------------------------------------------------------------------------
(* The batch loop: for ( i = 0; i < packet.size(); ++i ).                  *)

\* Faulty variants: as long as there is a word; for one record only.
BatchGoesOnWhileAny == Len(packet) > 0
BatchGoesOnOnce == i < 1

BatchGoesOn == i < Len(packet)

NextInBatch ==
  /\ pc = "batch"
  /\ BatchGoesOn
  /\ pc' = "batch_record"
  /\ UNCHANGED <<file, lines_read, buffers, caches, decoding>>

\* Faulty variant: the write buffer is parked instead of the read buffer.
EndBatchParkingOld ==
  /\ pc = "batch"
  /\ ~BatchGoesOn
  /\ readbuffer_cache' = buffer_cache
  /\ readbuffer_size_cache' = buffer_size_cache
  /\ buffer' = buffer_cache
  /\ buffer_size' = buffer_size_cache
  /\ pc' = "fill"
  /\ UNCHANGED <<file, lines_read, packet, mode, buffer_cache,
                 buffer_size_cache, first_read, decoding>>

EndBatch ==
  /\ pc = "batch"
  /\ ~BatchGoesOn
  /\ readbuffer_cache' = buffer
  /\ readbuffer_size_cache' = buffer_size
  /\ buffer' = buffer_cache
  /\ buffer_size' = buffer_size_cache
  /\ pc' = "fill"
  /\ UNCHANGED <<file, lines_read, packet, mode, buffer_cache,
                 buffer_size_cache, first_read, decoding>>

-----------------------------------------------------------------------------
(* Reading a field: BitBuffer::Read, with the words it pops.               *)

\* Bits of the file read so far.
Position == BUFFER_CAPACITY * buffer - buffer_size

Refill == buffer_size = 0
Bits == IF Refill THEN BUFFER_CAPACITY ELSE buffer_size
Spills == Width(field) > Bits

\* Words Read pops from the packet; its assertions demand that they are there.
Pops == (IF Refill THEN 1 ELSE 0) + (IF Spills THEN 1 ELSE 0)
CanRead == mode = "READ_MODE" /\ Pops <= Len(packet)

\* Faulty variants: bits left in the buffer count, were they only padding; the
\* packet does not count.
MoreAfterBySize(words, b, size) == {words # << >> \/ size > 0}

MoreAfterInBuffer(words, b, size) ==
  IF size = 0 \/ BUFFER_CAPACITY * b - size >= records * RecordBits THEN {FALSE}
  ELSE BOOLEAN

\* What Read may return when it leaves size unread bits of word b and these
\* words: TRUE when a word is left or the rest of b is not zero.  The padding is
\* zero; data bits may be.
MoreAfter(words, b, size) ==
  IF words # << >> THEN {TRUE}
  ELSE IF size = 0 \/ BUFFER_CAPACITY * b - size >= records * RecordBits THEN {FALSE}
  ELSE BOOLEAN

\* Faulty variant: the room of the word taken up is not counted.
FetchNoReset ==
  /\ packet' = SubSeq(packet, Pops + 1, Len(packet))
  /\ buffer' = IF Pops = 0 THEN buffer ELSE packet[Pops]
  /\ buffer_size' = Bits - Width(field)
  /\ more' \in MoreAfter(packet', buffer', buffer_size')
  /\ UNCHANGED <<file, lines_read, mode, caches>>

Fetch ==
  /\ packet' = SubSeq(packet, Pops + 1, Len(packet))
  /\ buffer' = IF Pops = 0 THEN buffer ELSE packet[Pops]
  /\ buffer_size' = (IF Spills THEN Bits + BUFFER_CAPACITY ELSE Bits) - Width(field)
  /\ more' \in MoreAfter(packet', buffer', buffer_size')
  /\ UNCHANGED <<file, lines_read, mode, caches>>

InRecord == pc \in {"batch_record", "tail"}

ReadField ==
  /\ InRecord
  /\ CanRead
  /\ field < NumFields
  /\ Fetch
  /\ field' = field + 1
  /\ UNCHANGED <<i, emitted, pc>>

\* The last field completes the record, which is written to the output.
ReadLastField ==
  /\ InRecord
  /\ CanRead
  /\ field = NumFields
  /\ Fetch
  /\ field' = 1
  /\ emitted' = emitted + 1
  /\ \/ pc = "batch_record" /\ i' = i + 1 /\ pc' = "batch"
     \/ pc = "tail" /\ i' = i /\ pc' = IF more' THEN "tail" ELSE "done"

\* An assertion of Read or unpack32 fails; without assertions front() and
\* pop_front() of an empty deque are undefined.
Underrun ==
  /\ InRecord
  /\ ~CanRead
  /\ pc' = "underrun"
  /\ UNCHANGED <<file, lines_read, buffers, caches, decoding>>

Finished == pc \in {"done", "underrun"} /\ UNCHANGED vars

Next ==
  \/ LoadWord \/ StartBatch \/ EndOfFile
  \/ NextInBatch \/ EndBatch
  \/ ReadField \/ ReadLastField \/ Underrun
  \/ Finished

Spec == Init /\ [][Next]_vars
FairSpec == Spec /\ WF_vars(Next)

-----------------------------------------------------------------------------
(* Properties.                                                             *)

\* Room and unread bits never leave 0..BUFFER_CAPACITY, in the buffer and in
\* both pairs it is parked in, and a record is decoded field by field.
TypeOK ==
  /\ lines_read \in Nat
  /\ packet \in Seq(Nat)
  /\ mode \in {"WRITE_MODE", "READ_MODE"}
  /\ buffer \in Nat /\ buffer_size \in 0..BUFFER_CAPACITY
  /\ buffer_cache \in Nat /\ buffer_size_cache \in 0..BUFFER_CAPACITY
  /\ readbuffer_cache \in Nat /\ readbuffer_size_cache \in 0..BUFFER_CAPACITY
  /\ first_read \in BOOLEAN
  /\ i \in Nat /\ field \in 1..NumFields /\ more \in BOOLEAN /\ emitted \in Nat
  /\ pc \in {"fill", "batch", "batch_record", "tail", "done", "underrun"}

\* A batch never runs out of words, not even in a file cut short: the loop's
\* test of its counter against the shrinking packet lets no record start that is
\* not all loaded.
BatchNeverStarves == pc = "batch_record" => CanRead

\* A whole file is read to its end without failing an assertion of Read.
NoUnderrun == pc = "underrun" => lost > 0

\* Every field is fetched from its own bits of the file: across batches, parked
\* words and reloads nothing is skipped, read twice or taken out of order.
Aligned ==
  InRecord => /\ Position = emitted * RecordBits + Offset[field - 1]
              /\ \A j \in 1..Len(packet) : packet[j] = buffer + j

\* On a whole file the assertions after the high half of a time and of a price
\* hold: the flag Read returned for it says that there is more.  (On a file cut
\* short one may fail; the Read of the low half would then underrun.)
HalfReadHasMore == InRecord /\ field - 1 \in HalfFields /\ lost = 0 => more

\* When a whole file is done every record was written, and none twice.
Complete == pc = "done" /\ lost = 0 => emitted = records

\* The packet stays within two batches of words, whatever the file's size:
\* the file is streamed and never loaded whole.
PacketBounded == Len(packet) <= 2 * CHUNK_WORDS

\* The loops end, on a whole file with every record written: the tail loop does
\* not miss the end of the data.
Terminates == <>(IF lost = 0 THEN pc = "done" ELSE pc \in {"done", "underrun"})
=============================================================================
