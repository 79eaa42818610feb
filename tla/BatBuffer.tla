----------------------------- MODULE BatBuffer -----------------------------
(***************************************************************************)
(* class BatBuffer: market ticks packed field by field into the bit buffer, *)
(* streamed to a file, loaded back and unpacked.  Composes BitBuffer, for   *)
(* the bits, and SymbolTable, for the tickers.                             *)
(*                                                                         *)
(* Numbers and characters are the sets of their 1 bits, as words are.  The  *)
(* price is the double of its text: its 64 bits are what is packed.         *)
(***************************************************************************)
EXTENDS Integers, Sequences, SequencesExt

CONSTANTS
  BUFFER_CAPACITY, TICKER_SIZE, SIDE_SIZE, SHARE_SIZE,   \* fieldsizes.hpp
  CHAR_SIZE,    \* bits of a character
  TIME_HIGH,    \* bits of the high half of a time
  INDEX_BITS,   \* bits of a ticker number (uint16_t)
  SIDE_BITS,    \* bits of the variable a side is packed from (uint8_t)
  Ticks,        \* the ticks compressed, MarketData records
  MaxTicks      \* bound: ticks in a file

VARIABLES
  packet, mode, buffer, buffer_size, reg,   \* of the bit buffer
  table, index,                             \* of the symbol table
  pending,      \* Write calls of the running Compress: values and sizes
  file,         \* words of the compressed file
  fields,       \* fields read of the record being inflated
  ticks,        \* every tick compressed
  inflated,     \* every tick read back
  phase

word_vars == <<packet, mode, buffer, buffer_size, reg>>
vars == <<word_vars, table, index, pending, file, fields, ticks, inflated, phase>>

\* The Write calls of one tick, in order: ticker, exchange, side, condition, time
\* and reptime high and low, price high and low, shares.
FieldSizes ==
  <<TICKER_SIZE, CHAR_SIZE, SIDE_SIZE, CHAR_SIZE,
    TIME_HIGH, BUFFER_CAPACITY, TIME_HIGH, BUFFER_CAPACITY,
    BUFFER_CAPACITY, BUFFER_CAPACITY, SHARE_SIZE>>

NumFields == Len(FieldSizes)

ASSUME SizesAssumption ==
  /\ {TICKER_SIZE, SIDE_SIZE, SHARE_SIZE, CHAR_SIZE, TIME_HIGH} \subseteq 1..BUFFER_CAPACITY
  /\ SIDE_SIZE >= 2 /\ BUFFER_CAPACITY \in Nat
  /\ TICKER_SIZE <= INDEX_BITS /\ INDEX_BITS \in Nat
  /\ SIDE_BITS \in SIDE_SIZE..BUFFER_CAPACITY
  /\ MaxTicks \in Nat

\* 2^n
Power[n \in Nat] == IF n = 0 THEN 1 ELSE 2 * Power[n - 1]

\* A Write is of pending, so the bit buffer needs no bound of its own.
Bits == INSTANCE BitBuffer WITH Widths <- 1..BUFFER_CAPACITY, MaxWords <- 0

Table == INSTANCE SymbolTable WITH INDEX_RANGE <- Power[INDEX_BITS]

Init ==
  /\ Bits!Init
  /\ Table!NewTable
  /\ pending = << >>
  /\ file = << >>
  /\ fields = << >>
  /\ ticks = << >>
  /\ inflated = << >>
  /\ phase = "compress"

-----------------------------------------------------------------------------
(* Packing a tick.                                                         *)

\* The bits of a ticker number, and of a 64-bit value the halves.
NumberBits(n) == {b \in 0 .. INDEX_BITS - 1 : (n \div Power[b]) % 2 = 1}
High(v) == {b - BUFFER_CAPACITY : b \in {c \in v : c >= BUFFER_CAPACITY}}
Low(v) == v \cap Bits!BitPositions

\* A character is signed: widened to a word, its top bit fills the rest.
CharBits(c) ==
  c \cup (IF CHAR_SIZE - 1 \in c THEN CHAR_SIZE .. BUFFER_CAPACITY - 1 ELSE {})

\* Faulty variant: padding follows the string.
StringValuesPadLast(chars, size) ==
  [n \in 1..size |-> IF n > Len(chars) THEN {5} ELSE CharBits(chars[n])]

\* The characters WriteString writes: spaces in front up to the size, then the string.
StringValues(chars, size) ==
  LET pad == size - Len(chars) IN
  [n \in 1..size |-> IF n <= pad THEN {5} ELSE CharBits(chars[n - pad])]

\* Faulty variant: the codes begin with 1.
SideCodeFromOne == [B |-> {0}, A |-> {1}, T |-> {0, 1}]

SideCode == [B |-> {}, A |-> {0}, T |-> {1}]

\* Faulty variant: what is packed of an unknown side is a whole word.
SideCodesOfWord(side) ==
  IF side \in DOMAIN SideCode THEN {SideCode[side]} ELSE SUBSET (0 .. BUFFER_CAPACITY - 1)

\* What a side is packed as.  Of any other character than the three the switch sets
\* nothing: without assertions the variable is packed as it was, wider than the field.
SideCodes(side) ==
  IF side \in DOMAIN SideCode THEN {SideCode[side]} ELSE SUBSET (0 .. SIDE_BITS - 1)

\* The values a tick is written as, the ticker being the number it has.
Values(md, number, side) ==
  <<NumberBits(number), CharBits(md.exchange), side,
    CharBits(md.condition), High(md.time), Low(md.time), High(md.reptime),
    Low(md.reptime), High(md.price), Low(md.price), md.size>>

Compress(md) ==
  /\ phase = "compress"
  /\ pending = << >>
  /\ Len(ticks) < MaxTicks
  /\ Table!Insert(md.ticker)
  /\ \E side \in SideCodes(md.side) :
       pending' = Zip(Values(md, Table!NumberOf(md.ticker), side), FieldSizes)
  /\ ticks' = Append(ticks, md)
  /\ UNCHANGED <<word_vars, file, fields, inflated, phase>>

\* With assertions an unknown side ends the program, its ticker and exchange written.
AssertSide ==
  /\ phase = "compress"
  /\ Len(pending) = NumFields - 2
  /\ Last(ticks).side \notin DOMAIN SideCode
  /\ pending' = << >>
  /\ phase' = "aborted"
  /\ UNCHANGED <<word_vars, table, index, file, fields, ticks, inflated>>

WriteField ==
  /\ pending # << >>
  /\ Bits!Write(pending[1][1], pending[1][2])
  /\ pending' = Tail(pending)
  /\ UNCHANGED <<table, index, file, fields, ticks, inflated, phase>>

-----------------------------------------------------------------------------
(* Files.                                                                  *)

\* Faulty variant: the words written stay in the packet.
WriteStreamKeepingPacket ==
  /\ phase = "compress"
  /\ pending = << >>
  /\ file' = file \o packet
  /\ UNCHANGED <<word_vars, table, index, pending, fields, ticks, inflated, phase>>

\* The full words go to the file as they come; the word being filled stays.
WriteStream ==
  /\ phase = "compress"
  /\ pending = << >>
  /\ file' = file \o packet
  /\ packet' = << >>
  /\ UNCHANGED <<mode, buffer, buffer_size, reg, table, index, pending, fields,
                 ticks, inflated, phase>>

\* Compress at the end of the input flushes the buffer.
CompressEof ==
  /\ phase = "compress"
  /\ pending = << >>
  /\ IF buffer_size = BUFFER_CAPACITY THEN UNCHANGED word_vars ELSE Bits!Flush
  /\ phase' = "flushed"
  /\ UNCHANGED <<table, index, pending, file, fields, ticks, inflated>>

CloseWriteStream ==
  /\ phase = "flushed"
  /\ file' = file \o packet
  /\ packet' = << >>
  /\ phase' = "saved"
  /\ UNCHANGED <<mode, buffer, buffer_size, reg, table, index, pending, fields,
                 ticks, inflated>>

\* Save writes a packet that was never streamed to a file of its own.
Save ==
  /\ phase = "flushed"
  /\ file = << >>
  /\ file' = packet
  /\ phase' = "saved"
  /\ UNCHANGED <<word_vars, table, index, pending, fields, ticks, inflated>>

\* Load replaces the packet and opens it; the front of an empty one is undefined.
Load ==
  /\ phase = "saved"
  /\ file # << >>
  /\ mode' = "READ_MODE"
  /\ buffer' = Head(file)
  /\ packet' = Tail(file)
  /\ buffer_size' = BUFFER_CAPACITY
  /\ phase' = "inflate"
  /\ UNCHANGED <<reg, table, index, pending, file, fields, ticks, inflated>>

-----------------------------------------------------------------------------
(* Unpacking a tick.                                                       *)

Join(high, low) == {b + BUFFER_CAPACITY : b \in high} \cup low

\* The table file gives the ticker at position number, counted from 0; past its end,
\* whatever is there.
TickerOf(lookup, number) ==
  IF \E n \in DOMAIN lookup : NumberBits(n - 1) = number
  THEN lookup[CHOOSE n \in DOMAIN lookup : NumberBits(n - 1) = number]
  ELSE "undefined"

\* sidetok[side]; past its three characters, whatever byte is there.
SideToken(code) ==
  IF \E side \in DOMAIN SideCode : SideCode[side] = code
  THEN CHOOSE side \in DOMAIN SideCode : SideCode[side] = code
  ELSE "undefined"

\* Faulty variant: time and reptime change places.
TickOfSwapped(lookup, f) ==
  [ticker |-> TickerOf(lookup, f[1]), exchange |-> f[2],
   side |-> SideToken(f[3]), condition |-> f[4],
   time |-> Join(f[7], f[8]), reptime |-> Join(f[5], f[6]),
   price |-> Join(f[9], f[10]), size |-> f[11]]

TickOf(lookup, f) ==
  [ticker |-> TickerOf(lookup, f[1]), exchange |-> f[2],
   side |-> SideToken(f[3]), condition |-> f[4],
   time |-> Join(f[5], f[6]), reptime |-> Join(f[7], f[8]),
   price |-> Join(f[9], f[10]), size |-> f[11]]

\* One Read; the last one of a record completes a tick, and whether it said
\* that there is more decides if another record is read.
ReadField ==
  /\ phase = "inflate"
  /\ Bits!Read(FieldSizes[Len(fields) + 1])
  /\ LET read == Append(fields, reg') IN
     IF Len(read) < NumFields
     THEN fields' = read /\ UNCHANGED <<inflated, phase>>
     ELSE /\ fields' = << >>
          /\ \E lookup \in Table!Lookups : inflated' = Append(inflated, TickOf(lookup, read))
          /\ phase' = IF Bits!More' THEN "inflate" ELSE "done"
  /\ UNCHANGED <<table, index, pending, file, ticks>>

\* Every record is read, or there is none to read, or the program has ended.
Finished ==
  /\ phase \in {"done", "aborted"} \/ (phase = "saved" /\ file = << >>)
  /\ UNCHANGED vars

Next ==
  \/ \E md \in Ticks : Compress(md)
  \/ AssertSide
  \/ WriteField
  \/ WriteStream
  \/ CompressEof
  \/ CloseWriteStream
  \/ Save
  \/ Load
  \/ ReadField
  \/ Finished

Spec == Init /\ [][Next]_vars

-----------------------------------------------------------------------------
(* What the callers promise.                                               *)

Tickers == {md.ticker : md \in Ticks}

\* One of the three sides, a character without its top bit (ASCII), and values that
\* fit their fields, the ticker numbers included.
TicksFit ==
  /\ Ticks \subseteq
       [ticker : Tickers, exchange : SUBSET (0 .. CHAR_SIZE - 2), side : DOMAIN SideCode,
        condition : SUBSET (0 .. CHAR_SIZE - 2),
        time : SUBSET (0 .. BUFFER_CAPACITY + TIME_HIGH - 1),
        reptime : SUBSET (0 .. BUFFER_CAPACITY + TIME_HIGH - 1),
        price : SUBSET (0 .. 2 * BUFFER_CAPACITY - 1), size : SUBSET (0 .. SHARE_SIZE - 1)]
  /\ IsFiniteSet(Tickers)
  /\ Cardinality(Tickers) <= Power[TICKER_SIZE]

-----------------------------------------------------------------------------
(* Properties.                                                             *)

\* The last three are those of a buffer used for strings (StringField).
Phases ==
  {"compress", "aborted", "flushed", "saved", "inflate", "done",
   "strings", "strings_flushed", "strings_read"}

\* The bit buffer is in range whatever fields are packed, and a record is written
\* and read in eleven fields.
TypeOK ==
  /\ Bits!TypeOK
  /\ DOMAIN table \subseteq {md.ticker : md \in Ticks}
  /\ index \in 0 .. Power[INDEX_BITS] - 1
  /\ Len(pending) <= NumFields
  /\ file \in Seq(Bits!Word)
  /\ fields \in Seq(Bits!Word) /\ Len(fields) < NumFields
  /\ ticks \in Seq(Ticks)
  /\ phase \in Phases

\* The bits of some Write calls, of a record, and of all records.
CallBits(calls) ==
  FlattenSeq([n \in DOMAIN calls |-> Bits!Queue!FieldBits(calls[n][1], calls[n][2])])

RecordOf(md) ==
  CallBits(Zip(Values(md, table[md.ticker], SideCode[md.side]), FieldSizes))

Records == FlattenSeq([n \in DOMAIN ticks |-> RecordOf(ticks[n])])

\* However the writes to the file fall between the ticks, the file, the packet and
\* the buffer hold the bits of all records one after the other, and the saved
\* file the same bits with less than a word of zeros appended.
RecordsContiguous ==
  /\ phase = "compress" =>
       Bits!PacketBits(file) \o Bits!Stream \o CallBits(pending) = Records
  /\ phase = "saved" =>
       \E n \in 0 .. BUFFER_CAPACITY - 1 :
         Bits!PacketBits(file) = Records \o Bits!Queue!FieldBits({}, n)

\* Of a file of ticks that fit their fields, each with one of the three sides, every
\* side that is read is one of the three tokens of sidetok, and every ticker number one
\* of the table: neither lookup, which InflateFile makes without looking, is out of
\* range.  With any other side of a tick, which nothing before Compress refuses, the
\* assertion of its switch is the only thing that keeps a side of 3 out of the file.
LookupsInRange ==
  phase = "inflate" =>
    /\ Len(fields) >= 1 =>
         \E n \in 0 .. Cardinality(DOMAIN table) - 1 : NumberBits(n) = fields[1]
    /\ Len(fields) >= 3 => fields[3] # {0, 1}

\* What is read back is what was compressed, field for field and tick for tick,
\* and it is all of it when reading is done: no field touches its neighbours, no
\* padding is taken for a record and no record of zeros for padding.
RoundTrip ==
  /\ IsPrefix(inflated, ticks)
  /\ phase = "done" => inflated = ticks

\* A tick with an unknown side is packed from a variable that holds anything, unmasked:
\* what of it is wider than its field lands on the field in front.  That field is the
\* exchange, of the same tick, and wide enough to take it all: every other field of
\* every tick comes back, wherever the word boundaries fall, and no record is lost.
OnlyItsExchangeIsSpoilt ==
  /\ \A n \in DOMAIN inflated : \A field \in DOMAIN ticks[n] :
       \/ inflated[n][field] = ticks[n][field]
       \/ ticks[n].side \notin DOMAIN SideCode /\ field \in {"exchange", "side"}
  /\ phase = "done" => Len(inflated) = Len(ticks)
=============================================================================
