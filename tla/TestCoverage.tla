---------------------------- MODULE TestCoverage ----------------------------
(***************************************************************************)
(* The repository's own tests, run on the models: struct Runner and its     *)
(* class TestRunner.  A test is a sequence of calls on a new BatBuffer or   *)
(* SymbolTable and what it compares when they are done.                    *)
(*                                                                         *)
(* A comparison like a == b | c is one of a and b only, its result or c     *)
(* being never 0; it is made here as it is meant, but in the test of three  *)
(* values, whose packet is not the one it names and which passes for that.  *)
(***************************************************************************)
EXTENDS BatBuffer

CONSTANT TickCount   \* ticks of the longest test (100,000)

VARIABLES
  todo,         \* the tests to run, the first of them running
  step,         \* calls it has made
  status,       \* what the last pack32 returned
  vals, mores,  \* what each Read fetched and returned
  error,        \* the flag a test declares for its Reads and none of them sets
  pass, fail

tvars == <<vars, todo, step, status, vals, mores, error, pass, fail>>

-----------------------------------------------------------------------------
(* Literals.                                                               *)

\* A number given by its groups of three decimal digits as the set of its 1 bits:
\* N(<<1,995>>) is 1995.  It is computed in three digits of 16 bits.
N(groups) ==
  LET shifted(n, group) ==
        LET low  == n[1] * 1000 + group
            mid  == n[2] * 1000 + low \div 2^16
            high == n[3] * 1000 + mid \div 2^16
        IN <<low % 2^16, mid % 2^16, high % 2^16>>
      number == FoldLeft(shifted, <<0, 0, 0>>, groups)
  IN {b \in 0..47 : (number[b \div 16 + 1] \div 2^(b % 16)) % 2 = 1}

Ones(n) == Bits!LowMask(n)
Left(v, n) == Bits!ShiftLeft(v, n)
Right(v, n) == Bits!ShiftRight(v, n)

\* The double of a price, the halves of its IEEE 754 bits as numbers.
DoubleOf(high, low) == Join(N(high), N(low))
Price13_06 == DoubleOf(<<1,076,502,200>>, <<1,374,389,535>>)
Price12_56 == DoubleOf(<<1,076,436,664>>, <<1,374,389,535>>)
Price3_09  == DoubleOf(<<1,074,313,297>>, <<3,951,369,912>>)
Price27_04 == DoubleOf(<<1,077,611,069>>, <<1,889,785,610>>)
Price35_87 == DoubleOf(<<1,078,062,940>>, <<687,194,767>>)
Price8_85  == DoubleOf(<<1,075,950,387>>, <<858,993,459>>)
Price10_25 == DoubleOf(<<1,076,133,888>>, <<0>>)
Price13_12 == DoubleOf(<<1,076,510,064>>, <<2,748,779,069>>)

-----------------------------------------------------------------------------
(* Calls.                                                                  *)

W(v, size) == [op |-> "Write", val |-> v, size |-> size]
P(v, size) == [op |-> "pack32", val |-> v, size |-> size]
R(size) == [op |-> "Read", size |-> size]
Adds(names) == [n \in DOMAIN names |-> [op |-> "Add", name |-> names[n]]]

ReadBack == <<[op |-> "Flush"], [op |-> "SetReadMode"]>>
SaveAndLoad == <<[op |-> "Flush"], [op |-> "Save"], [op |-> "Load"]>>

\* A record is written by WriteTicker, WriteExchange, WriteSide, WriteCondition, twice
\* WriteTime, WritePrice and WriteShares, and read by the Read of each.
Record(number, exchange, side, condition, time, reptime, price, shares) ==
  <<number, CharBits(exchange), side, CharBits(condition), High(time), Low(time),
    High(reptime), Low(reptime), High(price), Low(price), shares>>

RecordWrites(record) == [f \in 1..NumFields |-> W(record[f], FieldSizes[f])]
RecordReads == [f \in 1..NumFields |-> R(FieldSizes[f])]

\* Records written, read back one way or the other, and compared with what they were.
RecordTest(records, back) ==
  [calls |-> FlattenSeq([n \in DOMAIN records |-> RecordWrites(records[n])])
             \o back \o FlattenSeq([n \in DOMAIN records |-> RecordReads]),
   expect |-> [vals |-> FlattenSeq(records)]]

-----------------------------------------------------------------------------
(* The tests.                                                              *)

TableTest(names, lookup) == [calls |-> Adds(names), expect |-> [lookups |-> {lookup}]]

TableTests ==
  LET order == <<"max", "top", "garden", "glass", "door">>
      other == <<"glass", "top", "garden", "max", "door">>
  IN <<TableTest(order, order),
       TableTest(<<"max", "top", "max", "garden", "top", "glass", "door", "glass",
                   "glass", "door">>, order),
       TableTest(other, other)>>

PackTest(calls, word, overflow, bits, val) ==
  [calls |-> calls,
   expect |-> [buffer |-> word,
               status |-> [overflow |-> overflow, bits |-> bits, val |-> val]]]

\* One value, packed in bits of which it needs all or fewer.
PackOneTests ==
  LET wide == N(<<4,294,945,450>>)
      all  == N(<<4,294,967,295>>)
  IN <<PackTest(<<P({}, 1)>>, {}, FALSE, 0, {}),
       PackTest(<<P(N(<<15>>), 5)>>, N(<<2,013,265,920>>), FALSE, 0, {}),
       PackTest(<<P(N(<<37>>), 6)>>, N(<<2,483,027,968>>), FALSE, 0, {}),
       PackTest(<<P(N(<<37>>), 7)>>, Left(N(<<37>>), 32 - 7), FALSE, 0, {}),
       PackTest(<<P(all, 32)>>, all, FALSE, 0, {}),
       PackTest(<<P(all, 32)>>, all, FALSE, 0, {}),
       PackTest(<<P(wide, 37)>>, Right(wide, 5), TRUE, 5, wide \cap Ones(5)),
       PackTest(<<P(wide, 41)>>, Right(wide, 9), TRUE, 9, wide \cap Ones(9)),
       PackTest(<<P(wide, 64)>>, {}, TRUE, 32, wide)>>

\* Two values, of which the second fills the buffer or spills.
PackTwo(v, v_size, w, w_size) ==
  LET spill == v_size + w_size - 32 IN
  PackTest(<<P(v, v_size), P(w, w_size)>>, Left(v, 32 - v_size) \cup Right(w, spill),
           spill > 0, spill, w \cap Ones(spill))

PackTwoTests ==
  LET wide == N(<<2,863,333,375>>)
      val  == N(<<61,865,903>>)
  IN <<PackTwo(N(<<6,577>>), 13, wide, 32),
       PackTwo(N(<<6,577>>), 15, wide, 32),
       PackTwo(N(<<442>>), 9, wide, 32),
       PackTwo(val, 26, N(<<43>>), 6),
       PackTwo(val, 26, N(<<98>>), 7),
       PackTwo(val, 26, N(<<816>>), 10)>>

WriteTest(calls, words, word, room) ==
  [calls |-> calls, expect |-> [packet |-> words, buffer |-> word, buffer_size |-> room]]

WriteTests ==
  LET v   == N(<<3,756>>)
      w   == N(<<57,483>>)
      x   == N(<<9,586>>)
      u   == N(<<15,021>>)
      big == N(<<3,982,135,763>>)
      vw  == Left(v, 32 - 12) \cup Left(w, 32 - 12 - 16)
  IN <<WriteTest(<<W(v, 12)>>, << >>, Left(v, 32 - 12), 32 - 12),
       WriteTest(<<W(big, 32)>>, <<big>>, {}, 32),
       WriteTest(<<W(v, 12), W(w, 16)>>, << >>, vw, 32 - (12 + 16)),
       [calls |-> <<W(v, 12), W(w, 16), W(N(<<8>>), 4)>>,
        expect |-> [buffer |-> {}, words |-> 1]],
       WriteTest(<<W(v, 12), W(w, 20)>>, <<Left(v, 32 - 12) \cup w>>, {}, 32),
       WriteTest(<<W(u, 14 + 25)>>, <<Right(u, 7)>>, Left(u \cap Ones(7), 32 - 7), 32 - 7),
       WriteTest(<<W(v, 12), W(w, 16), W(x, 14)>>, <<vw \cup Right(x, 10)>>,
                 Left(x \cap Ones(10), 32 - 10), 22)>>

\* H, e, l, l, o
Hello == <<N(<<72>>), N(<<101>>), N(<<108>>), N(<<108>>), N(<<111>>)>>

StringTests ==
  LET calls == [n \in 1..5 |-> W(StringValues(Hello, 5)[n], CHAR_SIZE)]
      word  == FoldLeft(LAMBDA n, c : Left(n, 8) \cup c, {}, SubSeq(Hello, 1, 4))
      last  == Left(N(<<111>>), 32 - 8)
  IN <<[calls |-> calls, expect |-> [packet |-> <<word>>, buffer |-> last]],
       [calls |-> calls \o <<[op |-> "Flush"]>>, expect |-> [packet |-> <<word, last>>]]>>

\* One value read back; that the flag is not set is compared, too.
OneRead(v, size, room, word) ==
  [calls |-> <<W(v, size)>> \o ReadBack \o <<R(size)>>,
   expect |-> [vals |-> <<v>>, buffer |-> word, buffer_size |-> room, packet |-> << >>,
               error |-> FALSE]]

ReadTests ==
  LET read5 == <<N(<<220>>), N(<<13>>), N(<<1,978>>), {}, N(<<82>>)>>
      sizes == <<8, 4, 11, 2, 7>>
  IN <<OneRead(N(<<1,995>>), 11, 21, {}),
       OneRead({}, 11, 21, {}),
       OneRead(N(<<2,863,333,375>>), 32, 0, {}),
       OneRead({}, 32, 0, {}),
       [calls |-> <<W(N(<<13>>), 4), W(N(<<220>>), 8)>> \o ReadBack \o <<R(4), R(8)>>,
        expect |-> [vals |-> <<N(<<13>>), N(<<220>>)>>]],
       [calls |-> [n \in 1..5 |-> W(read5[n], sizes[n])]
                  \o ReadBack \o [n \in 1..5 |-> R(sizes[n])],
        expect |-> [vals |-> read5, mores |-> <<TRUE, TRUE, TRUE, TRUE, FALSE>>]]>>

\* q, r, m, i, O, C and 0 are the characters 113, 114, 109, 105, 79, 67 and 48.
Record13_06(time, reptime) ==
  Record(N(<<1>>), N(<<113>>), N(<<3>>), N(<<79>>), N(time), N(reptime), Price13_06, N(<<730>>))

OneRecord == <<Record13_06(<<42,180,525,828>>, <<42,180,526,502>>)>>

OneRecordTests ==
  <<RecordTest(OneRecord, ReadBack),
    RecordTest(<<Record13_06(<<86,400,000,001>>, <<86,400,000,001>>)>>, ReadBack)>>

TwoRecords ==
  <<Record(N(<<3>>), N(<<114>>), N(<<3>>), N(<<79>>), N(<<42,180,525,828>>),
           N(<<42,180,526,502>>), Price12_56, N(<<1,102>>)),
    Record(N(<<12>>), N(<<109>>), N(<<1>>), N(<<67>>), N(<<42,180,526,503>>),
           N(<<42,180,526,672>>), Price3_09, N(<<243>>))>>

TwoRecordsTest == RecordTest(TwoRecords, ReadBack)

SavedTests == <<RecordTest(OneRecord, SaveAndLoad), RecordTest(TwoRecords, SaveAndLoad)>>

FiveRecords ==
  LET record(number, side, time, reptime, price, shares) ==
        Record(N(<<number>>), N(<<105>>), side, N(<<48>>), N(<<42,180>> \o time),
               N(<<42,180>> \o reptime), price, N(shares))
  IN <<record(1, {0}, <<550,149>>, <<550,822>>, Price27_04, <<500>>),
       record(2, {},  <<555,115>>, <<555,793>>, Price35_87, <<436>>),
       record(3, {},  <<562,216>>, <<562,892>>, Price8_85,  <<4,218>>),
       record(4, {},  <<564,054>>, <<564,732>>, Price10_25, <<7,100>>),
       record(5, {1}, <<564,198>>, <<564,812>>, Price13_12, <<540>>)>>

FiveRecordsTest == RecordTest(FiveRecords, ReadBack)

SavedFiveTest == RecordTest(FiveRecords, SaveAndLoad)

ManyTicksTest == RecordTest([n \in 1..TickCount |-> OneRecord[1]], SaveAndLoad)

Tests ==
  TableTests \o PackOneTests \o PackTwoTests \o WriteTests \o StringTests \o ReadTests
    \o OneRecordTests \o <<TwoRecordsTest>> \o SavedTests
    \o <<FiveRecordsTest, SavedFiveTest, ManyTicksTest>>

-----------------------------------------------------------------------------
(* Running them.                                                           *)

NoStatus == [overflow |-> FALSE, bits |-> 0, val |-> {}]

TInit ==
  /\ Init
  /\ todo = Tests
  /\ step = 0
  /\ status = NoStatus
  /\ vals = << >>
  /\ mores = << >>
  /\ error \in BOOLEAN
  /\ pass = 0
  /\ fail = 0

Running == todo # << >> /\ step < Len(Head(todo).calls)

call == Head(todo).calls[step + 1]
Calling(op) == Running /\ call.op = op /\ step' = step + 1

idle == <<pending, fields, ticks, inflated, todo, error, pass, fail>>

CallAdd ==
  /\ Calling("Add")
  /\ Table!Insert(call.name)
  /\ UNCHANGED <<idle, word_vars, file, phase, status, vals, mores>>

CallPack32 ==
  /\ Calling("pack32")
  /\ \E packed \in Bits!pack32(buffer, buffer_size, call.val, call.size) :
       /\ buffer' = packed.buffer
       /\ buffer_size' = packed.buffer_size
       /\ status' = [overflow |-> packed.overflow, bits |-> packed.bits, val |-> packed.val]
  /\ UNCHANGED <<idle, packet, mode, reg, table, index, file, phase, vals, mores>>

CallWrite ==
  /\ Calling("Write")
  /\ Bits!Write(call.val, call.size)
  /\ UNCHANGED <<idle, table, index, file, phase, status, vals, mores>>

\* Flush does nothing to a buffer that holds nothing.
CallFlush ==
  /\ Calling("Flush")
  /\ IF buffer_size = BUFFER_CAPACITY THEN UNCHANGED word_vars ELSE Bits!Flush
  /\ phase' = "flushed"
  /\ UNCHANGED <<idle, table, index, file, status, vals, mores>>

CallSetReadMode ==
  /\ Calling("SetReadMode")
  /\ Bits!SetReadMode
  /\ UNCHANGED <<idle, table, index, file, phase, status, vals, mores>>

CallRead ==
  /\ Calling("Read")
  /\ Bits!Read(call.size)
  /\ vals' = Append(vals, reg')
  /\ mores' = Append(mores, Bits!More')
  /\ UNCHANGED <<idle, table, index, file, phase, status>>

CallSave ==
  Calling("Save") /\ Save /\ UNCHANGED <<todo, error, pass, fail, status, vals, mores>>

\* The buffer that loads the file is a new one.
CallLoad ==
  Calling("Load") /\ Load /\ UNCHANGED <<todo, error, pass, fail, status, vals, mores>>

Observed ==
  [lookups |-> Table!Lookups, buffer |-> buffer, buffer_size |-> buffer_size,
   packet |-> packet, words |-> Len(packet), status |-> status, vals |-> vals,
   mores |-> mores, error |-> error]

Finds(expected) == \A x \in DOMAIN expected : Observed[x] = expected[x]

\* check( result, test ) counts it; the next test has a buffer and a table of its own,
\* and a flag that is not initialized.
Check ==
  /\ todo # << >>
  /\ step = Len(Head(todo).calls)
  /\ IF Finds(Head(todo).expect)
     THEN pass' = pass + 1 /\ fail' = fail
     ELSE fail' = fail + 1 /\ pass' = pass
  /\ todo' = Tail(todo)
  /\ step' = 0
  /\ packet' = << >> /\ mode' = "WRITE_MODE" /\ buffer' = {}
  /\ buffer_size' = BUFFER_CAPACITY /\ reg' = {}
  /\ Table!ClearTable
  /\ file' = << >> /\ phase' = "compress"
  /\ status' = NoStatus /\ vals' = << >> /\ mores' = << >> /\ error' \in BOOLEAN
  /\ UNCHANGED <<pending, fields, ticks, inflated>>

AllRun == todo = << >> /\ UNCHANGED tvars

TNext ==
  \/ CallAdd
  \/ CallPack32
  \/ CallWrite
  \/ CallFlush
  \/ CallSetReadMode
  \/ CallRead
  \/ CallSave
  \/ CallLoad
  \/ Check
  \/ AllRun

TSpec == TInit /\ [][TNext]_tvars

-----------------------------------------------------------------------------
(* Properties.                                                             *)

\* What the tests find out about the code is true of the models of it, and none stops in
\* the middle: "Everything should pass!" (README) but for the uninitialized flag, which
\* is the only thing a test can fail for.
PassesButForError ==
  todo # << >> /\ step = Len(Head(todo).calls)
  => LET expect == Head(todo).expect
     IN Finds([x \in DOMAIN expect \ {"error"} |-> expect[x]])
=============================================================================
