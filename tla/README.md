# Verification of quantlab_compression

quantlab_compression packs BAT market ticks (a CSV file) into a bit stream and
unpacks them again. This directory holds TLA+ modules that model it, TLC
configurations that check them on small instances, and proofs that the TLA+
proof system checks. Line numbers below are those of `src/src/<file>`.

## The system

The program is sequential: no threads, no callbacks. What makes it hard is the
arithmetic of bits across word boundaries, state that is carried between two
loops over a file (the parked read buffer, the flag that says that there is
more), long sequences of calls that are legal one by one, files left behind by a
run that died or failed, an error flag nobody initializes or reads, and texts
that are converted to numbers and back.

| component | state | operations | correct when |
|---|---|---|---|
| `BitBuffer` (bitbuffer.hpp) | `packet` (deque of words), `buffer`, `buffer_size`, `mode` | `Write`, `Read`, `Flush`, `SetReadMode`, `SetWriteMode` | it is a first-in first-out queue of bits |
| `SymbolTable` (symboltable.hpp, symbolnode.hpp) | map of symbol to number, 16-bit counter | `Add`, `Table`, `SaveTable`, `LoadTable` | the number in the data is the position in the table file |
| `BatBuffer` (batbuffer.hpp), extends `BitBuffer` | a symbol table, an output stream | `Compress`, `Write*`/`Read*` of the fields, `OpenWriteStream`, `WriteStream`, `CloseWriteStream`, `Save`, `Load` | ticks come back as they were packed |
| `BatBuffer::InflateFile` (331-474) | the buffer, two parked copies of it, a counter of words | one loop over the words of the file, a batch loop inside it, a tail loop | every record is decoded once and from its own bits |
| `DataParser` (dataparser.hpp) | none; the caller's error flag | `GetMarketData` | a line is a tick of its own columns, or an error |
| `BatTickLoader`, `main` | the error flag; the files `compressed`, `compressed.table` | `Compress`, `Inflate`; modes c, i, b, t, a | the two files belong together and hold the whole input |
| tests (testrunner.hpp, testcoverage.hpp) | counts of passes and failures | one test after the other | what they compare is what they mean to |
| CSV checker (csv_filechecker/main.cpp) | none | two ways to read a file | it prints the fields the program parses |

`main` calls `BatTickLoader`, which parses each line with `DataParser` and gives
the tick to a `BatBuffer`. That asks its `SymbolTable` for the ticker's number
and writes eleven values into its `BitBuffer`; every ten lines the full words go
to the stream. Inflating loads the table, then reads the eleven values of each
record back while it loads the words. The tests call the classes directly; the
CSV checker is a program of its own that reads the same input.

## Modules

| module | models | lemmas and theorems |
|---|---|---|
| `Words` | a word of `BUFFER_CAPACITY` bits as the set of its 1 positions, with the shifts and masks the code applies | |
| `BitQueue` | the promise: an abstract queue of bits | |
| `BitBuffer` | class BitBuffer, one action per operation; the refinement of `BitQueue` | `BitBufferProofs` |
| `SymbolTable` | the operations of the table | |
| `TableFile` | the life of a table: added to, saved, loaded line by line, started anew | `TableFileProofs` |
| `BatBuffer` | ticks through the fields, the file and back; composes `BitBuffer` and `SymbolTable` | `BatBufferProofs` |
| `StringField` | `WriteString` and `ReadString`, beside the ticks of `BatBuffer` | `BatBufferProofs` |
| `PriceText` | the text of a price, through `std::stod` and `operator<<` and round again | `PriceTextProofs` |
| `InflateFile` | the streaming loop of `InflateFile` | `InflateFileProofs` |
| `DataParser` | `GetMarketData` token by token, in the loop that calls it; a refinement of `Loader` | `DataParserProofs` |
| `Loader` | runs of the program over its two files | `ArchiveProofs` |
| `Archive` | what is in the two files; composes `Loader` and `SymbolTable` | `ArchiveProofs` |
| `TestCoverage` | the tests of the repository, run on `BatBuffer`, `BitBuffer` and `SymbolTable` | |
| `CsvFileChecker` | both readers of the checker; compared with `DataParser` | `CsvFileCheckerProofs` |
| `MC*` | values of constants for TLC | |

### BitBuffer

Variables are the members of the class, and `reg`, the register the last `Read`
stored to. A word is a set of bit positions, so the width is exact and bits
shifted past an end are lost as in C++. `pack32` returns a set of results: a
spill of more than a word is a shift that C++ leaves undefined, and the set
holds what a shift instruction and a folded constant give. The literal 32 in the
code is `BUFFER_CAPACITY`.

`Next` obeys the contract of the class: values fit their fields, `SetReadMode`
comes after `Flush` (76), `SetWriteMode` after the last word was read whole or
not at all, and `Read` finds the words it asserts (255, 259, 269).

`Stream` is the sequence of the bits written and not yet read. `ImplementsQueue`
says that with it as the queue, every step of the buffer is a step of
`BitQueue`: `Write` appends the bits of its value, `Read` removes and returns
the oldest bits, `Flush` appends zeros, changing modes changes nothing.

### SymbolTable and TableFile

`Insert` and `NumberOf` are `Add`, with the counter modulo `INDEX_RANGE` (2^16).
`Lookups` is the set of sequences the priority queue can produce (one, as long
as numbers differ). `codes` remembers which numbers were written for which
symbols, and the properties say that the table file, and a table built or loaded
at any time, decode them. Loading is one action per line. Adding again after a
load is a sequence of calls the class allows and the program does not make.
`Symbols` may be as many as there are numbers: the counter then wraps to 0, and
the run has that case.

### BatBuffer and StringField

A tick is a record; characters, sides and numbers are sets of bits, the price is
its double. `Compress` computes the eleven values and the size of their fields
in the order the code writes them (`pending`), and `WriteField` is one `Write`
of the bit buffer. `WriteStream` may happen after any tick, more than the every
ten lines of the code. `CompressEof`, `CloseWriteStream` and `Save` end the
file, `Load` opens it, `ReadField` reads one field and, after the last, completes
a tick. A field that is signed (the characters) is sign-extended as the code's
`static_cast<uint32_t>` does. `TicksFit` is what the code takes for granted of its
input: the side is B, A or T, every value fits its field, the number of tickers
included, and characters have no top bit. The run `bat_buffer` assumes it;
`max_shares` and `unknown_side` have ticks that break it.
`LookupsInRange` is about the two lookups `InflateFile` makes unchecked, of the
ticker and of the side.

Of any other side the switch of `Compress` sets nothing (50). With assertions the
program ends there (`AssertSide`). In the Release build the README documents it
packs the 8 bits of the unset variable, unmasked, in a field of 2: `SideCodes` is
the set of all values it may have, and one that is wider lands on the field in
front. `OnlyItsExchangeIsSpoilt` says how far that goes: the exchange of the same
tick, which is wide enough to take it all. What such a side is read back as may be
a code past the three characters of `sidetok`; it is `"undefined"` in the model.

A buffer may be used for strings instead of ticks (`StringField`). `ReadString`
builds its result from the back, so a string comes back reversed with the
padding behind it: `ReversedButIntact` says so and that nothing is lost. Only
tests use strings of more than one character.

### PriceText

A price is a decimal number, a text its digits with the position of the point
and an exponent. `stod` reads a text, `ReadPrice` prints with `PRICE_PRECISION`
significant digits and chooses the scientific notation as the standard says. A
text exactly half-way may be rounded either way, since its double lies on either
side. `CompressAndInflate` takes a text through the program, again and again:
canonical texts are kept, no value moves by more than half a unit of the last
digit printed in all, and what was inflated once never changes again.

### InflateFile

`BitBuffer` is shown to be a queue, so here a word is only its number in the
file, and the model follows which bits of the file each read takes. The constants
are those of the code: 32 bits, the field sizes, batches at every 50th word
if the packet is longer than 7. `MoreAfter` is what `Read` returns: TRUE when a
word is left, FALSE when only padding is, and either when the rest of the last
word is data, which may be zeros. `Underrun` is a failed assertion of `Read`,
and with assertions off an undefined `front()`. `Files` are whole files, and
files that miss words at their end because the compression died.

### DataParser

A line is a sequence of columns; of a column only its kind matters, which is what
the conversions make of its text: empty, a word, a side, numbers that fit 32
bits, 64 or neither, a decimal. `TakeToken` is one call of `strtok` and the
conversion after it: from a position in the line, as the pointer `strtok` keeps,
it passes over empty columns. Adjacent separators so count as one, and an empty
column shifts the later ones; `ColumnsInPlace` says that a line of no more than
eight columns never makes a tick that way. `ImplementsLoader` maps a run of the
parser to a run of `Loader`: the tokens are stutters, and the end of a line is
`GoodLine`, `BadNumber`, `ShortLine` or `BadPrice`, with the error flag each
leaves.

### Loader and Archive

A file is described by the run that made it and how many of that run's lines
are in it. What an open stream buffers may or may not have reached the disk
when the process dies, as `exit`, `abort` and a kill do not destroy the
`BatBuffer`. A write may fail, and a failed stream stays failed. `failed` is
history: an output operation has failed in this run or an earlier one. The error
flag of `main` starts as either value. Mode a is t followed by b, and t touches
neither file.

`Archive` adds the contents: every good line adds its ticker to the table of the
run and its number to the data; the table file gets all the lines of the table,
or some with the last perhaps cut. `MatchingDecodes` says that a table of the
archive's own run decodes every record on disk, `SameInputDecodes` that a table
of an older run does too, if that run compressed the same ticks and perhaps
more: numbers follow from the input alone, so a run that died and is begun again
on the same input does not harm what is on disk.

### TestCoverage

Each test is the sequence of calls it makes and the values it compares; the run
makes the calls on the models, with the field sizes of the code and the numbers
of the tests. That every value compared is the expected one ties the models to
what the repository says of its code. Four tests also compare a flag `error` that
neither they nor `Read` set; it is either value (`error`), so those tests may fail:
`PassesButForError` leaves it out. A comparison like `a == b | c` compares only `a` and `b` (its result or-ed
with `c` is not 0); it is modelled as it is meant wherever that passes too.
It does not in the test of three values (351), whose packet ends in 8 where the
test names 4: there the models compare what the test can fail for.

### CsvFileChecker

`WordsOf` is `operator>>`, which ends a word at a space and passes over blank lines;
`Tokens` the splitting of a word at its commas, which sees nothing behind a comma at
the end. `rows` is what is printed (`Printed`): by `checkfile_read1` the fields of a
word up to the first bad one, by `checkfile_read2` the whole word, before it looks at
any field. `CheckWord` goes on to the next word; `RejectWord` is the three ways the
two functions react to a word that has no eight fields or a wrong number: one returns
for either, the other uses a token that is not there or dies of the exception.
`AgreesWithParser` compares the first eight columns printed with the tokens that
`DataParser` takes, and `OutOfRangeOnlyIfShort` the tokens the checker uses with them;
`ChecksEveryTick` is about files of ticks, with and without spaces in their tickers.

## Runs

| run | checks | bounds |
|---|---|---|
| bit_buffer | `TypeOK`, `SpareBitsClear`, `MoreIsHonest`, `ImplementsQueue` | words of 4 bits, all widths 1..4, `Write` starts on at most 1 full word |
| table_file | `TypeOK`, `FileDecodesData`, `TableDecodesData` | 4 symbols, 4 numbers, tickers symmetric |
| bat_buffer | `TypeOK`, `RecordsContiguous`, `LookupsInRange`, `RoundTrip`, `ReversedButIntact` | the sizes of fieldsizes.hpp, 3 ticks of 3 kinds; 3 strings of up to 3 characters and 2 spaces |
| max_shares | finding: `RoundTrip` is violated for 2^20 shares | one tick |
| unknown_side | `OnlyItsExchangeIsSpoilt` | words of 8 bits, a record of 51; 2 ticks of 3 kinds, two of them with an unknown side |
| inflate_file | `TypeOK`, `BatchNeverStarves`, `NoUnderrun`, `Aligned`, `HalfReadHasMore`, `Complete`, `PacketBounded`, `Terminates` | whole files of 0 to 40 and 346 to 361 records, up to 2144 words and 42 batches; files of up to 30 records that miss up to 15 words |
| price_text | `CanonicalKept`, `ValueKept`, `StableOnceInflated` | precision 2, texts of up to 4 digits, 5 of them after the point |
| data_parser | `TypeOK`, `ColumnsInPlace`, `WellFormedAccepted`, `ImplementsLoader` | inputs of 2 lines of 0 to 10 columns, any two of them anything |
| archive | `TypeOK`, `TableMeansWhole`, `StreamedInBatches`, `NoErrorAllStreamed`, `SuccessUnlessFailed` of `Loader`; `ATypeOK`, `MatchingDecodes`, `SameInputDecodes` | 2 runs, 4 lines, a stream write every 2, 3 symmetric tickers |
| success | finding: `SuccessIsTrue` is violated | one run, 2 lines |
| test_coverage | `PassesButForError` | all tests; the longest with 60 ticks instead of 100,000 |
| csv_checker | `ChecksEveryTick`, `AgreesWithParser`, `OutOfRangeOnlyIfShort` | files of 2 lines of 0 to 9 columns, any one of them anything |

Why the bounds are enough:

* In the bit buffer what matters is where a field ends in its word. With 4 bits
  and all widths a field starts at every position, fits, fills or spills, by one
  bit up to all but one; two full words and one being filled are as many as any
  operation touches at once. The proofs lift the bounds of this run altogether.
* 361 records of 190 bits make 42 batches: the first, which opens the buffer
  differently, and later ones that start with a record at each of the 16 even
  positions a record can have in a word. Every number up to 40, and 16 numbers in
  a row at the other end, so tails of every length that end at each of those
  positions. 15 missing words are more than two records. Here too the proofs
  lift the bounds, but for `Terminates`.
* 4 symbols fill the 4 numbers, so the counter wraps. (Proved for all sizes.)
* Ticks hold the ends of the ranges of every field, and next to each other in
  every order, so bits that leave a field would show in a neighbour. (Proved for all
  ticks that fit.) Strings end at every byte of a word.
* Two records of 51 bits in words of 8 put the unknown side once across a word
  boundary and once inside a word, behind an exchange that is whole or split; the
  unset variable has 3 bits more than the field, and the exchange 4.
* 4 lines are two batches of 2, and 3 one and a line over; with two runs the
  files can be those of the last run, the one before, or mixed. What `Loader`
  says of the files is proved for any number of runs and lines.
* A line is parsed alike whatever lines came before, but for the error flag:
  two lines have every value of it. Two damaged columns are what it takes to
  have one empty column and another that makes up for it.
* With precision 2, texts of 4 digits have up to two digits to lose, ties
  included; 10^3 needs the scientific notation, and so do numbers with zeros
  after the point.

Deadlock is checked but in the run of `Archive` and in `success`: the runs they
count are bounded and the program simply ends. Elsewhere the end is an action of
its own (`Finished`, `AllRead`, `AllRun`), so that a `Read` that finds no word
is a deadlock or `Underrun`.

Fairness is stated only where a liveness property needs it: `FairSpec` of
`InflateFile` is weak fairness of `Next`. The program is one thread in a loop
with no waiting, so a step that can be taken is.

## Findings

Shown by a run:

1. 1048576 shares, the README's maximum, need 21 bits (batbuffer.hpp:125): run
   max_shares.
2. "Compressed successfully!" is printed whatever happened
   (bat_tickdata_loader.hpp:71, batbuffer.hpp:289): run success.

Other disagreements the models have in them, each a consequence of the lines
named:

* The assertion that a side is B, A or T does not hold of a line of the input with
  another, and without it an unset side is packed, which may be read back past the
  end of `sidetok` (batbuffer.hpp:50, 458). `SideCodes` has every value of it, and
  `LookupsInRange` does not hold in the run unknown_side.
* Four tests compare an error flag that nothing sets (testcoverage.hpp:457, 474,
  492, 510), so "Everything should pass!" depends on what was in memory: `error`,
  which `PassesButForError` has to leave out.
* A test compares the packet with a value that was not written and passes for the
  precedence of its operators (testcoverage.hpp:351).
* `Write` of more than a word loses bits (bitbuffer.hpp:239), though `pack32`
  asserts `blocks <= 2 * BUFFER_CAPACITY` (116). The fields of a tick are at
  most a word.
* `SetWriteMode` on a word read in part shifts unread bits out (bitbuffer.hpp:69).
  The program never calls it.
* A line with fields missing leaves the error flag as it was (dataparser.hpp:46),
  so it is not skipped, as comment and message say, but ends the run one way or
  the other (bat_tickdata_loader.hpp:48).
* "Inflated successfully!" is printed unconditionally (batbuffer.hpp:472).
* `WriteString` returns the characters, not the bits it wrote (batbuffer.hpp:153),
  and `ReadString` reverses (255).
* The CSV checker splits lines at spaces, so a ticker with one is rejected,
  although the program accepts it (csv_filechecker/main.cpp:55).

## Proofs

All of them hold for every value of the constants that satisfies the assumptions
named in the modules.

`BitBufferProofs`: `TypeCorrect`, `SpareBitsStayClear`, `MoreStaysHonest`. The
inductive invariant is `Inv == TypeOK /\ SpareBitsClear`. `TypeOK` is inductive,
but `SpareBitsClear` is not without the ranges that `TypeOK` gives. `WriteCases`
reduces a `Write` of a field to its three outcomes (the field fits, it fills the
word, it spills), each of which `WriteInv` takes in turn; `ReadInv` does the same
for `Read`. `MoreIsHonest` then follows from `Inv` in one state: the unread bits
of the buffer are its high ones, so a buffer that is not zero has a 1 among them.

The same module has `BufferIsQueue`, `Spec => ImplementsQueue`: the bits come out
in the order and with the values they went in, across any word boundary. The
argument is about sequences of bits, compared element by element (`SplitBits`).
`PacketBitsAppend` and `PacketBitsTail` say what storing and loading a word do to
the bits of the packet; they carry the division of a bit's index into its word
and its position. `MergeBits` and `SpillBits` are the two ways `pack32` puts a
value in, `UnpackFits`, `UnpackRest` and `JoinBits` the ways `unpack32` takes one
out. One lemma per operation puts them together (`WriteAppends`, `ReadTakes`,
`FlushPads`, `SetReadModeKeeps`, `SetWriteModeKeeps`). `SpareBitsClear` is what
they need of the invariant: a merge with a plain or is an append only if the room
is clear. The queue stands for the bits of `Stream` with a state function, so no
history variable is needed.

`TableFileProofs`: `TypeCorrect`, `FileDecodes`, `TableDecodes`. `TypeOK` has more
than ranges: the counter is the number of symbols, wrapped, and what is loaded of a
file so far are its first lines under their positions. The invariant says
that the numbers of a table are those below the count of its symbols, each once
(`Numbered`); the priority queue can then only give the symbols back in the order
of their numbers, so the position in the file is the number. A table being loaded
has the first lines of the file under their positions, and the others are unread
(`Loading`). That the symbols are no more than the numbers is what keeps the
wrapped counter harmless.

`InflateFileProofs`: `FieldsAligned`, `NeverStarves`, `WholeFilesDoNotUnderrun`,
`HalvesFollowed`, `EveryRecordWritten`, `MemoryBounded` and `TypeCorrect`, all the
safety properties of the loop. The invariant counts bits. The next field begins
where the last one ended (`InPlace`), and the words of the packet are the next
ones of the file (`Consecutive`); the rest is about how many there are:

* A batch begins with the bits of `CHUNK_WORDS` words at least, and has read `i`
  records since. If less than a record were left, the words left would be few
  (`n`), and since `i < n` the bits read and left would be less than those of
  `n` records, which `BatchAssumption` says are not more than a batch has
  (`NextRecordLoaded`). This is why comparing the counter with the shrinking
  packet works, and for which sizes of records and batches it does.
* A batch ends with as many records read as words are left, so it leaves no more
  than a batch of words (`BatchLeaves`), and the next begins with at most two.
* A record is longer than a word and padding is less, so at the end of a whole
  file words are left exactly as long as records are (`WordsMeanRecords`): the
  tail loop, which asks for words or bits that are not zero, stops in time.
* A half of a value is followed by a field of a whole word, of which the buffer
  alone never has all (`HalfLeavesWord`).

The assumptions `RecordAssumption` and `BatchAssumption` are what the argument
needs of the sizes; TLC evaluates them for those of the code.

`DataParserProofs`: `ParsingImplementsLoader`, `Spec => ImplementsLoader`, for
every set of lines. It needs that `lines_read` never passes `input` (`LineInv`),
so that a batch of `MaxLines + 1` lines is never full (`NoBatch`). `TypeCorrect`,
`FieldsKeepTheirPlace` and `InputFormatAccepted` are about the columns: the fields
so far are columns of the line, in the order of the line and with only empty ones
passed over, so eight of them out of eight columns are all of them, each in its
place.

`ArchiveProofs`, of `Loader`: `TypeCorrect`, `TableStaysHonest`, `MemoryBounded`,
`NoErrorMeansStreamed`, `SuccessHonestUnlessFailed`. None of them is inductive:
that a saved table means a whole archive needs to know that while a run writes,
the archive is its own and the table still an older one's (`Created`), and that
without a failure what is read and not streamed is what is over a whole number
of batches (`Streaming`), so the last write completes it (`Written`).

`ArchiveProofs`, of `Archive`: `ContentsTyped`, `MatchingFilesDecode`, `SameInputDecoded`. The
invariant says what the number of a ticker is: how many others the input has
before the first line of that ticker. It so depends on the lines before only, and
two runs on the same lines agree wherever both have got to, which is what
`SameInputDecodes` says of their files. `NumbersSuffice`, no more tickers than
numbers, is assumed.

`BatBufferProofs`: `TypeCorrect`, `RecordsStayContiguous`, `LookupsStayInRange` and
`RoundTripHolds`, each of the form `TicksFit /\ Spec => []...`: for every word size
and all field sizes up to it, every number of ticks, and any ticks that fit. The
proof rests on two others, by name: the lemmas of `BitBufferProofs` say which bits
`Write` appends and `Read` takes, those of `TableFileProofs` that the numbers of the
table are positions in its lookup. The invariant has three parts:

* While ticks are packed, the bits of the file, of the packet and buffer, and of
  the calls that wait are the records one after another (`PackedInv`).
* While they are read, the unread bits are the rest of the fields of the next
  tick, all records behind it, and less than a word of padding (`UnpackedInv`).
  A `Read` finds the bits of its own field in front, takes as many as were
  written, and equal bits of equal length are equal values (`Cancel`).
* A record has a field of a whole word among its eleven, so it is longer than any
  padding: `Read` says that there is more exactly if a record is left (`NoMore`,
  `MoreLeft`), and a file that is not empty has a tick (`LoadIInv`).

The bits of all records are a recursive function (`FlattenSeq`), and so are the
powers of 2. What they are is shown by induction over a set of numbers, which is a
statement of first order (`SetInduction`, from the well-foundedness of `<`); the
powers of 10 of a price and the words of a line are treated the same way. The
hypothesis `TicksFit` cannot be dropped: the runs max_shares and unknown_side show
what happens without it, so `LookupsStayInRange` says nothing of ticks with another side
than B, A or T. `Spec` is `BatBuffer`'s; the run also has the strings of `StringField`.

Of `StringField`, in the same module: `ReversedButIntactHolds`, `StringsFit /\ SSpec => []...`, where
`StringsFit` says that a string has a character, that its characters are ASCII and
that a field of one holds a space. As with the ticks, the stream and the waiting
calls have the characters of all strings in order while they are written
(`StringsWritten`), and while they are read what is unread begins with the next
character of the next string (`StringsReadBack`). What `ReadString` has of that
string are the characters before it, the last one first (`PartlyRead`), so it ends
reversed; as it ends with as many characters as were written, the next string
begins where it should. That a buffer nothing was packed into is empty, however
often it is streamed, is needed for the first string (`NotForStrings`).

`PriceTextProofs`: `CanonicalIsKept`, `InflatedIsStable`, `ValueIsKept`, for every
precision and texts of any number of digits and decimals; so also for the 12 digits
of the code, where TLC has 2. The invariant is that a text is the one it began as,
or `Printed(w)` of a number `w` that the first text rounds to. It is kept because a
number has one decimal form (`Normal`, `DecimalOfMultiple`), rounding gives a number
of no more than `PRICE_PRECISION` digits, also where it carries into a new digit
(`RoundedFacts`), and such a number is read back from its text, in any of the
three notations (`PrintedIsReadBack`), and is not rounded again. So errors of half a
unit do not add up (`RoundedDistance`). That a double stands for its decimal is part
of the model, not proved.

`CsvFileCheckerProofs`: `EveryTickChecked`, `CheckerAgrees`, for every set of lines
and every length of the file. `WordsOf` cuts a line at its spaces; without any, it
is the line itself or, if it is blank, nothing (`UnspacedWords`); a tick whose ticker
has one is two (`SplitTickWords`), of which the first, a token alone, is ahead until a
word is rejected (`StubAhead`). `AgreesWithParser`
then needs a count (`LineByLine`): rows and unread words are never more than the
lines, and if they are as many, none was blank and each word is its line, in
order; and as long as no word was rejected each had its eight fields (`Accepted`), so
that what either function prints begins with them (`PrintedOfWord`). Of a line with
no field empty, `strtok` takes the first eight columns one by one (`OneMoreColumn`),
as `DataParser` models it.

Only model-checked: `PassesButForError` of `TestCoverage` (fixed tests, which a run
settles); `OnlyItsExchangeIsSpoilt` of `BatBuffer`, as the invariant of its proofs is
about values that fit their fields; `OutOfRangeOnlyIfShort` of
`CsvFileChecker`. Out of the prover's reach: `Terminates` (liveness). Every other
property of the passing runs is proved.

## Not modelled

* A line of 1000 characters or more, which overflows the copy `strtok` works on
  (dataparser.hpp:40), and a test that writes a fifth element of an array of
  four: what happens has no bound.
* Archives this program did not make: a number the table does not have, a table
  edited by hand.
* The character past `sidetok` that a side of 3 is written as. `Loader` and
  `DataParser` let a line with an unknown side be accepted or end the run; what is
  packed of it is in `BatBuffer`.
* Prices with more than 15 digits, signs, leading zeros or exponents in the input.
* Values wider than their fields other than the shares of `max_shares`.
* `MarketData` and `IProcessMarketData`, a struct and an interface without
  behaviour of their own beyond `Dump`; the build; terminal output but the
  messages a run ends with; that the checker's file may be missing.

## Plan

1. (done) `BitBuffer`, its queue and their proofs; `SymbolTable`, `TableFile`,
   `BatBuffer`, `InflateFile`, `Loader`.
2. (done) `DataParser`, `Archive`, `PriceText`, `StringField`, `TestCoverage`,
   `CsvFileChecker`.
3. (done) The proofs of `TableFile`, `Loader`, `DataParser` as a refinement of
   `Loader`, and `InflateFile`.
4. (done) `Archive`, the columns of `DataParser`, and `BatBuffer` from the first
   tick packed to the last one read.
5. (done) `ReversedButIntact` of `StringField`, with the lemmas of `BatBufferProofs`.
6. (done) `ChecksEveryTick` and `AgreesWithParser` of `CsvFileChecker`, and the
   properties of `PriceText`.
