--------------------------- MODULE ArchiveProofs ---------------------------
(***************************************************************************)
(* Proofs about the runs of the program over its two files (Loader), for    *)
(* every number of lines per stream, every length of the inputs and every  *)
(* number of runs; and about what is in the files (Archive), for every set *)
(* of tickers.  The argument of the second: the number of a ticker is how  *)
(* many others came before it in the input.  It depends on nothing but the *)
(* input up to the ticker, so all inputs that begin alike number alike, and *)
(* the table file has each ticker at the position of its number.           *)
(***************************************************************************)
EXTENDS Archive, FiniteSetTheorems, TLAPS

-----------------------------------------------------------------------------
(* The runs of the program and their files: the properties of Loader.      *)

\* While a run compresses, the archive is its own and empty until it is closed; the
\* table file is still that of an older run, and nothing has been said.
Writing == pc \in {"open", "input", "reading", "table"}

Created ==
  /\ pc = "open" => archive.run < run
  /\ pc \in {"input", "reading", "table"} => archive.run = run
  /\ pc \in {"input", "reading"} => archive.lines = 0 /\ ~archive.flushed
  /\ pc = "input" => streamed = 0 /\ good
  /\ Writing => table_file < run /\ said = "nothing"

\* Without a failure, what was read and not streamed is what is over a whole number
\* of batches.
Streaming ==
  ~failed /\ pc = "reading" =>
    good /\ lines_read - streamed = lines_read % LINES_PER_STREAM

\* Without a failure, the archive is complete before the table is saved, and success
\* is claimed only after that.
Written ==
  /\ ~failed /\ pc = "table" => archive = [run |-> run, lines |-> input, flushed |-> TRUE]
  /\ said = "compressed" => pc \in {"idle", "inflate"}

IInv ==
  /\ TypeOK
  /\ Created
  /\ Streaming
  /\ Written
  /\ TableMeansWhole
  /\ NoErrorAllStreamed
  /\ SuccessUnlessFailed

-----------------------------------------------------------------------------

\* The next number has the next remainder, or none.
LEMMA NextRemainder ==
  ASSUME NEW n \in Nat, NEW p \in Nat \ {0}, (n + 1) % p # 0
  PROVE  (n + 1) % p = (n % p) + 1
<1> DEFINE q == n \div p
           r == n % p
           u == (n + 1) \div p
           t == (n + 1) % p
<1>1. q \in Int /\ r \in 0 .. p - 1 /\ n = p * q + r
  OBVIOUS
<1>2. u \in Int /\ t \in 1 .. p - 1 /\ n + 1 = p * u + t
  OBVIOUS
<1> HIDE DEF q, r, u, t
<1>3. p * (u - q) = r + 1 - t /\ r + 1 - t \in 1 - p + 1 .. p - 1
  BY <1>1, <1>2
<1>4. u - q = 0
  BY <1>1, <1>2, <1>3
<1>5. t = r + 1
  BY <1>1, <1>2, <1>3, <1>4
<1> QED
  BY <1>5 DEF r, t

LEMMA ZeroRemainder ==
  ASSUME NEW p \in Nat \ {0}
  PROVE  0 % p = 0
OBVIOUS

LEMMA RemainderRange ==
  ASSUME NEW n \in Nat, NEW p \in Nat \ {0}
  PROVE  n % p \in 0 .. p - 1
OBVIOUS

LEMMA InitIInv == Init => IInv
<1> SUFFICES ASSUME Init PROVE IInv
  OBVIOUS
<1>1. archive \in [run : 0..run, lines : 0..MaxLines, flushed : BOOLEAN]
  BY LoaderAssumption DEF Init, NoFile
<1>2. TypeOK
  <2>1. run \in 0..MaxRuns /\ table_file \in 0..run
    BY LoaderAssumption DEF Init
  <2>2. input \in 0..MaxLines /\ lines_read \in 0..input /\ streamed \in 0..MaxLines
    BY LoaderAssumption DEF Init
  <2> QED
    BY <1>1, <2>1, <2>2 DEF Init, TypeOK, Modes
<1>3. Created /\ Streaming /\ Written
  BY DEF Init, Created, Writing, Streaming, Written
<1>4. TableMeansWhole
  BY DEF Init, TableMeansWhole, NoFile
<1>5. NoErrorAllStreamed
  BY DEF Init, NoErrorAllStreamed
<1>6. SuccessUnlessFailed
  BY DEF Init, SuccessUnlessFailed
<1> QED
  BY <1>2, <1>3, <1>4, <1>5, <1>6 DEF IInv

LEMMA StartIInv ==
  ASSUME IInv, NEW mode \in Modes, Start(mode)
  PROVE  IInv'
<1>1. run \in Int /\ run' = run + 1 /\ run' \in 0..MaxRuns
  BY LoaderAssumption DEF IInv, TypeOK, Start
<1>2. (archive \in [run : 0..run, lines : 0..MaxLines, flushed : BOOLEAN])'
  BY <1>1 DEF IInv, TypeOK, Start, files
<1>3. TypeOK'
  BY <1>1, <1>2 DEF Start, IInv, TypeOK, Modes, progress, files
<1>4. Created'
  BY <1>1 DEF Start, IInv, TypeOK, Created, Writing, progress, files
<1>5. Streaming' /\ Written' /\ NoErrorAllStreamed'
  BY DEF Start, Streaming, Written, NoErrorAllStreamed
<1>6. TableMeansWhole'
  BY DEF Start, IInv, TableMeansWhole, progress, files
<1>7. SuccessUnlessFailed'
  BY DEF Start, SuccessUnlessFailed
<1> QED
  BY <1>3, <1>4, <1>5, <1>6, <1>7 DEF IInv

LEMMA OpenWriteStreamIInv ==
  ASSUME IInv, OpenWriteStream
  PROVE  IInv'
BY LoaderAssumption
DEF OpenWriteStream, IInv, TypeOK, Created, Writing, Streaming, Written, TableMeansWhole,
    NoErrorAllStreamed, SuccessUnlessFailed, ResultComplete, Modes

LEMMA OpenWriteStreamFailsIInv ==
  ASSUME IInv, OpenWriteStreamFails
  PROVE  IInv'
<1>1. TypeOK'
  BY DEF OpenWriteStreamFails, IInv, TypeOK, progress, files
<1> QED
  BY <1>1
  DEF OpenWriteStreamFails, IInv, Created, Writing, Streaming, Written, TableMeansWhole,
      NoErrorAllStreamed, SuccessUnlessFailed

LEMMA OpenInputIInv ==
  ASSUME IInv, OpenInput
  PROVE  IInv'
<1>1. 0 % LINES_PER_STREAM = 0
  BY LoaderAssumption, ZeroRemainder
<1> QED
  BY <1>1, LoaderAssumption
  DEF OpenInput, IInv, TypeOK, Created, Writing, Streaming, Written, TableMeansWhole,
      NoErrorAllStreamed, SuccessUnlessFailed, ResultComplete, files

LEMMA MissingInputIInv ==
  ASSUME IInv, MissingInput
  PROVE  IInv'
<1>1. TypeOK'
  BY DEF MissingInput, AfterCompress, IInv, TypeOK, progress, files
<1> QED
  BY <1>1
  DEF MissingInput, AfterCompress, IInv, Created, Writing, Streaming, Written,
      TableMeansWhole, NoErrorAllStreamed, SuccessUnlessFailed, progress, files

\* WriteStream leaves the stream good only if it has streamed the lines it was given.
LEMMA WriteStreamCases ==
  ASSUME IInv, NEW lines \in 0..MaxLines, WriteStream(lines)
  PROVE  /\ good' \in BOOLEAN /\ streamed' \in {streamed, lines}
         /\ good' => good /\ streamed' = lines
<1>1. good \in BOOLEAN
  BY DEF IInv, TypeOK
<1>2. CASE good /\ streamed' = lines /\ good' = good
  BY <1>1, <1>2
<1>3. CASE good' = FALSE /\ streamed' = streamed
  BY <1>3
<1>4. CASE ~good /\ UNCHANGED <<good, streamed>>
  BY <1>1, <1>4
<1> QED
  BY <1>2, <1>3, <1>4 DEF WriteStream

LEMMA GoodLineIInv ==
  ASSUME IInv, GoodLine
  PROVE  IInv'
<1>1. /\ lines_read \in Nat /\ streamed \in Nat /\ input \in 0..MaxLines
      /\ streamed <= lines_read /\ lines_read' = lines_read + 1
      /\ lines_read' \in 0..input /\ lines_read' \in 0..MaxLines
      /\ pc = "reading" /\ pc' = pc /\ archive' = archive /\ table_file' = table_file
      /\ run' = run /\ input' = input /\ said' = said /\ archive.lines = 0
      /\ err' = FALSE /\ arg' = arg
  BY LoaderAssumption DEF IInv, TypeOK, Created, GoodLine, files
<1>2. CASE lines_read' % LINES_PER_STREAM = 0
  <2>1. WriteStream(lines_read')
    BY <1>2 DEF GoodLine
  <2>2. /\ good' \in BOOLEAN /\ streamed' \in {streamed, lines_read'}
        /\ good' => good /\ streamed' = lines_read'
    BY <1>1, <2>1, WriteStreamCases
  <2>3. streamed' \in 0..MaxLines /\ archive.lines <= streamed' /\ streamed' <= lines_read'
    BY <1>1, <2>2, LoaderAssumption
  <2>4. failed' \in BOOLEAN /\ (~failed' => ~failed /\ good' = good)
    BY DEF GoodLine, IInv, TypeOK
  <2>5. TypeOK'
    BY <1>1, <2>2, <2>3, <2>4 DEF IInv, TypeOK
  <2>6. Streaming'
    BY <1>1, <1>2, <2>2, <2>4 DEF IInv, Streaming
  <2> QED
    BY <1>1, <2>4, <2>5, <2>6
    DEF IInv, Created, Writing, Written, TableMeansWhole, NoErrorAllStreamed,
        SuccessUnlessFailed, ResultComplete
<1>3. CASE lines_read' % LINES_PER_STREAM # 0
  <2>1. lines_read' % LINES_PER_STREAM = (lines_read % LINES_PER_STREAM) + 1
    BY <1>1, <1>3, NextRemainder, LoaderAssumption
  <2>2. good' = good /\ streamed' = streamed /\ failed' = failed
    BY <1>3 DEF GoodLine, IInv, TypeOK
  <2>3. lines_read % LINES_PER_STREAM \in Int
    BY <1>1, RemainderRange, LoaderAssumption
  <2>4. TypeOK'
    <3>1. archive.lines <= streamed' /\ streamed' <= lines_read'
      BY <1>1, <2>2
    <3>2. streamed' \in 0..MaxLines /\ good' \in BOOLEAN /\ failed' \in BOOLEAN
      BY <2>2 DEF IInv, TypeOK
    <3> QED
      BY <1>1, <3>1, <3>2 DEF IInv, TypeOK
  <2>5. Streaming'
    BY <1>1, <2>1, <2>2, <2>3 DEF IInv, Streaming
  <2> QED
    BY <1>1, <2>2, <2>4, <2>5
    DEF IInv, Created, Writing, Written, TableMeansWhole, NoErrorAllStreamed,
        SuccessUnlessFailed, ResultComplete
<1> QED
  BY <1>2, <1>3

\* Dying while the stream is open leaves an archive that is not flushed.
LEMMA DieWithStreamOpen ==
  ASSUME IInv, StreamOpen, Die, err' \in BOOLEAN, said' # "compressed"
  PROVE  IInv'
<1>1. /\ archive \in [run : {run}, lines : {0}, flushed : {FALSE}]
      /\ table_file < run
  BY DEF IInv, TypeOK, Created, Writing, StreamOpen
<1>2. streamed \in 0..MaxLines
  BY DEF IInv, TypeOK
<1>3. PICK n \in archive.lines .. streamed : archive' = [archive EXCEPT !.lines = n]
  BY DEF Die
<1>4. n \in 0..MaxLines
  <2>1. n \in 0..streamed
    BY <1>1, <1>3
  <2> QED
    BY <1>2, <2>1, LoaderAssumption
<1>5. archive' \in [run : {run}, lines : 0..MaxLines, flushed : {FALSE}]
  BY <1>1, <1>3, <1>4
<1>6. table_file' = table_file /\ pc' = "idle" /\ run' = run /\ failed' = failed
  BY DEF Die, StreamOpen
<1>7. run \in Nat /\ table_file \in Int
  <2>1. run \in 0..MaxRuns /\ table_file \in 0..run
    BY DEF IInv, TypeOK
  <2> QED
    BY <2>1, LoaderAssumption
<1>8. TypeOK'
  BY <1>5, <1>6, <1>7 DEF Die, IInv, TypeOK, progress
<1> QED
  BY <1>1, <1>5, <1>6, <1>7, <1>8
  DEF IInv, Created, Writing, Streaming, Written, TableMeansWhole, NoErrorAllStreamed,
      SuccessUnlessFailed

LEMMA BadLineIInv ==
  ASSUME IInv, BadNumber \/ ShortLine \/ BadPrice
  PROVE  IInv'
BY DieWithStreamOpen DEF BadNumber, ShortLine, BadPrice, IInv, TypeOK, StreamOpen

LEMMA KillIInv ==
  ASSUME IInv, Kill
  PROVE  IInv'
<1>1. Die /\ err' = err /\ err \in BOOLEAN /\ said' = said /\ pc # "idle"
  BY DEF Kill, IInv, TypeOK
<1>2. CASE StreamOpen
  BY <1>1, <1>2, DieWithStreamOpen DEF IInv, Created, Writing, StreamOpen
<1>3. CASE ~StreamOpen
  <2>1. /\ archive' = archive /\ pc' = "idle" /\ run' = run /\ failed' = failed
        /\ UNCHANGED <<arg, progress>>
    BY <1>1, <1>3 DEF Die
  <2>2. CASE pc = "table"
    <3>1. table_file' \in {table_file, 0, run} /\ said = "nothing" /\ table_file < run
      BY <1>1, <2>2 DEF Die, IInv, Created, Writing
    <3>2. /\ run \in Nat /\ table_file' \in 0..run /\ archive.run = run
          /\ ~failed => archive.flushed
      BY <2>2, <3>1, LoaderAssumption DEF IInv, TypeOK, Created, Written
    <3>3. TypeOK'
      BY <1>1, <2>1, <3>2 DEF IInv, TypeOK, progress
    <3> QED
      BY <1>1, <2>1, <3>1, <3>2, <3>3
      DEF IInv, Created, Writing, Streaming, Written, TableMeansWhole,
          NoErrorAllStreamed, SuccessUnlessFailed
  <2>3. CASE pc # "table"
    <3>1. table_file' = table_file
      BY <1>1, <2>3 DEF Die
    <3>2. TypeOK'
      BY <1>1, <2>1, <3>1 DEF IInv, TypeOK, progress
    <3>3. SuccessUnlessFailed'
      BY <1>1, <2>1, <3>1 DEF IInv, SuccessUnlessFailed, ResultComplete, progress
    <3> QED
      BY <1>1, <2>1, <3>1, <3>2, <3>3
      DEF IInv, Created, Writing, Streaming, Written, TableMeansWhole,
          NoErrorAllStreamed
  <2> QED
    BY <2>2, <2>3
<1> QED
  BY <1>2, <1>3

LEMMA CloseIInv ==
  ASSUME IInv, Close
  PROVE  IInv'
<1>1. /\ pc = "reading" /\ lines_read = input /\ input \in 0..MaxLines
      /\ WriteStream(input) /\ CloseStream /\ err' = ~good' /\ pc' = "table"
      /\ run' = run /\ input' = input /\ table_file' = table_file
      /\ archive.run = run /\ archive.lines = 0 /\ streamed <= input
  BY DEF IInv, TypeOK, Created, Close
<1>2. /\ good' \in BOOLEAN /\ streamed' \in {streamed, input}
      /\ good' => streamed' = input
  BY <1>1, WriteStreamCases
<1>3. /\ failed' \in BOOLEAN
      /\ archive' \in [run : {run}, lines : 0..MaxLines, flushed : BOOLEAN]
      /\ ~failed' => archive' = [run |-> run, lines |-> input, flushed |-> TRUE]
  <2>1. archive \in [run : {run}, lines : {0}, flushed : BOOLEAN]
    BY <1>1 DEF IInv, TypeOK
  <2>2. CASE /\ good'
             /\ archive' = [archive EXCEPT !.lines = streamed', !.flushed = TRUE]
             /\ failed' = failed
    BY <1>1, <1>2, <2>1, <2>2 DEF IInv, TypeOK
  <2>3. CASE /\ \E n \in archive.lines .. streamed' : archive' = [archive EXCEPT !.lines = n]
             /\ failed' = TRUE
    <3>1. PICK n \in archive.lines .. streamed' : archive' = [archive EXCEPT !.lines = n]
      BY <2>3
    <3>2. n \in 0..MaxLines
      BY <1>1, <1>2, <3>1, LoaderAssumption DEF IInv, TypeOK
    <3> QED
      BY <2>1, <2>3, <3>1, <3>2
  <2> QED
    BY <1>1, <2>2, <2>3 DEF CloseStream
<1> QED
  BY <1>1, <1>2, <1>3
  DEF Close, IInv, TypeOK, Created, Writing, Streaming, Written, TableMeansWhole,
      NoErrorAllStreamed, SuccessUnlessFailed

LEMMA SaveTableIInv ==
  ASSUME IInv, SaveTable
  PROVE  IInv'
<1>1. /\ pc = "table" /\ archive' = archive /\ archive.run = run /\ run' = run
      /\ said' = "compressed" /\ pc' \in {"idle", "inflate"}
      /\ input' = input
  BY DEF IInv, Created, SaveTable, AfterCompress, progress
<1>2. run \in Nat /\ table_file \in 0..run /\ failed \in BOOLEAN
  BY LoaderAssumption DEF IInv, TypeOK
<1>3. /\ failed' \in BOOLEAN /\ table_file' \in 0..run
      /\ ~failed' => ~failed /\ table_file' = run
  <2>1. CASE table_file' = run /\ failed' = failed
    BY <1>2, <2>1
  <2>2. CASE table_file' \in {table_file, 0} /\ failed' = TRUE
    BY <1>2, <2>2
  <2> QED
    BY <2>1, <2>2 DEF SaveTable
<1>4. ~failed => archive = [run |-> run, lines |-> input, flushed |-> TRUE]
  BY <1>1 DEF IInv, Written
<1>5. TypeOK'
  BY <1>1, <1>3 DEF IInv, TypeOK, SaveTable, progress
<1>6. ~failed' => archive'.flushed /\ ResultComplete'
  BY <1>1, <1>3, <1>4 DEF ResultComplete
<1>7. TableMeansWhole' /\ SuccessUnlessFailed'
  BY <1>6 DEF TableMeansWhole, SuccessUnlessFailed
<1> QED
  BY <1>1, <1>5, <1>7
  DEF IInv, Created, Writing, Streaming, Written, NoErrorAllStreamed

LEMMA InflateIInv ==
  ASSUME IInv, Inflate
  PROVE  IInv'
<1>1. /\ pc' = "idle" /\ err' \in BOOLEAN /\ failed' \in BOOLEAN /\ (failed => failed')
      /\ said' # "compressed"
  BY DEF IInv, TypeOK, Inflate
<1>2. TypeOK'
  BY <1>1 DEF Inflate, IInv, TypeOK, progress, files
<1> QED
  BY <1>1, <1>2
  DEF Inflate, IInv, Created, Writing, Streaming, Written, TableMeansWhole,
      NoErrorAllStreamed, SuccessUnlessFailed, files

\* Every step keeps the invariant.
LEMMA NextIInv ==
  ASSUME IInv, [Next]_vars
  PROVE  IInv'
<1>1. ASSUME NEW mode \in Modes, Start(mode)
      PROVE  IInv'
  BY <1>1, StartIInv
<1>2. CASE OpenWriteStream
  BY <1>2, OpenWriteStreamIInv
<1>3. CASE OpenWriteStreamFails
  BY <1>3, OpenWriteStreamFailsIInv
<1>4. CASE OpenInput
  BY <1>4, OpenInputIInv
<1>5. CASE MissingInput
  BY <1>5, MissingInputIInv
<1>6. CASE GoodLine
  BY <1>6, GoodLineIInv
<1>7. CASE BadNumber \/ ShortLine \/ BadPrice
  BY <1>7, BadLineIInv
<1>8. CASE Close
  BY <1>8, CloseIInv
<1>9. CASE SaveTable
  BY <1>9, SaveTableIInv
<1>10. CASE Inflate
  BY <1>10, InflateIInv
<1>11. CASE Kill
  BY <1>11, KillIInv
<1>12. CASE UNCHANGED vars
  BY <1>12
  DEF vars, progress, files, IInv, TypeOK, Created, Writing, Streaming, Written,
      TableMeansWhole, NoErrorAllStreamed, SuccessUnlessFailed, ResultComplete
<1> QED
  BY <1>1, <1>2, <1>3, <1>4, <1>5, <1>6, <1>7, <1>8, <1>9, <1>10, <1>11, <1>12
  DEF Next

\* The invariant holds from the start and every step keeps it.
THEOREM InvHolds == Spec => []IInv
BY InitIInv, NextIInv, PTL DEF Spec

\* The variables of the runs and the files stay in their ranges: no file is of a run
\* that has not been, and no more lines are on disk than were streamed or read.
THEOREM TypeCorrect == Spec => []TypeOK
<1>1. IInv => TypeOK
  BY DEF IInv
<1> QED
  BY <1>1, InvHolds, PTL

\* Unless an output failed, a table of the archive's own run means a whole archive, at
\* whatever step SaveTable, Compress or the system ended a run.
THEOREM TableStaysHonest == Spec => []TableMeansWhole
<1>1. IInv => TableMeansWhole
  BY DEF IInv
<1> QED
  BY <1>1, InvHolds, PTL

\* The loop of Compress holds less than a batch of lines back from the stream.
THEOREM MemoryBounded == Spec => []StreamedInBatches
<1>1. IInv => StreamedInBatches
  <2> SUFFICES ASSUME IInv, ~failed, pc = "reading"
               PROVE  lines_read - streamed < LINES_PER_STREAM
    BY DEF StreamedInBatches
  <2>1. lines_read \in Nat
    BY LoaderAssumption DEF IInv, TypeOK
  <2>2. lines_read % LINES_PER_STREAM \in 0 .. LINES_PER_STREAM - 1
    BY <2>1, RemainderRange, LoaderAssumption
  <2> QED
    BY <2>2, LoaderAssumption DEF IInv, Streaming
<1> QED
  BY <1>1, InvHolds, PTL

\* When CloseWriteStream reports no error, every line was given to the stream.
THEOREM NoErrorMeansStreamed == Spec => []NoErrorAllStreamed
<1>1. IInv => NoErrorAllStreamed
  BY DEF IInv
<1> QED
  BY <1>1, InvHolds, PTL

\* Unless an output failed, Compress prints its message of success only when both
\* files are complete and its own.
THEOREM SuccessHonestUnlessFailed == Spec => []SuccessUnlessFailed
<1>1. IInv => SuccessUnlessFailed
  BY DEF IInv
<1> QED
  BY <1>1, InvHolds, PTL

-----------------------------------------------------------------------------
(* What is in the files: the properties of Archive.                        *)

\* The tickers of an input, those before the first s, and how many these are.
TickersOf(t) == {t[j] : j \in 1..Len(t)}
TickersBefore(t, s) == {t[j] : j \in {i \in 1..Len(t) : \A k \in 1..i : t[k] # s}}
NumberIn(t, s) == Cardinality(TickersBefore(t, s))

\* The lemmas about a symbol table, for the one of Compress.
Numbers == INSTANCE TableFileProofs WITH
  codes <- {}, table_file <- << >>, saved <- FALSE, unread <- << >>

\* A run that has compressed nothing has no tickers, one that reads has one for every
\* line, and the runs to come have none.
Counted ==
  /\ tickers \in [1..MaxRuns -> Seq(Symbols)]
  /\ \A r \in 1..MaxRuns : Len(tickers[r]) <= MaxLines
  /\ \A r \in 1..MaxRuns : r > run => tickers[r] = << >>
  /\ pc \in {"open", "input"} => tickers[run] = << >>
  /\ pc = "reading" => Len(tickers[run]) = lines_read
  /\ numbers \in Seq(Nat)
  /\ names \in Seq(Symbols \cup {CutName})

\* The table of the running Compress has the tickers of its input and their numbers.
Numbering ==
  /\ Numbers!Numbered
  /\ pc \in {"input", "reading", "table"} =>
       /\ DOMAIN table = TickersOf(tickers[run])
       /\ \A s \in DOMAIN table : table[s] = NumberIn(tickers[run], s)

\* The archive has the numbers of its run's tickers, in the order of the input.
Recorded ==
  archive.run # 0 =>
    /\ Len(numbers) = Len(tickers[archive.run])
    /\ \A n \in 1..Len(numbers) :
         numbers[n] = NumberIn(tickers[archive.run], tickers[archive.run][n])

\* The table file has each ticker of its run at the position of its number.
ListedFor(t, lookup) ==
  \A n \in 1..Len(t) : /\ NumberIn(t, t[n]) + 1 \in DOMAIN lookup
                       /\ lookup[NumberIn(t, t[n]) + 1] = t[n]

Listed == table_file # 0 => ListedFor(tickers[table_file], names)

\* No more is on disk than was compressed, and all of it if the archive was flushed.
OnDisk ==
  /\ archive.run # 0 => archive.lines <= Len(numbers)
  /\ archive.run # 0 /\ archive.flushed => archive.lines = Len(numbers)
  /\ archive.run = 0 => archive.lines = 0

AInv == IInv /\ Counted /\ Numbering /\ Recorded /\ Listed /\ OnDisk

-----------------------------------------------------------------------------
(* Numbers and inputs.                                                     *)

\* The cardinalities of the instances are those of this module.
LEMMA SameSizes ==
  /\ \A S : Numbers!Cardinality(S) = Cardinality(S)
  /\ \A S : Table!Cardinality(S) = Cardinality(S)
  /\ \A S : Numbers!IsFiniteSet(S) <=> IsFiniteSet(S)
<1>1. \A S : Numbers!IsFiniteSet(S) <=> IsFiniteSet(S)
  BY DEF Numbers!IsFiniteSet, IsFiniteSet
<1>2. \A S : Numbers!Cardinality(S) = Cardinality(S)
  BY DEF Numbers!Cardinality, Cardinality
<1>3. \A S : Table!Cardinality(S) = Cardinality(S)
  BY DEF Table!Cardinality, Cardinality
<1> QED
  BY <1>1, <1>2, <1>3

LEMMA NumbersAssumptions == Numbers!IndexAssumption /\ Numbers!SymbolsAssumption
BY NumbersSuffice, SameSizes DEF Numbers!IndexAssumption, Numbers!SymbolsAssumption

\* The number of a ticker follows from the input up to it.
LEMMA NumberKept ==
  ASSUME NEW t \in Seq(Symbols), NEW u \in Seq(Symbols), Len(t) <= Len(u),
         \A j \in 1..Len(t) : u[j] = t[j],
         NEW n \in 1..Len(t)
  PROVE  NumberIn(u, t[n]) = NumberIn(t, t[n])
<1> DEFINE s == t[n]
           I(v) == {i \in 1..Len(v) : \A k \in 1..i : v[k] # s}
<1>1. Len(t) \in Nat /\ Len(u) \in Nat
  OBVIOUS
<1>2. ASSUME NEW i \in I(u) PROVE i \in I(t)
  <2>1. i \in 1..Len(u) /\ \A k \in 1..i : u[k] # s
    OBVIOUS
  <2>2. i < n
    BY <1>1, <2>1
  <2>3. i \in 1..Len(t) /\ \A k \in 1..i : k \in 1..Len(t)
    BY <1>1, <2>1, <2>2
  <2> QED
    BY <2>1, <2>3
<1>3. ASSUME NEW i \in I(t) PROVE i \in I(u)
  <2>1. i \in 1..Len(t) /\ \A k \in 1..i : t[k] # s
    OBVIOUS
  <2>2. i \in 1..Len(u) /\ \A k \in 1..i : k \in 1..Len(t)
    BY <1>1, <2>1
  <2> QED
    BY <2>1, <2>2
<1>4. I(t) \subseteq 1..Len(t)
  OBVIOUS
<1>5. TickersBefore(t, s) = {t[j] : j \in I(t)} /\ TickersBefore(u, s) = {u[j] : j \in I(u)}
  BY DEF TickersBefore
<1> HIDE DEF I, s
<1>6. \A j \in I(t) : u[j] = t[j]
  BY <1>4
<1>7. TickersBefore(u, s) = TickersBefore(t, s)
  BY <1>2, <1>3, <1>5, <1>6
<1> QED
  BY <1>7 DEF NumberIn, s

\* A ticker that is new has as many others before it as there are.
LEMMA NumberOfNew ==
  ASSUME NEW t \in Seq(Symbols), NEW s \in Symbols, s \notin TickersOf(t)
  PROVE  NumberIn(Append(t, s), s) = Cardinality(TickersOf(t))
<1> DEFINE u == Append(t, s)
           I == {i \in 1..Len(u) : \A k \in 1..i : u[k] # s}
<1>1. /\ Len(t) \in Nat /\ Len(u) = Len(t) + 1
      /\ u[Len(t) + 1] = s
      /\ \A j \in 1..Len(t) : u[j] = t[j] /\ t[j] # s
  BY DEF TickersOf
<1>2. TickersBefore(u, s) = {u[j] : j \in I}
  BY DEF TickersBefore
<1> HIDE DEF u
<1>3. I = 1..Len(t)
  <2>1. ASSUME NEW i \in 1..Len(t) PROVE i \in I
    <3>1. i \in 1..Len(u) /\ \A k \in 1..i : k \in 1..Len(t)
      BY <1>1
    <3> QED
      BY <1>1, <3>1
  <2>2. ASSUME NEW i \in I PROVE i \in 1..Len(t)
    <3>1. i \in 1..Len(u) /\ i \in 1..i
      BY <1>1
    <3>2. i # Len(t) + 1
      BY <1>1, <3>1
    <3> QED
      BY <1>1, <3>1, <3>2
  <2> QED
    BY <2>1, <2>2
<1> HIDE DEF I
<1>4. TickersBefore(u, s) = TickersOf(t)
  BY <1>1, <1>2, <1>3 DEF TickersOf
<1> QED
  BY <1>4 DEF NumberIn, u

LEMMA TickersOfAppend ==
  ASSUME NEW t \in Seq(Symbols), NEW s \in Symbols
  PROVE  TickersOf(Append(t, s)) = TickersOf(t) \cup {s}
<1> DEFINE u == Append(t, s)
<1>1. /\ Len(t) \in Nat /\ Len(u) = Len(t) + 1
      /\ u[Len(t) + 1] = s
      /\ \A j \in 1..Len(t) : u[j] = t[j]
  OBVIOUS
<1> HIDE DEF u
<1>2. \A j \in 1..Len(u) : j \in 1..Len(t) \/ j = Len(t) + 1
  BY <1>1
<1>3. \A j \in 1..Len(t) : j \in 1..Len(u)
  BY <1>1
<1>4. Len(t) + 1 \in 1..Len(u)
  BY <1>1
<1> QED
  BY <1>1, <1>2, <1>3, <1>4 DEF TickersOf, u

\* A ticker among those of an input is the n-th one for some n.
LEMMA TickerPlace ==
  ASSUME NEW t \in Seq(Symbols), NEW s \in TickersOf(t)
  PROVE  \E n \in 1..Len(t) : s = t[n]
BY DEF TickersOf

\* Appending a ticker keeps the numbers of those that are there.
LEMMA NumbersAfterAppend ==
  ASSUME NEW t \in Seq(Symbols), NEW s \in Symbols, NEW v \in TickersOf(t)
  PROVE  NumberIn(Append(t, s), v) = NumberIn(t, v)
<1>1. PICK n \in 1..Len(t) : v = t[n]
  BY TickerPlace
<1>2. /\ Append(t, s) \in Seq(Symbols) /\ Len(t) <= Len(Append(t, s))
      /\ \A j \in 1..Len(t) : Append(t, s)[j] = t[j]
  OBVIOUS
<1> QED
  BY <1>1, <1>2, NumberKept
-----------------------------------------------------------------------------
(* The table of Compress.                                                  *)

LEMMA InsertNumbered ==
  ASSUME Numbers!Numbered, NEW s \in Symbols, Table!Insert(s)
  PROVE  /\ Numbers!Numbered'
         /\ \A v \in DOMAIN table : v \in DOMAIN table' /\ table'[v] = table[v]
         /\ DOMAIN table' = DOMAIN table \cup {s}
         /\ table'[s] = Table!NumberOf(s)
         /\ Table!NumberOf(s) \in Nat
         /\ s \notin DOMAIN table => Table!NumberOf(s) = Cardinality(DOMAIN table)
<1>1. Numbers!Insert(s)
  BY DEF Numbers!Insert, Table!Insert
<1>2. Numbers!NumberOf(s) = Table!NumberOf(s)
  BY DEF Numbers!NumberOf, Table!NumberOf
<1>3. /\ \A v \in DOMAIN table : v \in DOMAIN table' /\ table'[v] = table[v]
      /\ DOMAIN table' = DOMAIN table \cup {s}
      /\ table'[s] = Table!NumberOf(s)
      /\ Table!NumberOf(s) \in Nat
  <2>1. Numbers!NumberOf(s) \in 0 .. INDEX_RANGE - 1
    BY <1>1, Numbers!InsertKeeps, NumbersAssumptions
  <2>2. Numbers!NumberOf(s) \in Nat
    BY <2>1, NumbersSuffice
  <2> QED
    BY <1>1, <1>2, <2>2, Numbers!InsertKeeps, NumbersAssumptions
<1>4. s \notin DOMAIN table => Table!NumberOf(s) = Cardinality(DOMAIN table)
  <2>1. SUFFICES ASSUME s \notin DOMAIN table PROVE index = Numbers!Count
    BY SameSizes DEF Table!NumberOf, Numbers!Count
  <2>2. DOMAIN table \subseteq Symbols /\ index = Numbers!Count % INDEX_RANGE
    BY DEF Numbers!Numbered
  <2>3. Numbers!Count \in Nat /\ Numbers!Count < INDEX_RANGE
    BY <2>1, <2>2, Numbers!CountType, NumbersAssumptions
  <2> QED
    BY <2>2, <2>3, Numbers!SmallRemainder, NumbersAssumptions
<1> QED
  BY <1>1, <1>3, <1>4, Numbers!InsertNumbered, NumbersAssumptions

LEMMA ClearNumbered ==
  ASSUME Table!ClearTable
  PROVE  Numbers!Numbered' /\ DOMAIN table' = {}
<1>1. table' = Numbers!EmptyTable /\ index' = 0
  BY DEF Table!ClearTable, Table!EmptyTable, Numbers!EmptyTable
<1> QED
  BY <1>1, Numbers!ClearNumbered, NumbersAssumptions

\* A run that is under way has a number.
LEMMA Running ==
  ASSUME AInv, Writing
  PROVE  run \in 1..MaxRuns /\ run # 0 /\ table_file < run
<1>1. run \in 0..MaxRuns /\ table_file \in 0..run /\ table_file < run
  BY DEF AInv, IInv, TypeOK, Created
<1> QED
  BY <1>1, LoaderAssumption

\* The lines of a table file that is written to its end: position and number agree.
LEMMA LookupLists ==
  ASSUME AInv, pc = "table", NEW lookup \in Table!Lookups
  PROVE  /\ lookup \in Seq(Symbols)
         /\ ListedFor(tickers[run], lookup)
<1> DEFINE t == tickers[run]
           N == Numbers!Count
<1>1. t \in Seq(Symbols) /\ Numbers!Numbered
      /\ DOMAIN table = TickersOf(t) /\ \A s \in DOMAIN table : table[s] = NumberIn(t, s)
  BY Running DEF AInv, Counted, Numbering, Writing
<1>2. lookup \in Numbers!Lookups
  BY SameSizes
  DEF Numbers!Lookups, Table!Lookups, Numbers!Before, Table!Before,
      Numbers!IsInjective, Table!IsInjective
<1>3. N \in Nat /\ DOMAIN table \subseteq Symbols
  BY <1>1, Numbers!CountType, NumbersAssumptions DEF Numbers!Numbered
<1>4. lookup \in [1..N -> DOMAIN table]
  BY <1>2 DEF Numbers!Lookups, Numbers!Count
<1> HIDE DEF N, t
<1>5. ASSUME NEW n \in 1..Len(t)
      PROVE  NumberIn(t, t[n]) + 1 \in DOMAIN lookup /\ lookup[NumberIn(t, t[n]) + 1] = t[n]
  <2> DEFINE s == t[n]
             i == table[s] + 1
  <2>1. s \in DOMAIN table /\ table[s] = NumberIn(t, s)
    BY <1>1 DEF TickersOf
  <2>2. table[s] \in Nat /\ table[s] < N
    BY <1>1, <2>1 DEF Numbers!Numbered, N
  <2>3. i \in 1..N /\ i - 1 = table[s]
    BY <1>3, <2>2
  <2> HIDE DEF i
  <2>4. lookup[i] \in DOMAIN table /\ table[lookup[i]] = i - 1
    BY <1>1, <1>2, <2>3, Numbers!LookupPosition, NumbersAssumptions DEF N
  <2>5. lookup[i] = s
    BY <1>1, <2>1, <2>3, <2>4 DEF Numbers!Numbered
  <2> QED
    BY <1>4, <2>1, <2>3, <2>5 DEF i
<1> QED
  BY <1>3, <1>4, <1>5 DEF ListedFor, t

LEMMA PartsType ==
  ASSUME NEW lookup \in Seq(Symbols)
  PROVE  PartsOf(lookup) \subseteq Seq(Symbols \cup {CutName})
<1> DEFINE lines(n) == SubSeq(lookup, 1, n)
<1>1. ASSUME NEW n \in 0..Len(lookup)
      PROVE  lines(n) \in Seq(Symbols \cup {CutName})
  <2>1. Len(lookup) \in Nat /\ n \in Int /\ 1 \in Int
    OBVIOUS
  <2>2. \A i \in 1..n : lookup[i] \in Symbols \cup {CutName}
    BY <2>1
  <2>3. lines(n) = [i \in 1 .. (n - 1) + 1 |-> lookup[i + 1 - 1]]
    BY <2>1
  <2> QED
    BY <2>1, <2>2
<1>2. \A n \in 0..Len(lookup) - 1 : n \in 0..Len(lookup)
  OBVIOUS
<1> HIDE DEF lines
<1>3. \A n \in 0..Len(lookup) - 1 : Append(lines(n), CutName) \in Seq(Symbols \cup {CutName})
  BY <1>1, <1>2
<1>4. PartsOf(lookup) = {lines(n) : n \in 0 .. Len(lookup)}
                          \cup {Append(lines(n), CutName) : n \in 0 .. Len(lookup) - 1}
  BY DEF PartsOf, lines
<1> QED
  BY <1>1, <1>3, <1>4

-----------------------------------------------------------------------------
(* The steps.                                                              *)

LEMMA InitAInv == AInit => AInv
<1> SUFFICES ASSUME AInit PROVE AInv
  OBVIOUS
<1>1. IInv
  BY InitIInv DEF AInit
<1>2. run = 0 /\ archive = NoFile /\ table_file = 0 /\ pc = "idle"
  BY DEF AInit, Init
<1>3. Counted
  <2>1. << >> \in Seq(Symbols) /\ Len(<< >>) = 0 /\ 0 <= MaxLines
    BY LoaderAssumption
  <2>2. tickers = [r \in 1..MaxRuns |-> << >>] /\ numbers = << >> /\ names = << >>
    BY DEF AInit
  <2> QED
    BY <1>2, <2>1, <2>2 DEF Counted
<1>4. Numbering
  <2>1. table = Numbers!EmptyTable /\ index = 0
    BY DEF AInit, Table!NewTable, Table!EmptyTable, Numbers!EmptyTable
  <2>2. DOMAIN table = {} /\ Numbers!Count = 0
    BY <2>1, SameSizes, FS_EmptySet DEF Numbers!EmptyTable, Numbers!Count
  <2>3. 0 % INDEX_RANGE = 0
    BY NumbersSuffice, ZeroRemainder
  <2> QED
    BY <1>2, <2>1, <2>2, <2>3 DEF Numbering, Numbers!Numbered, Numbers!EmptyTable
<1> QED
  BY <1>1, <1>2, <1>3, <1>4 DEF AInv, Recorded, Listed, OnDisk, NoFile

LEMMA OpenAInv ==
  ASSUME AInv, AOpenWriteStream
  PROVE  AInv'
<1>1. /\ pc = "open" /\ pc' = "input" /\ run' = run /\ table_file' = table_file
      /\ archive' = [run |-> run, lines |-> 0, flushed |-> FALSE]
      /\ tickers' = tickers /\ numbers' = << >> /\ names' = names
      /\ Table!ClearTable
  BY DEF AOpenWriteStream, OpenWriteStream
<1>2. IInv'
  BY OpenWriteStreamIInv DEF AInv, AOpenWriteStream
<1>3. Numbers!Numbered' /\ DOMAIN table' = {}
  BY <1>1, ClearNumbered
<1>4. tickers[run] = << >> /\ run # 0
  BY <1>1, Running DEF AInv, Counted, Writing
<1>5. Counted'
  BY <1>1 DEF AInv, Counted
<1>6. TickersOf(<< >>) = {}
  BY DEF TickersOf
<1>7. Numbering'
  BY <1>1, <1>3, <1>4, <1>6 DEF Numbering
<1>8. Recorded' /\ OnDisk'
  BY <1>1, <1>4 DEF Recorded, OnDisk
<1>9. Listed'
  BY <1>1 DEF AInv, Listed
<1> QED
  BY <1>2, <1>5, <1>7, <1>8, <1>9 DEF AInv
LEMMA GoodLineAInv ==
  ASSUME AInv, AGoodLine
  PROVE  AInv'
<1>1. PICK s \in Symbols :
        /\ Table!Insert(s)
        /\ numbers' = Append(numbers, Table!NumberOf(s))
        /\ tickers' = [tickers EXCEPT ![run] = Append(@, s)]
  BY DEF AGoodLine
<1>2. /\ pc = "reading" /\ pc' = pc /\ run' = run /\ lines_read' = lines_read + 1
      /\ archive' = archive /\ table_file' = table_file /\ names' = names
      /\ lines_read < input /\ input \in 0..MaxLines /\ lines_read \in 0..input
      /\ archive.run = run /\ archive.lines = 0 /\ ~archive.flushed
  BY DEF AGoodLine, GoodLine, files, AInv, IInv, TypeOK, Created
<1>3. run \in 1..MaxRuns /\ run # 0 /\ table_file < run
  BY <1>2, Running DEF Writing
<1> DEFINE t == tickers[run]
           u == Append(t, s)
<1>4. t \in Seq(Symbols) /\ Len(t) = lines_read /\ Len(t) \in Nat
  <2>1. t \in Seq(Symbols)
    BY <1>3 DEF AInv, Counted
  <2>2. Len(t) = lines_read
    BY <1>2 DEF AInv, Counted
  <2> QED
    BY <2>1, <2>2
<1>5. /\ tickers' \in [1..MaxRuns -> Seq(Symbols)] /\ tickers'[run] = u
      /\ \A r \in 1..MaxRuns : r # run => tickers'[r] = tickers[r]
  BY <1>1, <1>3, <1>4 DEF AInv, Counted
<1>6. Len(u) = lines_read + 1 /\ lines_read + 1 <= MaxLines
  BY <1>2, <1>4, LoaderAssumption
<1> HIDE DEF t, u
<1>7. /\ Numbers!Numbered'
      /\ \A v \in DOMAIN table : v \in DOMAIN table' /\ table'[v] = table[v]
      /\ DOMAIN table' = DOMAIN table \cup {s}
      /\ table'[s] = Table!NumberOf(s)
      /\ Table!NumberOf(s) \in Nat
      /\ s \notin DOMAIN table => Table!NumberOf(s) = Cardinality(DOMAIN table)
  BY <1>1, InsertNumbered DEF AInv, Numbering
<1>8. DOMAIN table = TickersOf(t) /\ \A v \in DOMAIN table : table[v] = NumberIn(t, v)
  BY <1>2 DEF AInv, Numbering, t
<1>9. \A v \in TickersOf(t) : NumberIn(u, v) = NumberIn(t, v)
  BY <1>4, NumbersAfterAppend DEF u
<1>10. DOMAIN table' = TickersOf(u)
  BY <1>4, <1>7, <1>8, TickersOfAppend DEF u
<1>11. table'[s] = NumberIn(u, s)
  <2>1. CASE s \in DOMAIN table
    BY <1>7, <1>8, <1>9, <2>1
  <2>2. CASE s \notin DOMAIN table
    BY <1>4, <1>7, <1>8, <2>2, NumberOfNew DEF u
  <2> QED
    BY <2>1, <2>2
<1>12. Numbering'
  <2>1. \A v \in DOMAIN table' : table'[v] = NumberIn(u, v)
    BY <1>7, <1>8, <1>9, <1>11
  <2> QED
    BY <1>2, <1>5, <1>7, <1>10, <2>1 DEF Numbering
<1>13. Counted'
  <2>1. \A r \in 1..MaxRuns : Len(tickers'[r]) <= MaxLines
    BY <1>5, <1>6 DEF AInv, Counted
  <2>2. \A r \in 1..MaxRuns : r > run => tickers'[r] = << >>
    BY <1>3, <1>5 DEF AInv, Counted
  <2>3. numbers' \in Seq(Nat)
    BY <1>1, <1>7 DEF AInv, Counted
  <2> QED
    BY <1>2, <1>5, <1>6, <2>1, <2>2, <2>3 DEF AInv, Counted
<1>14. /\ numbers \in Seq(Nat) /\ Len(numbers) = Len(t)
       /\ \A n \in 1..Len(numbers) : numbers[n] = NumberIn(t, t[n])
  BY <1>2, <1>3 DEF AInv, Counted, Recorded, t
<1>15. /\ Len(numbers') = Len(u)
       /\ \A n \in 1..Len(numbers') : numbers'[n] = NumberIn(u, u[n])
  <2>1. /\ Len(numbers') = Len(t) + 1 /\ Len(u) = Len(t) + 1
        /\ numbers'[Len(t) + 1] = NumberIn(u, s) /\ u[Len(t) + 1] = s
        /\ \A n \in 1..Len(t) : numbers'[n] = numbers[n] /\ u[n] = t[n]
    BY <1>1, <1>4, <1>7, <1>11, <1>14 DEF u
  <2>2. \A n \in 1..Len(t) : numbers'[n] = NumberIn(u, u[n])
    <3>1. \A n \in 1..Len(t) : t[n] \in TickersOf(t)
      BY DEF TickersOf
    <3> QED
      BY <1>9, <1>14, <2>1, <3>1
  <2>3. \A n \in 1..Len(numbers') : n \in 1..Len(t) \/ n = Len(t) + 1
    BY <1>4, <2>1
  <2> QED
    BY <2>1, <2>2, <2>3
<1>16. Recorded'
  BY <1>2, <1>5, <1>15 DEF Recorded
<1>17. Listed'
  <2>1. table_file # 0 => table_file \in 1..MaxRuns /\ table_file # run
    BY <1>3, LoaderAssumption DEF AInv, IInv, TypeOK
  <2>2. table_file # 0 => tickers'[table_file] = tickers[table_file]
    BY <1>5, <2>1
  <2> QED
    BY <1>2, <2>2 DEF AInv, Listed
<1>18. OnDisk'
  <2>1. 0 <= Len(numbers')
    BY <1>6, <1>15, <1>2
  <2> QED
    BY <1>2, <1>3, <2>1 DEF OnDisk
<1>19. IInv'
  BY GoodLineIInv DEF AInv, AGoodLine
<1> QED
  BY <1>12, <1>13, <1>16, <1>17, <1>18, <1>19 DEF AInv

\* What NamesAfter leaves in the table file.
LEMMA NamesListed ==
  ASSUME AInv, pc = "table", NamesAfter, run' = run, tickers' = tickers
  PROVE  Listed' /\ names' \in Seq(Symbols \cup {CutName})
<1>1. run # 0 /\ names \in Seq(Symbols \cup {CutName})
  BY Running DEF Writing, AInv, Counted
<1>2. CASE table_file' = run /\ names' \in Table!Lookups
  <2>1. names' \in Seq(Symbols) /\ ListedFor(tickers[run], names')
    BY <1>2, LookupLists
  <2>2. names' \in Seq(Symbols \cup {CutName})
    BY <2>1
  <2>3. ListedFor(tickers[run], names)'
    BY <2>1 DEF ListedFor
  <2> QED
    BY <1>2, <2>1, <2>2 DEF Listed, ListedFor
<1>3. CASE table_file' = table_file /\ names' = names
  BY <1>1, <1>3 DEF AInv, Listed, ListedFor
<1>4. CASE table_file' = 0 /\ \E lookup \in Table!Lookups : names' \in PartsOf(lookup)
  <2>1. PICK lookup \in Table!Lookups : names' \in PartsOf(lookup)
    BY <1>4
  <2>2. lookup \in Seq(Symbols)
    BY LookupLists
  <2> QED
    BY <1>4, <2>1, <2>2, PartsType DEF Listed
<1> QED
  BY <1>2, <1>3, <1>4 DEF NamesAfter

LEMMA SaveTableAInv ==
  ASSUME AInv, ASaveTable
  PROVE  AInv'
<1>1. /\ pc = "table" /\ pc' \in {"idle", "inflate"} /\ run' = run /\ archive' = archive
      /\ table' = table /\ index' = index /\ tickers' = tickers /\ numbers' = numbers
      /\ NamesAfter
  BY DEF ASaveTable, SaveTable, AfterCompress
<1>2. IInv'
  BY SaveTableIInv DEF AInv, ASaveTable
<1>3. Listed' /\ names' \in Seq(Symbols \cup {CutName})
  BY <1>1, NamesListed
<1>4. Numbers!Numbered'
  BY <1>1 DEF AInv, Numbering, Numbers!Numbered, Numbers!Count
<1> QED
  BY <1>1, <1>2, <1>3, <1>4 DEF AInv, Counted, Numbering, Recorded, OnDisk

\* Dying leaves no more on disk than was compressed.
LEMMA DieOnDisk ==
  ASSUME AInv, Die, UNCHANGED <<tickers, numbers>>
  PROVE  Recorded' /\ OnDisk'
<1>1. CASE StreamOpen
  <2>1. /\ archive.run = run /\ archive.lines = 0 /\ ~archive.flushed
        /\ archive \in [run : 0..run, lines : 0..MaxLines, flushed : BOOLEAN]
        /\ run # 0
    BY <1>1, Running DEF StreamOpen, Writing, AInv, IInv, Created, TypeOK
  <2>2. PICK n \in archive.lines .. streamed : archive' = [archive EXCEPT !.lines = n]
    BY <1>1 DEF Die
  <2>3. archive'.run = run /\ archive'.lines = n /\ archive'.flushed = FALSE
    BY <2>1, <2>2
  <2>4. Len(numbers) = Len(tickers[run]) /\ Len(numbers) \in Nat
    BY <2>1 DEF AInv, Recorded, Counted
  <2>5. n <= Len(numbers)
    <3>1. CASE pc = "reading"
      <4>1. streamed <= lines_read /\ Len(tickers[run]) = lines_read
            /\ streamed \in 0..MaxLines
        BY <3>1 DEF AInv, IInv, TypeOK, Counted
      <4> QED
        BY <2>1, <2>2, <2>4, <4>1, LoaderAssumption
    <3>2. CASE pc = "input"
      BY <2>1, <2>2, <2>4, <3>2 DEF AInv, IInv, Created
    <3> QED
      BY <1>1, <3>1, <3>2 DEF StreamOpen
  <2> QED
    BY <2>1, <2>3, <2>5 DEF AInv, Recorded, OnDisk
<1>2. CASE ~StreamOpen
  BY <1>2 DEF Die, AInv, Recorded, OnDisk
<1> QED
  BY <1>1, <1>2

LEMMA KillAInv ==
  ASSUME AInv, AKill
  PROVE  AInv'
<1>1. /\ Die /\ pc' = "idle" /\ run' = run
      /\ table' = table /\ index' = index /\ tickers' = tickers /\ numbers' = numbers
  BY DEF AKill, Kill, Die
<1>2. IInv'
  BY KillIInv DEF AInv, AKill
<1>3. Listed' /\ names' \in Seq(Symbols \cup {CutName})
  <2>1. CASE pc = "table"
    BY <1>1, <2>1, NamesListed DEF AKill
  <2>2. CASE pc # "table"
    BY <1>1, <2>2 DEF AKill, Die, AInv, Counted, Listed, ListedFor
  <2> QED
    BY <2>1, <2>2
<1>4. Recorded' /\ OnDisk'
  BY <1>1, DieOnDisk
<1>5. Numbers!Numbered'
  BY <1>1 DEF AInv, Numbering, Numbers!Numbered, Numbers!Count
<1> QED
  BY <1>1, <1>2, <1>3, <1>4, <1>5 DEF AInv, Counted, Numbering
\* While nothing is compressed and no table is written, what is in the table and the
\* files stays what it is.
LEMMA UnchangedContents ==
  ASSUME AInv, UNCHANGED contents, run' \in {run, run + 1}, table_file' = table_file,
         pc' \in {"input", "reading", "table"} =>
           run' = run /\ pc \in {"input", "reading", "table"}
  PROVE  Numbering' /\ Listed'
<1>1. /\ table' = table /\ index' = index /\ tickers' = tickers
      /\ numbers' = numbers /\ names' = names
  BY DEF contents
<1>2. Numbers!Numbered'
  BY <1>1 DEF AInv, Numbering, Numbers!Numbered, Numbers!Count
<1>3. Numbering'
  BY <1>1, <1>2 DEF AInv, Numbering
<1> QED
  BY <1>1, <1>3 DEF AInv, Listed, ListedFor

LEMMA StartAInv ==
  ASSUME AInv, NEW mode \in Modes, Start(mode), UNCHANGED contents
  PROVE  AInv'
<1>1. /\ run' = run + 1 /\ run < MaxRuns /\ run \in 0..MaxRuns
      /\ archive' = archive /\ table_file' = table_file
      /\ pc' \in {"open", "inflate"}
      /\ tickers' = tickers /\ numbers' = numbers /\ names' = names
  BY DEF Start, files, contents, AInv, IInv, TypeOK
<1>2. run' \in 1..MaxRuns /\ run' > run /\ \A r \in 1..MaxRuns : r > run' => r > run
  BY <1>1, LoaderAssumption
<1>3. Counted'
  BY <1>1, <1>2 DEF AInv, Counted
<1>4. Numbering' /\ Listed'
  BY <1>1, UnchangedContents
<1>5. Recorded' /\ OnDisk'
  BY <1>1 DEF AInv, Recorded, OnDisk
<1>6. IInv'
  BY StartIInv DEF AInv
<1> QED
  BY <1>3, <1>4, <1>5, <1>6 DEF AInv

LEMMA OpenInputAInv ==
  ASSUME AInv, OpenInput, UNCHANGED contents
  PROVE  AInv'
<1>1. /\ pc = "input" /\ pc' = "reading" /\ run' = run /\ lines_read' = 0
      /\ archive' = archive /\ table_file' = table_file
      /\ tickers' = tickers /\ numbers' = numbers /\ names' = names
  BY DEF OpenInput, files, contents
<1>2. tickers[run] = << >> /\ Len(<< >>) = 0
  BY <1>1 DEF AInv, Counted
<1>3. Counted'
  BY <1>1, <1>2 DEF AInv, Counted
<1>4. Numbering' /\ Listed'
  BY <1>1, UnchangedContents
<1>5. Recorded' /\ OnDisk'
  BY <1>1 DEF AInv, Recorded, OnDisk
<1>6. IInv'
  BY OpenInputIInv DEF AInv
<1> QED
  BY <1>3, <1>4, <1>5, <1>6 DEF AInv

LEMMA CloseAInv ==
  ASSUME AInv, Close, UNCHANGED contents
  PROVE  AInv'
<1>1. /\ pc = "reading" /\ pc' = "table" /\ run' = run /\ lines_read = input
      /\ table_file' = table_file /\ WriteStream(input) /\ CloseStream
      /\ tickers' = tickers /\ numbers' = numbers /\ names' = names
      /\ archive.run = run /\ archive.lines = 0 /\ ~archive.flushed
      /\ streamed \in 0..MaxLines /\ streamed <= lines_read /\ input \in 0..MaxLines
      /\ archive \in [run : 0..run, lines : 0..MaxLines, flushed : BOOLEAN]
  BY DEF Close, contents, AInv, IInv, TypeOK, Created
<1>2. run # 0 /\ Len(numbers) = Len(tickers[run]) /\ Len(tickers[run]) = input
  BY <1>1, Running DEF Writing, AInv, Recorded, Counted
<1>3. streamed' \in {streamed, input} /\ (good' => streamed' = input)
  BY <1>1, WriteStreamCases DEF AInv
<1>4. /\ archive'.run = run /\ archive'.lines <= input
      /\ archive'.flushed => archive'.lines = input
  <2>1. CASE good' /\ archive' = [archive EXCEPT !.lines = streamed', !.flushed = TRUE]
    <3>1. archive'.run = run /\ archive'.lines = streamed' /\ streamed' = input /\ input \in Nat
      BY <1>1, <1>3, <2>1, LoaderAssumption
    <3> QED
      BY <3>1
  <2>2. CASE \E n \in archive.lines .. streamed' : archive' = [archive EXCEPT !.lines = n]
    <3>1. PICK n \in archive.lines .. streamed' : archive' = [archive EXCEPT !.lines = n]
      BY <2>2
    <3>2. archive'.run = run /\ archive'.lines = n /\ ~archive'.flushed
      BY <1>1, <3>1
    <3>3. n <= input
      BY <1>1, <1>3, <3>1, LoaderAssumption
    <3> QED
      BY <3>2, <3>3
  <2> QED
    BY <1>1, <2>1, <2>2 DEF CloseStream
<1>5. Counted'
  BY <1>1 DEF AInv, Counted
<1>6. Numbering' /\ Listed'
  BY <1>1, UnchangedContents
<1>7. Recorded' /\ OnDisk'
  BY <1>1, <1>2, <1>4 DEF AInv, Recorded, OnDisk
<1>8. IInv'
  BY CloseIInv DEF AInv
<1> QED
  BY <1>5, <1>6, <1>7, <1>8 DEF AInv

\* A run that ends at a bad line, or whose output or input cannot be opened, and one
\* that inflates.
LEMMA EndAInv ==
  ASSUME AInv, UNCHANGED contents,
         \/ OpenWriteStreamFails \/ MissingInput \/ Inflate
         \/ BadNumber \/ ShortLine \/ BadPrice
  PROVE  AInv'
<1>1. /\ tickers' = tickers /\ numbers' = numbers /\ names' = names
  BY DEF contents
<1>2. /\ pc' \in {"idle", "inflate"} /\ run' = run /\ table_file' = table_file
      /\ Die \/ archive' = archive
  BY DEF OpenWriteStreamFails, MissingInput, AfterCompress, Inflate, BadNumber, ShortLine,
         BadPrice, Die, files
<1>3. Counted'
  BY <1>1, <1>2 DEF AInv, Counted
<1>4. Numbering' /\ Listed'
  BY <1>2, UnchangedContents
<1>5. Recorded' /\ OnDisk'
  <2>1. CASE Die
    BY <1>1, <2>1, DieOnDisk
  <2>2. CASE archive' = archive
    BY <1>1, <2>2 DEF AInv, Recorded, OnDisk
  <2> QED
    BY <1>2, <2>1, <2>2
<1>6. IInv'
  BY OpenWriteStreamFailsIInv, MissingInputIInv, InflateIInv, BadLineIInv DEF AInv
<1> QED
  BY <1>3, <1>4, <1>5, <1>6 DEF AInv

LEMMA NextAInv ==
  ASSUME AInv, [ANext]_avars
  PROVE  AInv'
<1>1. CASE AOpenWriteStream
  BY <1>1, OpenAInv
<1>2. CASE AGoodLine
  BY <1>2, GoodLineAInv
<1>3. CASE ASaveTable
  BY <1>3, SaveTableAInv
<1>4. CASE AKill
  BY <1>4, KillAInv
<1>5. CASE Others /\ UNCHANGED contents
  <2>1. ASSUME NEW mode \in Modes, Start(mode) PROVE AInv'
    BY <1>5, <2>1, StartAInv
  <2>2. CASE OpenInput
    BY <1>5, <2>2, OpenInputAInv
  <2>3. CASE Close
    BY <1>5, <2>3, CloseAInv
  <2>4. CASE \/ OpenWriteStreamFails \/ MissingInput \/ Inflate
             \/ BadNumber \/ ShortLine \/ BadPrice
    BY <1>5, <2>4, EndAInv
  <2> QED
    BY <1>5, <2>1, <2>2, <2>3, <2>4 DEF Others
<1>6. CASE UNCHANGED avars
  <2>1. UNCHANGED contents /\ UNCHANGED vars
    BY <1>6 DEF avars
  <2>2. IInv'
    BY <2>1, NextIInv DEF AInv
  <2>3. /\ tickers' = tickers /\ numbers' = numbers /\ names' = names
        /\ pc' = pc /\ run' = run /\ lines_read' = lines_read
        /\ archive' = archive /\ table_file' = table_file
    BY <2>1 DEF contents, vars, files, progress
  <2>4. Numbering' /\ Listed'
    BY <2>1, <2>3, UnchangedContents
  <2> QED
    BY <2>2, <2>3, <2>4 DEF AInv, Counted, Recorded, OnDisk
<1> QED
  BY <1>1, <1>2, <1>3, <1>4, <1>5, <1>6 DEF ANext

\* In every reachable state the table and both files hold the numbers that follow from
\* the inputs of their runs.
THEOREM ContentsHold == ASpec => []AInv
BY InitAInv, NextAInv, PTL DEF ASpec

-----------------------------------------------------------------------------
(* What it implies.                                                        *)

\* What is on disk is no more than what was compressed, and no more is compressed than
\* the input has lines, whenever a run is killed, fails or gives up.
THEOREM ContentsTyped == ASpec => []ATypeOK
<1>1. AInv => ATypeOK
  <2> SUFFICES ASSUME AInv PROVE ATypeOK
    OBVIOUS
  <2>1. archive.lines <= Len(numbers)
    <3>1. Len(numbers) \in Nat
      BY DEF AInv, Counted
    <3> QED
      BY <3>1 DEF AInv, OnDisk
  <2> QED
    BY <2>1 DEF AInv, Counted, Recorded, ATypeOK
<1> QED
  BY <1>1, ContentsHold, PTL

\* A table of an input that begins like that of the archive has all its tickers where
\* the numbers say.
LEMMA AlikeDecodes ==
  ASSUME AInv, archive.run # 0, table_file # 0,
         Len(tickers[archive.run]) <= Len(tickers[table_file]),
         \A n \in 1..Len(tickers[archive.run]) :
            tickers[table_file][n] = tickers[archive.run][n]
  PROVE  Decodes
<1> DEFINE t == tickers[archive.run]
           u == tickers[table_file]
<1>1. archive.run \in 1..MaxRuns /\ table_file \in 1..MaxRuns /\ archive.lines \in Nat
  <2>1. /\ run \in 0..MaxRuns /\ table_file \in 0..run
        /\ archive \in [run : 0..run, lines : 0..MaxLines, flushed : BOOLEAN]
    BY DEF AInv, IInv, TypeOK
  <2> QED
    BY <2>1, LoaderAssumption
<1>2. t \in Seq(Symbols) /\ u \in Seq(Symbols) /\ Len(t) \in Nat
  BY <1>1 DEF AInv, Counted
<1>3. /\ archive.lines <= Len(t)
      /\ \A n \in 1..Len(t) : numbers[n] = NumberIn(t, t[n])
  BY DEF AInv, Recorded, OnDisk
<1>4. ListedFor(u, names)
  BY DEF AInv, Listed
<1>5. Len(t) <= Len(u) /\ \A n \in 1..Len(t) : u[n] = t[n]
  OBVIOUS
<1> HIDE DEF t, u
<1>6. ASSUME NEW n \in 1..archive.lines
      PROVE  numbers[n] + 1 \in DOMAIN names /\ names[numbers[n] + 1] = t[n]
  <2>1. n \in 1..Len(t) /\ n \in 1..Len(u)
    BY <1>1, <1>2, <1>3, <1>5
  <2>2. numbers[n] = NumberIn(u, u[n])
    BY <1>2, <1>3, <1>5, <2>1, NumberKept
  <2> QED
    BY <1>4, <1>5, <2>1, <2>2 DEF ListedFor
<1> QED
  BY <1>6 DEF Decodes, t

\* The table of the archive's own run decodes every record on disk, and the ticks of a
\* flushed archive are all those of its run.
THEOREM MatchingFilesDecode == ASpec => []MatchingDecodes
<1>1. AInv => MatchingDecodes
  <2> SUFFICES ASSUME AInv, archive.run # 0, table_file = archive.run
               PROVE  Decodes /\ (archive.flushed => archive.lines = Len(tickers[archive.run]))
    BY DEF MatchingDecodes
  <2>1. Len(tickers[archive.run]) \in Nat
    <3>1. Len(numbers) \in Nat /\ Len(numbers) = Len(tickers[archive.run])
      BY DEF AInv, Counted, Recorded
    <3> QED
      BY <3>1
  <2>2. Decodes
    BY <2>1, AlikeDecodes
  <2> QED
    BY <2>2 DEF AInv, Recorded, OnDisk
<1> QED
  BY <1>1, ContentsHold, PTL

\* So does the table of another run whose input begins with that of the archive: what a
\* run leaves that is begun again on the same input and killed is still readable.
THEOREM SameInputDecoded == ASpec => []SameInputDecodes
<1>1. AInv => SameInputDecodes
  <2> SUFFICES ASSUME AInv, archive.run # 0, table_file # 0,
                      IsPrefix(tickers[archive.run], tickers[table_file])
               PROVE  Decodes
    BY DEF SameInputDecodes
  <2> DEFINE t == tickers[archive.run]
             u == tickers[table_file]
  <2>1. archive.run \in 1..MaxRuns /\ table_file \in 1..MaxRuns
    <3>1. /\ run \in 0..MaxRuns /\ table_file \in 0..run
          /\ archive \in [run : 0..run, lines : 0..MaxLines, flushed : BOOLEAN]
      BY DEF AInv, IInv, TypeOK
    <3> QED
      BY <3>1, LoaderAssumption
  <2>2. t \in Seq(Symbols) /\ u \in Seq(Symbols)
    BY <2>1 DEF AInv, Counted
  <2>3. Len(t) <= Len(u) /\ SubSeq(t, 1, Len(t)) = SubSeq(u, 1, Len(t))
    BY DEF IsPrefix
  <2> HIDE DEF t, u
  <2>4. ASSUME NEW n \in 1..Len(t) PROVE u[n] = t[n]
    <3>1. SubSeq(t, 1, Len(t))[n] = t[n] /\ SubSeq(u, 1, Len(t))[n] = u[n]
      BY <2>2, <2>3
    <3> QED
      BY <2>3, <3>1
  <2> QED
    BY <2>3, <2>4, AlikeDecodes DEF t, u
<1> QED
  BY <1>1, ContentsHold, PTL
=============================================================================
