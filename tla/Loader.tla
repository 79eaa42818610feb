------------------------------- MODULE Loader -------------------------------
(***************************************************************************)
(* class BatTickLoader and main: runs of the program, one after another,   *)
(* over the same two files "compressed" and "compressed.table".  A run     *)
(* compresses an input file line by line, inflates, or does both.  It may  *)
(* be killed between any two steps, and output operations may fail.        *)
(*                                                                         *)
(* A file is described by the run that created it and how much of that     *)
(* run's data is in it, counted in lines of the input.                     *)
(***************************************************************************)
EXTENDS Integers

CONSTANTS
  LINES_PER_STREAM,  \* the stream is written every so many lines (10)
  MaxLines,          \* bound: lines of an input file
  MaxRuns            \* bound: runs of the program

ASSUME LoaderAssumption ==
  /\ LINES_PER_STREAM \in Nat \ {0}
  /\ MaxLines \in Nat
  /\ MaxRuns \in Nat

VARIABLES
  pc,
  run,          \* number of this run
  arg,          \* its mode: "c", "i" or "b"
  err,          \* main's error flag, not initialized
  input,        \* lines of the input file
  lines_read,
  streamed,     \* lines given to the output stream; its own buffer may hold
                \* them still
  good,         \* fstreamer.good()
  archive,      \* the file "compressed": its run, the lines on disk, and if it
                \* was flushed to the end
  table_file,   \* run of the file "compressed.table", 0 if it is of none
  said,         \* the message the run ended with: "compressed" and "inflated" are
                \* those of success
  failed        \* an output operation has failed, in this run or before

progress == <<input, lines_read, streamed, good>>
files == <<archive, table_file>>
vars == <<pc, run, arg, err, progress, files, said, failed>>

Modes == {"c", "i", "b"}

NoFile == [run |-> 0, lines |-> 0, flushed |-> FALSE]

Init ==
  /\ pc = "idle"
  /\ run = 0
  /\ arg = "c"
  /\ err \in BOOLEAN
  /\ input = 0 /\ lines_read = 0 /\ streamed = 0
  /\ good = TRUE
  /\ archive = NoFile
  /\ table_file = 0
  /\ said = "nothing"
  /\ failed = FALSE

\* err is a local variable of main that nothing initializes.
Start(mode) ==
  /\ pc = "idle"
  /\ run < MaxRuns
  /\ run' = run + 1
  /\ arg' = mode
  /\ err' \in BOOLEAN
  /\ said' = "nothing"
  /\ pc' = IF mode = "i" THEN "inflate" ELSE "open"
  /\ UNCHANGED <<progress, files, failed>>

StreamOpen == pc \in {"input", "reading"}

\* What an open stream holds in its buffer when the process dies may or may not
\* have reached the disk: neither exit nor abort destroys the BatBuffer.  Dying
\* while the table is saved leaves the old table, part of the new one, or all of it.
Die ==
  /\ pc' = "idle"
  /\ \E n \in archive.lines .. streamed :
       archive' = IF StreamOpen THEN [archive EXCEPT !.lines = n] ELSE archive
  /\ table_file' \in IF pc = "table" THEN {table_file, 0, run} ELSE {table_file}
  /\ UNCHANGED <<run, arg, progress, failed>>

Kill == pc # "idle" /\ Die /\ UNCHANGED <<err, said>>

-----------------------------------------------------------------------------
(* BatTickLoader::Compress.                                                *)

\* Faulty variants: the output is appended to; the stream of the last run is
\* taken to be still open.
OpenWriteStreamAppending ==
  /\ pc = "open"
  /\ archive' = archive
  /\ good' = TRUE
  /\ streamed' = 0
  /\ pc' = "input"
  /\ UNCHANGED <<run, arg, err, input, lines_read, table_file, said, failed>>

OpenWriteStreamNoReset ==
  /\ pc = "open"
  /\ archive' = [run |-> run, lines |-> 0, flushed |-> FALSE]
  /\ pc' = "input"
  /\ UNCHANGED <<run, arg, err, progress, table_file, said, failed>>

\* Opening the output empties it, before the input is looked at.
OpenWriteStream ==
  /\ pc = "open"
  /\ archive' = [run |-> run, lines |-> 0, flushed |-> FALSE]
  /\ good' = TRUE
  /\ streamed' = 0
  /\ pc' = "input"
  /\ UNCHANGED <<run, arg, err, input, lines_read, table_file, said, failed>>

OpenWriteStreamFails ==
  /\ pc = "open"
  /\ pc' = "idle"
  /\ said' = "not_opened"
  /\ failed' = TRUE
  /\ UNCHANGED <<run, arg, err, progress, files>>

AfterCompress == IF arg = "b" THEN "inflate" ELSE "idle"

OpenInput ==
  /\ pc = "input"
  /\ input' \in 0..MaxLines
  /\ lines_read' = 0
  /\ pc' = "reading"
  /\ UNCHANGED <<run, arg, err, streamed, good, files, said, failed>>

\* main does not look at err: it goes on to inflate.
MissingInput ==
  /\ pc = "input"
  /\ err' = TRUE
  /\ said' = "no_input"
  /\ pc' = AfterCompress
  /\ UNCHANGED <<run, arg, progress, files, failed>>

\* WriteStream( ) after every LINES_PER_STREAM-th line.  A stream that has failed
\* once stays failed, and nothing is written to it any more.
WriteStream(lines) ==
  \/ good /\ streamed' = lines /\ good' = good
  \/ good /\ lines > 0 /\ good' = FALSE /\ streamed' = streamed
  \/ ~good /\ UNCHANGED <<good, streamed>>

\* Faulty variant: the first batch is the only one.
GoodLineOneBatch ==
  /\ pc = "reading"
  /\ lines_read < input
  /\ lines_read' = lines_read + 1
  /\ err' = FALSE
  /\ IF lines_read' = LINES_PER_STREAM
     THEN WriteStream(lines_read')
     ELSE UNCHANGED <<good, streamed>>
  /\ failed' = (failed \/ good # good')
  /\ UNCHANGED <<pc, run, arg, input, files, said>>

GoodLine ==
  /\ pc = "reading"
  /\ lines_read < input
  /\ lines_read' = lines_read + 1
  /\ err' = FALSE
  /\ IF lines_read' % LINES_PER_STREAM = 0
     THEN WriteStream(lines_read')
     ELSE UNCHANGED <<good, streamed>>
  /\ failed' = (failed \/ good # good')
  /\ UNCHANGED <<pc, run, arg, input, files, said>>

\* A number that does not parse: GetMarketData sets err and Compress exits.
BadNumber ==
  /\ pc = "reading"
  /\ lines_read < input
  /\ err' = TRUE
  /\ said' = "bad_line"
  /\ Die

\* Fields missing: an empty MarketData, with err as it was.  Unless err happens
\* to be set, the empty tick is compressed: its side is none of B, A, T, where
\* Compress asserts, and its price is not a number, which std::stod throws on.
ShortLine ==
  /\ pc = "reading"
  /\ lines_read < input
  /\ err' = err
  /\ said' = IF err THEN "bad_line" ELSE "aborted"
  /\ Die

\* A price that is not a number: std::stod throws and nothing catches.
BadPrice ==
  /\ pc = "reading"
  /\ lines_read < input
  /\ err' = FALSE
  /\ said' = "aborted"
  /\ Die

\* Closing writes out what the stream holds, which may fail in its turn.
CloseStream ==
  \/ /\ good'
     /\ archive' = [archive EXCEPT !.lines = streamed', !.flushed = TRUE]
     /\ failed' = failed
  \/ /\ good' => input > 0
     /\ \E n \in archive.lines .. streamed' : archive' = [archive EXCEPT !.lines = n]
     /\ failed' = TRUE

\* Faulty variant: the error is that of the stream before the last words.
CloseErrorFirst ==
  /\ pc = "reading"
  /\ lines_read = input
  /\ err' = ~good
  /\ WriteStream(input)
  /\ CloseStream
  /\ pc' = "table"
  /\ UNCHANGED <<run, arg, input, lines_read, table_file, said>>

\* Faulty variant: the table is saved although the stream was never closed.
CloseNothing ==
  /\ pc = "reading"
  /\ lines_read = input
  /\ pc' = "table"
  /\ UNCHANGED <<run, arg, err, progress, files, said, failed>>

\* Compress at the end of the input and CloseWriteStream, which computes the error
\* before it closes the stream.
Close ==
  /\ pc = "reading"
  /\ lines_read = input
  /\ WriteStream(input)
  /\ err' = ~good'
  /\ CloseStream
  /\ pc' = "table"
  /\ UNCHANGED <<run, arg, input, lines_read, table_file, said>>

\* A table file that cannot be opened is left alone, one that cannot be written
\* to the end is of no run, and the message of success follows whatever happened.
SaveTable ==
  /\ pc = "table"
  /\ \/ table_file' = run /\ failed' = failed
     \/ table_file' \in {table_file, 0} /\ failed' = TRUE
  /\ said' = "compressed"
  /\ pc' = AfterCompress
  /\ UNCHANGED <<run, arg, err, progress, archive>>

-----------------------------------------------------------------------------
(* BatTickLoader::Inflate.                                                 *)

\* The archive is whole and the table is that of its data.
Matching == archive.flushed /\ table_file = archive.run

\* What comes of InflateFile: the records of a whole file with their tickers; of
\* a cut file, or with the table of other data, what happens to be decoded, or a
\* read past the end.  A missing file counts as an empty one.  The message of
\* success follows whatever was written.
Inflate ==
  /\ pc = "inflate"
  /\ \/ /\ err' = FALSE
        /\ said' = "inflated"
        /\ failed' = failed
     \/ /\ err' = TRUE
        /\ said' \in {"not_saved", "inflated"}
        /\ failed' = TRUE
     \/ /\ archive.run # 0 /\ ~Matching
        /\ said' = "aborted"
        /\ UNCHANGED <<err, failed>>
  /\ pc' = "idle"
  /\ UNCHANGED <<run, arg, progress, files>>

Next ==
  \/ \E mode \in Modes : Start(mode)
  \/ OpenWriteStream
  \/ OpenWriteStreamFails
  \/ OpenInput
  \/ MissingInput
  \/ GoodLine
  \/ BadNumber
  \/ ShortLine
  \/ BadPrice
  \/ Close
  \/ SaveTable
  \/ Inflate
  \/ Kill

Spec == Init /\ [][Next]_vars

-----------------------------------------------------------------------------
(* Properties.                                                             *)

\* No file is from a run that has not been, no more lines are on disk than were
\* given to the stream, and no more given than read.
TypeOK ==
  /\ pc \in {"idle", "open", "input", "reading", "table", "inflate"}
  /\ run \in 0..MaxRuns
  /\ arg \in Modes
  /\ err \in BOOLEAN
  /\ input \in 0..MaxLines /\ lines_read \in 0..input
  /\ streamed \in 0..MaxLines
  /\ good \in BOOLEAN /\ failed \in BOOLEAN
  /\ archive \in [run : 0..run, lines : 0..MaxLines, flushed : BOOLEAN]
  /\ pc = "reading" => archive.lines <= streamed /\ streamed <= lines_read
  /\ table_file \in 0..run

\* Unless an output failed, a table from the same run as the archive says that the
\* archive is whole: whenever a run is killed or ends early, it leaves the table
\* of an older run.
TableMeansWhole ==
  ~failed /\ table_file = archive.run /\ archive.run # 0 => archive.flushed

\* Unless an output failed, the program holds less than a batch of lines in memory
\* that were not given to the stream.
StreamedInBatches ==
  ~failed /\ pc = "reading" => lines_read - streamed < LINES_PER_STREAM

\* When CloseWriteStream reports no error, every line was given to the stream,
\* whichever WriteStream before it may have failed.
NoErrorAllStreamed == pc = "table" /\ ~err => streamed = input

\* The archive holds every line of the input of this run and the table is its own.
ResultComplete ==
  /\ archive = [run |-> run, lines |-> input, flushed |-> TRUE]
  /\ table_file = run

\* Unless an output failed, "Compressed successfully!" is true.
SuccessUnlessFailed == ~failed /\ said = "compressed" => ResultComplete

\* "Compressed successfully!", and "there should be two files: compressed and
\* compressed.table" (README), whatever happened.
SuccessIsTrue == said = "compressed" => ResultComplete
=============================================================================
