------------------------------ MODULE Archive ------------------------------
(***************************************************************************)
(* What is in the two files of Loader: each of its actions together with   *)
(* what it does to the ticker numbers of the compressed file and to the    *)
(* lines of the table file.  Composes Loader, for the runs of the program  *)
(* and the files they leave behind, and SymbolTable, for the numbers.      *)
(***************************************************************************)
EXTENDS Loader, Sequences, SequencesExt

CONSTANTS
  Symbols,      \* ticker names
  CutName,      \* what is left of a name whose line was not written to its end
  INDEX_RANGE   \* values of a ticker number

\* No input has more different tickers than there are numbers for them.
ASSUME NumbersSuffice ==
  /\ INDEX_RANGE \in Nat \ {0}
  /\ IsFiniteSet(Symbols)
  /\ Cardinality(Symbols) <= INDEX_RANGE

VARIABLES
  table, index, \* the symbol table of the running Compress
  tickers,      \* the tickers each run has compressed
  numbers,      \* the ticker numbers of the records of the archive's run
  names         \* the lines of the file "compressed.table"

contents == <<table, index, tickers, numbers, names>>
avars == <<vars, contents>>

Table == INSTANCE SymbolTable

AInit ==
  /\ Init
  /\ Table!NewTable
  /\ tickers = [r \in 1..MaxRuns |-> << >>]
  /\ numbers = << >>
  /\ names = << >>

\* Compress has a BatBuffer, and it a SymbolTable, of its own.
AOpenWriteStream ==
  /\ OpenWriteStream
  /\ Table!ClearTable
  /\ numbers' = << >>
  /\ UNCHANGED <<tickers, names>>

\* Faulty variant: the name is numbered at its first line only, and 0 later.
AGoodLineForgetting ==
  /\ GoodLine
  /\ \E s \in Symbols :
       /\ Table!Insert(s)
       /\ numbers' = Append(numbers, IF s \in DOMAIN table THEN 0 ELSE index)
       /\ tickers' = [tickers EXCEPT ![run] = Append(@, s)]
  /\ names' = names

AGoodLine ==
  /\ GoodLine
  /\ \E s \in Symbols :
       /\ Table!Insert(s)
       /\ numbers' = Append(numbers, Table!NumberOf(s))
       /\ tickers' = [tickers EXCEPT ![run] = Append(@, s)]
  /\ names' = names

\* Part of a table file: some of its lines, the last one perhaps cut short.
PartsOf(lookup) ==
  LET lines(n) == SubSeq(lookup, 1, n) IN
  {lines(n) : n \in 0 .. Len(lookup)}
    \cup {Append(lines(n), CutName) : n \in 0 .. Len(lookup) - 1}

\* Faulty variant: lines are added to the file that is there.
NamesAfterAppending ==
  \/ table_file' = run /\ \E lookup \in Table!Lookups : names' = names \o lookup
  \/ table_file' # run /\ table_file' = table_file /\ names' = names
  \/ table_file' = 0 /\ \E lookup \in Table!Lookups : names' \in PartsOf(lookup)

\* What the table file holds after a step of Loader that may write it: all of the
\* table, what was there before, or a part.
NamesAfter ==
  \/ table_file' = run /\ names' \in Table!Lookups
  \/ table_file' # run /\ table_file' = table_file /\ names' = names
  \/ table_file' = 0 /\ \E lookup \in Table!Lookups : names' \in PartsOf(lookup)

ASaveTable ==
  /\ SaveTable
  /\ NamesAfter
  /\ UNCHANGED <<table, index, tickers, numbers>>

AKill ==
  /\ Kill
  /\ IF pc = "table" THEN NamesAfter ELSE names' = names
  /\ UNCHANGED <<table, index, tickers, numbers>>

\* The other actions of Loader: nothing is compressed and no table is written.
Others ==
  \/ \E mode \in Modes : Start(mode)
  \/ OpenWriteStreamFails
  \/ OpenInput
  \/ MissingInput
  \/ BadNumber
  \/ ShortLine
  \/ BadPrice
  \/ Close
  \/ Inflate

ANext ==
  \/ AOpenWriteStream
  \/ AGoodLine
  \/ ASaveTable
  \/ AKill
  \/ Others /\ UNCHANGED contents

ASpec == AInit /\ [][ANext]_avars

-----------------------------------------------------------------------------
(* Properties.                                                             *)

\* What is compressed is counted as Loader counts it, and the numbers are those of
\* the archive's run.
ATypeOK ==
  /\ \A r \in 1..MaxRuns : tickers[r] \in Seq(Symbols) /\ Len(tickers[r]) <= MaxLines
  /\ \A r \in 1..MaxRuns : r > run => tickers[r] = << >>
  /\ archive.run # 0 => Len(numbers) = Len(tickers[archive.run])
  /\ archive.lines <= Len(numbers)
  /\ names \in Seq(Symbols \cup {CutName})

\* InflateFile writes symtable[index] for every record on disk: the tickers compressed.
Decodes ==
  \A n \in 1..archive.lines :
    /\ numbers[n] + 1 \in DOMAIN names
    /\ names[numbers[n] + 1] = tickers[archive.run][n]

\* "Both files are required to uncompress the file": a table of the same run as the
\* archive decodes every record that is on disk, in the range of the table, and
\* these are all the ticks of the run if the archive was flushed.
MatchingDecodes ==
  archive.run # 0 /\ table_file = archive.run =>
    /\ Decodes
    /\ archive.flushed => archive.lines = Len(tickers[archive.run])

\* The table of another run serves as well if that run compressed the same ticks and
\* perhaps more: after a run that was killed, failed or ended at a bad line is
\* begun again on the same input, what it left is decoded by the table of the run
\* before, since the numbers follow from the input alone.
SameInputDecodes ==
  /\ archive.run # 0 /\ table_file # 0
  /\ IsPrefix(tickers[archive.run], tickers[table_file])
  => Decodes
=============================================================================
