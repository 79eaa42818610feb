--------------------------- MODULE CsvFileChecker ---------------------------
(***************************************************************************)
(* The program csv_filechecker: it reads a CSV file word by word, splits    *)
(* each word at its commas and converts the first eight fields.            *)
(* checkfile_read1, which its main calls, prints each field converted;      *)
(* checkfile_read2 prints the whole word before it converts anything.       *)
(***************************************************************************)
EXTENDS Integers, Sequences, SequencesExt

CONSTANTS
  Lines,        \* lines a file may have, sequences of columns
  MaxLines      \* bound: lines of a file

\* What a column may be to the checker: "spaced" is a text with a space in it.
Columns == {"empty", "word", "number", "spaced"}

ASSUME CheckedLinesAssumption == Lines \subseteq Seq(Columns)

VARIABLES
  reader,       \* which of the two functions runs
  file,         \* the lines of the file
  unread,       \* the words operator>> has not extracted yet
  rows,         \* what was printed of each word extracted
  pc

vars == <<reader, file, unread, rows, pc>>

\* operator>> never finds an empty word.
Extracted(words, word) ==
  IF word \in {<< >>, <<"empty">>} THEN words ELSE Append(words, word)

\* It ends a word at every space: the words behind n columns, and the one it is in.
WordsOf(l) ==
  LET read[n \in 0..Len(l)] ==
        IF n = 0 THEN [words |-> << >>, word |-> << >>]
        ELSE IF l[n] = "spaced"
        THEN [words |-> Extracted(read[n - 1].words, Append(read[n - 1].word, "word")),
              word  |-> <<"word">>]
        ELSE [words |-> read[n - 1].words, word |-> Append(read[n - 1].word, l[n])]
  IN Extracted(read[Len(l)].words, read[Len(l)].word)

Init ==
  /\ reader \in {"checkfile_read1", "checkfile_read2"}
  /\ file \in UNION {[1..n -> Lines] : n \in 0..MaxLines}
  /\ unread = FlattenSeq([n \in DOMAIN file |-> WordsOf(file[n])])
  /\ rows = << >>
  /\ pc = "reading"

NumFields == 8
Numbers == {5, 6, 8}

\* Faulty variant: the last token is taken for the rest behind the last comma.
TokensButLast(word) == SubSeq(word, 1, Len(word) - 1)

\* Faulty variant: the fields are the tokens from the second on.
TokensShifted(word) == Tail(word)

\* Both the regex iterator and getline see nothing behind a comma at the end.
Tokens(word) ==
  IF Last(word) = "empty" THEN SubSeq(word, 1, Len(word) - 1) ELSE word

\* A field that is not there, or is not the number it should be.
Bad(tokens, n) ==
  n > Len(tokens) \/ (n \in Numbers /\ tokens[n] # "number")

BadFields(word) == {n \in 1..NumFields : Bad(Tokens(word), n)}

FirstBad(word) ==
  CHOOSE n \in BadFields(word) : \A m \in BadFields(word) : n <= m

\* checkfile_read1 prints the fields in front of the first bad one.
Printed(word) ==
  IF reader = "checkfile_read2" THEN word
  ELSE SubSeq(Tokens(word), 1,
              IF BadFields(word) = {} THEN NumFields ELSE FirstBad(word) - 1)

\* The next word is extracted, and it or its fields are printed.
PrintWord ==
  /\ pc = "reading"
  /\ unread # << >>
  /\ rows' = Append(rows, Printed(Head(unread)))
  /\ unread' = Tail(unread)
  /\ UNCHANGED <<reader, file>>

CheckWord ==
  /\ PrintWord
  /\ BadFields(Head(unread)) = {}
  /\ pc' = pc

\* checkfile_read1 does not look if there is a token before it uses it, and does not
\* catch what std::stoul throws; checkfile_read2 returns in both cases.
RejectWord ==
  /\ PrintWord
  /\ BadFields(Head(unread)) # {}
  /\ pc' = IF reader = "checkfile_read2" THEN "returned"
           ELSE IF FirstBad(Head(unread)) > Len(Tokens(Head(unread))) THEN "undefined"
           ELSE "aborted"

EndOfFile ==
  /\ pc = "reading"
  /\ unread = << >>
  /\ pc' = "done"
  /\ UNCHANGED <<reader, file, unread, rows>>

Finished == pc # "reading" /\ UNCHANGED vars

Next == CheckWord \/ RejectWord \/ EndOfFile \/ Finished

Spec == Init /\ [][Next]_vars

-----------------------------------------------------------------------------
(* Properties.                                                             *)

\* The ticks InflateFile writes: eight columns, none empty, with their numbers.
\* A ticker may have a space.
Tick(l) ==
  /\ Len(l) = NumFields
  /\ \A n \in DOMAIN l : l[n] # "empty" /\ (n \in Numbers => l[n] = "number")
  /\ \A n \in DOMAIN l : l[n] = "spaced" => n = 1

Ticks == \A n \in DOMAIN file : Tick(file[n])

SplitTick == \E n \in DOMAIN file : file[n][1] = "spaced"

\* A file of ticks whose tickers have no spaces is read to its end, and each line is
\* printed as its own row.  A tick whose ticker has a space is two words, "ABC" and
\* "D,...", of which neither reader takes the first for a tick, or the two together: it
\* never gets to the end of a file that has such a line.
ChecksEveryTick ==
  Ticks =>
    IF SplitTick THEN pc # "done"
    ELSE /\ pc \in {"reading", "done"}
         /\ IsPrefix(rows, file)
         /\ pc = "done" => rows = file

\* What the program itself makes of a line: the fields that DataParser takes from it,
\* token by token.
Parser(columns, taken) == INSTANCE DataParser WITH
  Lines <- {}, MaxLines <- 0, pc <- "token", err <- FALSE, input <- 1,
  lines_read <- 0, line <- columns, fields <- taken, said <- "nothing"

ParsedFields(l) ==
  LET columns == [n \in DOMAIN l |-> [at |-> n, kind |-> l[n]]]
      taken[n \in 0..NumFields] ==
        IF n = 0 THEN << >>
        ELSE LET before == taken[n - 1]
             IN IF Parser(columns, before)!Missing THEN before
                ELSE Append(before, Parser(columns, before)!token)
      fields == taken[NumFields]
  IN [n \in DOMAIN fields |-> fields[n].kind]

NoSpaces(l) == \A c \in DOMAIN l : l[c] # "spaced"

\* Of a file without spaces that the checker gets to the end of, one word to a line and
\* no field empty, the first eight columns it printed of each line, be they its fields
\* or part of the whole word, are the eight that GetMarketData takes.
AgreesWithParser ==
  /\ pc = "done"
  /\ \A n \in DOMAIN file : file[n] # << >> /\ NoSpaces(file[n])
  /\ Len(rows) = Len(file)
  /\ \A n \in DOMAIN rows : \A c \in 1..NumFields : rows[n][c] # "empty"
  => \A n \in DOMAIN rows : SubSeq(rows[n], 1, NumFields) = ParsedFields(file[n])

\* checkfile_read1 uses tokens[0] to tokens[7] without a look at how many there are.  It
\* is never out of range in a file without spaces of which GetMarketData takes eight
\* fields a line, although the two do not split a line alike: strtok passes over every
\* empty column, the regex iterator only over one at the end.
OutOfRangeOnlyIfShort ==
  (\A n \in DOMAIN file : NoSpaces(file[n]) /\ Len(ParsedFields(file[n])) = NumFields)
  => pc # "undefined"
=============================================================================
