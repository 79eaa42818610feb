----------------------------- MODULE DataParser -----------------------------
(***************************************************************************)
(* DataParser::GetMarketData and the loop of BatTickLoader::Compress that   *)
(* calls it: the lines of an input file, split by strtok into tokens, the   *)
(* tokens converted into the fields of a tick, the error flag carried from  *)
(* line to line.                                                           *)
(*                                                                         *)
(* A line is a sequence of columns.  Of the text of a column only its kind  *)
(* matters: what the conversions make of it.                               *)
(***************************************************************************)
EXTENDS Integers, Sequences

CONSTANTS
  Lines,        \* the lines of an input, sequences of kinds
  MaxLines      \* bound: lines of an input file

\* "side" is a text that begins with B, A or T; "wide" a number that takes more
\* than 32 bits, "huge" one that does not fit an unsigned long.
Kinds == {"empty", "word", "side", "number", "wide", "huge", "decimal"}

ASSUME LinesAssumption == Lines \subseteq Seq(Kinds)
ASSUME MaxLinesAssumption == MaxLines \in Nat

VARIABLES
  pc,           \* "line": getline is next; "token": GetMarketData runs; "end"
  err,          \* main's error flag, not initialized
  input,        \* lines of the input file
  lines_read,
  line,         \* the columns of the line being parsed, with their positions
  fields,       \* the columns converted so far
  said          \* the message the run ended with

vars == <<pc, err, input, lines_read, line, fields, said>>

Init ==
  /\ pc = "line"
  /\ err \in BOOLEAN
  /\ input \in 0..MaxLines
  /\ lines_read = 0
  /\ line = << >>
  /\ fields = << >>
  /\ said = "nothing"

-----------------------------------------------------------------------------
(* GetMarketData.                                                          *)

\* ticker, exchange, side, condition, time, reptime, price, size
NumFields == 8
SIDE == 3
PRICE == 7
SIZE == 8
Numbers == {5, 6, SIZE}

Parsing == pc = "token" /\ Len(fields) < NumFields

\* Where the last call of strtok stopped, and the columns the next one may return: it
\* takes adjacent separators for one, and so passes over an empty column.
position == IF fields = << >> THEN 0 ELSE fields[Len(fields)].at
Unread == {n \in DOMAIN line : n > position /\ line[n].kind # "empty"}

Missing == Unread = {}

token == line[CHOOSE n \in Unread : \A m \in Unread : n <= m]

\* std::stoul takes the digits a text begins with and throws if there are none, or
\* too many.  Only it throws: a text or its first character is always taken.
Throws == Len(fields) + 1 \in Numbers /\ token.kind \in {"word", "side", "huge"}

\* Faulty variant: strtok is not called again for the condition.
TakeTokenTwice ==
  /\ Parsing
  /\ ~Missing
  /\ ~Throws
  /\ fields' = Append(fields, IF Len(fields) = SIDE THEN fields[SIDE] ELSE token)
  /\ UNCHANGED <<pc, err, input, lines_read, line, said>>

TakeToken ==
  /\ Parsing
  /\ ~Missing
  /\ ~Throws
  /\ fields' = Append(fields, token)
  /\ UNCHANGED <<pc, err, input, lines_read, line, said>>

-----------------------------------------------------------------------------
(* BatTickLoader::Compress.                                                *)

\* Faulty variant: the end of the input is noticed one line late.
NextLineAtEnd ==
  /\ pc = "line"
  /\ lines_read <= input
  /\ \E l \in Lines : line' = [n \in DOMAIN l |-> [at |-> n, kind |-> l[n]]]
  /\ pc' = "token"
  /\ UNCHANGED <<err, input, lines_read, fields, said>>

NextLine ==
  /\ pc = "line"
  /\ lines_read < input
  /\ \E l \in Lines : line' = [n \in DOMAIN l |-> [at |-> n, kind |-> l[n]]]
  /\ pc' = "token"
  /\ UNCHANGED <<err, input, lines_read, fields, said>>

EndRun(message) ==
  /\ pc' = "end"
  /\ said' = message
  /\ UNCHANGED <<input, lines_read, line, fields>>

\* The number that does not parse sets err, and the run exits.
BadNumber ==
  /\ Parsing
  /\ ~Missing
  /\ Throws
  /\ err' = TRUE
  /\ EndRun("bad_line")

\* Faulty variant: an empty tick is passed over.
ShortLineSkipped ==
  /\ Parsing
  /\ Missing
  /\ pc' = "line"
  /\ lines_read' = lines_read + 1
  /\ line' = << >>
  /\ fields' = << >>
  /\ UNCHANGED <<err, input, said>>

\* A token is missing: the tick is empty and err is what it was.  Compressing an
\* empty tick throws in std::stod, if the assertion on its side is compiled out.
ShortLine ==
  /\ Parsing
  /\ Missing
  /\ err' = err
  /\ EndRun(IF err THEN "bad_line" ELSE "aborted")

Complete == pc = "token" /\ Len(fields) = NumFields

IsSide == fields[SIDE].kind = "side"
IsPrice == fields[PRICE].kind \in {"number", "wide", "huge", "decimal"}

\* Faulty variant: err is left as it was.
GoodLineKeepingErr ==
  /\ Complete
  /\ IsPrice
  /\ IF err
     THEN err' = err /\ EndRun("bad_line")
     ELSE /\ pc' = "line"
          /\ lines_read' = lines_read + 1
          /\ line' = << >>
          /\ fields' = << >>
          /\ UNCHANGED <<err, input, said>>

\* A tick is compressed.  A side that is none is packed as whatever its variable
\* happens to hold, if the assertion on it is compiled out.
GoodLine ==
  /\ Complete
  /\ IsPrice
  /\ err' = FALSE
  /\ pc' = "line"
  /\ lines_read' = lines_read + 1
  /\ line' = << >>
  /\ fields' = << >>
  /\ UNCHANGED <<input, said>>

\* Compressing a tick that fails the assertion on its side, or whose price
\* std::stod throws on.
BadTick ==
  /\ Complete
  /\ ~IsSide \/ ~IsPrice
  /\ err' = FALSE
  /\ EndRun("aborted")

Finished ==
  /\ pc = "end" \/ (pc = "line" /\ lines_read = input)
  /\ UNCHANGED vars

Next ==
  \/ NextLine
  \/ TakeToken
  \/ BadNumber
  \/ ShortLine
  \/ GoodLine
  \/ BadTick
  \/ Finished

Spec == Init /\ [][Next]_vars

-----------------------------------------------------------------------------
(* Properties.                                                             *)

\* The fields converted are columns of the line, no more than a tick has.
TypeOK ==
  /\ pc \in {"line", "token", "end"}
  /\ err \in BOOLEAN
  /\ input \in 0..MaxLines /\ lines_read \in 0..input
  /\ \A n \in DOMAIN line : line[n].at = n /\ line[n].kind \in Kinds
  /\ Len(fields) <= NumFields
  /\ \A n \in DOMAIN fields : fields[n].at \in DOMAIN line

\* A line of no more than eight columns that makes a tick makes it of its own
\* columns, each in its place: an empty column is never made up for by the next one.
\* (A longer line may lose an empty column and still make a tick.)
ColumnsInPlace ==
  Complete /\ Len(line) <= NumFields => \A n \in DOMAIN fields : fields[n].at = n

\* What a line of the input format looks like.
WellFormed ==
  /\ Len(line) = NumFields
  /\ \A n \in DOMAIN line : line[n].kind # "empty"
  /\ \A n \in Numbers : line[n].kind \in {"number", "wide"}
  /\ line[SIDE].kind = "side"
  /\ line[PRICE].kind \in {"number", "decimal"}

\* The run never ends at a line of the input format, whatever the error flag of
\* main held before, uninitialized or left by another line.
WellFormedAccepted == pc = "end" => ~WellFormed

\* Parsing token by token does to the run what the actions of Loader say a line
\* does: the loop goes on with err cleared, or the run ends with the message.
Loading == INSTANCE Loader WITH
  LINES_PER_STREAM <- MaxLines + 1, MaxRuns <- 1,
  pc <- IF pc = "end" THEN "idle" ELSE "reading",
  run <- 1, arg <- "c", streamed <- 0, good <- TRUE,
  archive <- [run |-> 1, lines |-> 0, flushed |-> FALSE],
  table_file <- 0, failed <- FALSE

ImplementsLoader == [][Loading!Next]_(Loading!vars)
=============================================================================
