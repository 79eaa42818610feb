--------------------------- MODULE MCInflateFile ---------------------------
EXTENDS InflateFile

\* The end of each field: ticker, exchange, side, condition, time and reptime
\* in two parts each, the two halves of the price, shares.
BatEnds == <<14, 22, 24, 32, 37, 69, 74, 106, 138, 170, 190>>

BatOffset == [f \in 0..11 |-> IF f = 0 THEN 0 ELSE BatEnds[f]]

\* Short files, and files long enough that batches start at every position of a
\* word a record can start at, with every position at the end of the file.
WholeFiles == [records : 0..40 \cup 346..361, lost : {0}]

\* Files cut short: the end may be missing up to more than two records.
CutFiles == [records : 0..30, lost : 1..15]

ManyFiles == WholeFiles \cup CutFiles
=============================================================================
