----------------------------- MODULE TableFile -----------------------------
(***************************************************************************)
(* The life of a symbol table: symbols are added while data is compressed, *)
(* the table is saved, and it is loaded back from the file line by line.   *)
(* The compressed data holds the numbers, the table file the tickers in    *)
(* number order, and inflating looks a ticker up by its position.          *)
(***************************************************************************)
EXTENDS SymbolTable

CONSTANT Symbols        \* the ticker names

ASSUME SymbolsAssumption ==
  /\ IsFiniteSet(Symbols)
  /\ Cardinality(Symbols) <= INDEX_RANGE

VARIABLES
  codes,        \* the symbols of the data, with the numbers written for them
  table_file,   \* the lines of the table file
  saved,        \* the file belongs to the data
  unread        \* lines LoadTable has not read yet

vars == <<table, index, codes, table_file, saved, unread>>

Init ==
  /\ NewTable
  /\ codes = {}
  /\ table_file = << >>
  /\ saved = FALSE
  /\ unread = << >>

-----------------------------------------------------------------------------
(* The operations.                                                         *)

\* Compressing a tick writes the number of its ticker.
Add(s) ==
  /\ unread = << >>
  /\ Insert(s)
  /\ codes' = codes \cup {<<s, NumberOf(s)>>}
  /\ saved' = (saved /\ s \in DOMAIN table)
  /\ UNCHANGED <<table_file, unread>>

SaveTable ==
  /\ unread = << >>
  /\ table_file' \in Lookups
  /\ saved' = TRUE
  /\ UNCHANGED <<table, index, codes, unread>>

\* Faulty variant: the counter goes on from where it was.
LoadTableKeepingIndex ==
  /\ unread = << >>
  /\ saved
  /\ table' = EmptyTable
  /\ index' = index
  /\ unread' = table_file
  /\ UNCHANGED <<codes, table_file, saved>>

\* LoadTable clears the table and adds the lines of the file one by one.
LoadTable ==
  /\ unread = << >>
  /\ saved
  /\ ClearTable
  /\ unread' = table_file
  /\ UNCHANGED <<codes, table_file, saved>>

LoadLine ==
  /\ unread # << >>
  /\ Insert(Head(unread))
  /\ unread' = Tail(unread)
  /\ UNCHANGED <<codes, table_file, saved>>

\* Another compression starts with an empty table; the old file is still there.
Restart ==
  /\ unread = << >>
  /\ ClearTable
  /\ codes' = {}
  /\ saved' = FALSE
  /\ UNCHANGED <<table_file, unread>>

Next ==
  \/ \E s \in Symbols : Add(s)
  \/ SaveTable
  \/ LoadTable
  \/ LoadLine
  \/ Restart

Spec == Init /\ [][Next]_vars

-----------------------------------------------------------------------------
(* Properties.                                                             *)

\* Numbers are values of a uint16_t, and the counter is how many symbols there are,
\* wrapped.  While a table is loaded, it has the lines read so far, each under its
\* position in the file, and the lines unread are the rest of the file.
TypeOK ==
  /\ DOMAIN table \subseteq Symbols
  /\ table \in [DOMAIN table -> 0 .. INDEX_RANGE - 1]
  /\ index = Cardinality(DOMAIN table) % INDEX_RANGE
  /\ codes \subseteq Symbols \X (0 .. INDEX_RANGE - 1)
  /\ table_file \in Seq(Symbols)
  /\ saved \in BOOLEAN
  /\ unread \in Seq(Symbols)
  /\ unread # << >> =>
       LET read == Len(table_file) - Len(unread) IN
       /\ read = Cardinality(DOMAIN table)
       /\ \A n \in 1..read : table_file[n] \in DOMAIN table /\ table[table_file[n]] = n - 1
       /\ \A n \in DOMAIN unread : unread[n] = table_file[read + n]

\* What the numbers in the data decode to once they are looked up in a table
\* file: the entry at that position, counted from 0.
Decodes(lookup) ==
  \A c \in codes : c[2] + 1 \in DOMAIN lookup /\ lookup[c[2] + 1] = c[1]

\* The saved table gives every number in the data back its own ticker, also
\* after more ticks with known tickers were compressed.
FileDecodesData == saved => Decodes(table_file)

\* A table in memory does so too, whether it was built while compressing or
\* loaded back: loading gives every symbol the number it had.
TableDecodesData == unread = << >> => \A lookup \in Lookups : Decodes(lookup)
=============================================================================
