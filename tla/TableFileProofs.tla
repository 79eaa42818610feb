-------------------------- MODULE TableFileProofs --------------------------
(***************************************************************************)
(* Proofs about the ticker numbers, for every set of tickers that has no   *)
(* more of them than there are numbers.  The argument: the numbers of a     *)
(* table are 0, 1, ... in the order of insertion, so the queue can only     *)
(* give them back in that order, and the position in the file is the       *)
(* number; loading line by line gives every line its position again.       *)
(***************************************************************************)
EXTENDS TableFile, FiniteSetTheorems, TLAPS

Count == Cardinality(DOMAIN table)

\* The numbers of the table are those below the number of its symbols, each once.
Numbered ==
  /\ DOMAIN table \subseteq Symbols
  /\ table \in [DOMAIN table -> Nat]
  /\ \A s \in DOMAIN table : table[s] < Count
  /\ \A s, t \in DOMAIN table : table[s] = table[t] => s = t
  /\ index = Count % INDEX_RANGE

FileOK ==
  /\ table_file \in Seq(Symbols)
  /\ \A j, k \in 1 .. Len(table_file) : table_file[j] = table_file[k] => j = k

\* A table at rest has the symbols of the data under their numbers, and if it is
\* the saved one its numbers are the positions in the file.
AtRest ==
  unread = << >> =>
    /\ \A c \in codes : c[1] \in DOMAIN table /\ table[c[1]] = c[2]
    /\ saved => \A s \in DOMAIN table : /\ table[s] + 1 \in 1 .. Len(table_file)
                                        /\ table_file[table[s] + 1] = s

\* A table being loaded has the first lines of the file; the others are unread.
Loading ==
  unread # << >> =>
    /\ saved
    /\ Len(table_file) = Count + Len(unread)
    /\ \A k \in 1 .. Len(unread) : unread[k] = table_file[Count + k]
    /\ \A j \in 1 .. Count : table_file[j] \in DOMAIN table /\ table[table_file[j]] = j - 1
    /\ \A s \in DOMAIN table : \E j \in 1 .. Count : s = table_file[j]

Coded ==
  /\ codes \subseteq Symbols \X (0 .. INDEX_RANGE - 1)
  /\ saved => Decodes(table_file)
  /\ saved \in BOOLEAN
  /\ unread \in Seq(Symbols)

IInv == Numbered /\ FileOK /\ AtRest /\ Loading /\ Coded

-----------------------------------------------------------------------------
(* Counting.                                                               *)

LEMMA CountType ==
  ASSUME DOMAIN table \subseteq Symbols
  PROVE  /\ IsFiniteSet(DOMAIN table)
         /\ Count \in Nat
         /\ Count <= INDEX_RANGE
         /\ \A s \in Symbols : s \notin DOMAIN table => Count < INDEX_RANGE
<1>1. IsFiniteSet(DOMAIN table) /\ Count <= Cardinality(Symbols)
  BY FS_Subset, SymbolsAssumption DEF Count
<1>2. Count \in Nat /\ Cardinality(Symbols) \in Nat
  BY <1>1, FS_CardinalityType, SymbolsAssumption DEF Count
<1>3. ASSUME NEW s \in Symbols, s \notin DOMAIN table PROVE Count # Cardinality(Symbols)
  BY <1>3, FS_Subset, SymbolsAssumption DEF Count
<1> QED
  BY <1>1, <1>2, <1>3, SymbolsAssumption, IndexAssumption

LEMMA SmallRemainder ==
  ASSUME NEW n \in Nat, n < INDEX_RANGE
  PROVE  n % INDEX_RANGE = n
<1> DEFINE q == n \div INDEX_RANGE
           r == n % INDEX_RANGE
<1>1. q \in Int /\ r \in 0 .. INDEX_RANGE - 1 /\ n = INDEX_RANGE * q + r
  BY IndexAssumption
<1> HIDE DEF q, r
<1>2. q >= 1 => INDEX_RANGE * q >= INDEX_RANGE
  BY <1>1, IndexAssumption
<1>3. q <= -1 => INDEX_RANGE * q <= -INDEX_RANGE
  BY <1>1, IndexAssumption
<1>4. q = 0
  BY <1>1, <1>2, <1>3, IndexAssumption
<1>5. r = n
  BY <1>1, <1>4, IndexAssumption
<1> QED
  BY <1>5 DEF r

\* An injective function into an interval has no more arguments than it has values.
LEMMA NoMoreThan ==
  ASSUME NEW a \in Int, NEW b \in Int, NEW c \in Int, NEW d \in Int,
         a <= b, NEW f \in [a..b -> c..d],
         \A j, k \in a..b : f[j] = f[k] => j = k
  PROVE  b - a <= d - c
<1>1. f \in Injection(a..b, c..d)
  BY DEF Injection, IsInjective
<1>2. Cardinality(a..b) <= Cardinality(c..d)
  BY <1>1, FS_Injection, FS_Interval
<1>3. f[a] \in c..d
  OBVIOUS
<1>4. c <= d
  BY <1>3
<1> QED
  BY <1>2, <1>4, FS_Interval

\* The queue gives the symbols back in the order of their numbers, so the i-th is
\* the one with number i - 1.
LEMMA LookupPosition ==
  ASSUME Numbered, NEW lookup \in Lookups, NEW i \in 1 .. Count
  PROVE  lookup[i] \in DOMAIN table /\ table[lookup[i]] = i - 1
<1> DEFINE g == [k \in 1 .. Count |-> table[lookup[k]]]
<1>1. Count \in Nat
  BY CountType DEF Numbered
<1>2. lookup \in [1 .. Count -> DOMAIN table]
  BY DEF Lookups, Count
<1>3. \A j, k \in 1 .. Count : lookup[j] = lookup[k] => j = k
  BY <1>2 DEF Lookups, IsInjective
<1>4. \A k \in 1 .. Count : g[k] \in 0 .. Count - 1
  BY <1>1, <1>2 DEF Numbered
<1>5. \A j, k \in 1 .. Count : g[j] = g[k] => j = k
  BY <1>2, <1>3 DEF Numbered
<1>6. \A j, k \in 1 .. Count : j <= k => g[j] <= g[k]
  <2>1. SUFFICES ASSUME NEW j \in 1 .. Count, NEW k \in 1 .. Count, j <= k
                 PROVE  g[j] <= g[k]
    OBVIOUS
  <2>2. CASE j < k
    BY <1>2, <2>2 DEF Lookups, Before
  <2>3. CASE j = k
    <3>1. g[j] \in Int
      BY <1>1, <1>4
    <3> QED
      BY <2>3, <3>1
  <2> QED
    BY <1>1, <2>1, <2>2, <2>3
<1>7. g[i] = table[lookup[i]]
  OBVIOUS
<1> HIDE DEF g
<1>8. i - 1 <= g[i] - 0
  <2> DEFINE f == [k \in 1 .. i |-> g[k]]
  <2>1. \A k \in 1 .. i : k \in 1 .. Count /\ k <= i
    BY <1>1
  <2>2. f \in [1 .. i -> 0 .. g[i]]
    BY <1>1, <1>4, <1>6, <2>1
  <2>3. \A j, k \in 1 .. i : f[j] = f[k] => j = k
    BY <1>5, <2>1
  <2>4. 1 <= i /\ i \in Int /\ g[i] \in Int /\ 0 \in Int /\ 1 \in Int
    BY <1>1, <1>4
  <2> HIDE DEF f
  <2> QED
    BY <2>2, <2>3, <2>4, NoMoreThan
<1>9. Count - i <= (Count - 1) - g[i]
  <2> DEFINE f == [k \in i .. Count |-> g[k]]
  <2>1. \A k \in i .. Count : k \in 1 .. Count /\ i <= k
    BY <1>1
  <2>2. f \in [i .. Count -> g[i] .. Count - 1]
    BY <1>1, <1>4, <1>6, <2>1
  <2>3. \A j, k \in i .. Count : f[j] = f[k] => j = k
    BY <1>5, <2>1
  <2>4. i <= Count /\ i \in Int /\ g[i] \in Int /\ Count \in Int /\ Count - 1 \in Int
    BY <1>1, <1>4
  <2> HIDE DEF f
  <2> QED
    BY <2>2, <2>3, <2>4, NoMoreThan
<1>10. g[i] \in Int
  BY <1>1, <1>4
<1> QED
  BY <1>1, <1>2, <1>7, <1>8, <1>9, <1>10

-----------------------------------------------------------------------------
(* The operations of the table.                                            *)

LEMMA InsertNumbered ==
  ASSUME Numbered, NEW s \in Symbols, Insert(s)
  PROVE  Numbered'
<1>1. CASE s \in DOMAIN table
  BY <1>1 DEF Insert, Numbered, Count
<1>2. CASE s \notin DOMAIN table
  <2>1. Count \in Nat /\ Count < INDEX_RANGE /\ IsFiniteSet(DOMAIN table)
    BY <1>2, CountType DEF Numbered
  <2>2. index = Count
    BY <2>1, SmallRemainder DEF Numbered
  <2>3. /\ DOMAIN table' = DOMAIN table \cup {s}
        /\ table'[s] = Count
        /\ \A t \in DOMAIN table : table'[t] = table[t]
        /\ index' = (Count + 1) % INDEX_RANGE
        /\ table' = [t \in DOMAIN table \cup {s} |-> IF t = s THEN index ELSE table[t]]
    BY <1>2, <2>2 DEF Insert
  <2>4. Count' = Count + 1
    BY <1>2, <2>1, <2>3, FS_AddElement DEF Count
  <2>5. table' \in [DOMAIN table' -> Nat]
    BY <2>1, <2>2, <2>3 DEF Numbered
  <2>6. \A t \in DOMAIN table' : table'[t] < Count'
    BY <2>1, <2>3, <2>4 DEF Numbered
  <2>7. ASSUME NEW t \in DOMAIN table', NEW u \in DOMAIN table', table'[t] = table'[u]
        PROVE  t = u
    BY <2>1, <2>3, <2>7 DEF Numbered
  <2> QED
    BY <2>3, <2>4, <2>5, <2>6, <2>7 DEF Numbered
<1> QED
  BY <1>1, <1>2

LEMMA ClearNumbered ==
  ASSUME table' = EmptyTable, index' = 0
  PROVE  Numbered' /\ DOMAIN table' = {} /\ Count' = 0
<1>1. DOMAIN table' = {}
  BY DEF EmptyTable
<1>2. Count' = 0
  BY <1>1, FS_EmptySet DEF Count
<1>3. 0 % INDEX_RANGE = 0
  BY SmallRemainder, IndexAssumption
<1> QED
  BY <1>1, <1>2, <1>3 DEF Numbered, EmptyTable

\* A symbol that is in the table stays there under its number.
LEMMA InsertKeeps ==
  ASSUME Numbered, NEW s \in Symbols, Insert(s)
  PROVE  /\ \A t \in DOMAIN table : t \in DOMAIN table' /\ table'[t] = table[t]
         /\ s \in DOMAIN table'
         /\ table'[s] = NumberOf(s)
         /\ DOMAIN table' = DOMAIN table \cup {s}
         /\ NumberOf(s) \in 0 .. INDEX_RANGE - 1
<1>1. CASE s \in DOMAIN table
  <2>1. table[s] \in 0 .. INDEX_RANGE - 1
    BY <1>1, CountType, IndexAssumption DEF Numbered
  <2> QED
    BY <1>1, <2>1 DEF Insert, NumberOf
<1>2. CASE s \notin DOMAIN table
  <2>1. index \in 0 .. INDEX_RANGE - 1
    BY <1>2, CountType, SmallRemainder, IndexAssumption DEF Numbered
  <2> QED
    BY <1>2, <2>1 DEF Insert, NumberOf
<1> QED
  BY <1>1, <1>2

-----------------------------------------------------------------------------
(* The invariant.                                                          *)

LEMMA InitInv == Init => IInv
<1> SUFFICES ASSUME Init PROVE IInv
  OBVIOUS
<1>1. DOMAIN table = {} /\ Count = 0
  BY FS_EmptySet DEF Init, NewTable, EmptyTable, Count
<1>2. 0 % INDEX_RANGE = 0
  BY SmallRemainder, IndexAssumption
<1>3. Numbered
  BY <1>1, <1>2 DEF Init, NewTable, EmptyTable, Numbered
<1>4. FileOK
  BY DEF Init, FileOK
<1>5. AtRest /\ Loading
  BY DEF Init, AtRest, Loading
<1>6. Coded
  <2>1. codes = {} /\ ~saved /\ saved \in BOOLEAN
    BY DEF Init
  <2>2. unread \in Seq(Symbols)
    BY DEF Init
  <2> QED
    BY <2>1, <2>2 DEF Coded
<1> QED
  BY <1>3, <1>4, <1>5, <1>6 DEF IInv

LEMMA AddInv ==
  ASSUME IInv, NEW s \in Symbols, Add(s)
  PROVE  IInv'
<1>1. /\ unread = << >> /\ unread' = << >>
      /\ table_file' = table_file
      /\ codes' = codes \cup {<<s, NumberOf(s)>>}
      /\ saved' = (saved /\ s \in DOMAIN table)
      /\ Insert(s)
  BY DEF Add
<1>2. Numbered'
  BY <1>1, InsertNumbered DEF IInv
<1>3. FileOK'
  BY <1>1 DEF IInv, FileOK
<1>4. ASSUME NEW c \in codes' PROVE c[1] \in DOMAIN table' /\ table'[c[1]] = c[2]
  <2>1. CASE c \in codes
    BY <1>1, <2>1, InsertKeeps DEF IInv, AtRest
  <2>2. CASE c = <<s, NumberOf(s)>>
    BY <1>1, <2>2, InsertKeeps DEF IInv
  <2> QED
    BY <1>1, <2>1, <2>2
<1>5. saved' => \A t \in DOMAIN table' : /\ table'[t] + 1 \in 1 .. Len(table_file')
                                        /\ table_file'[table'[t] + 1] = t
  <2>1. SUFFICES ASSUME saved, s \in DOMAIN table
                 PROVE  \A t \in DOMAIN table' : /\ table'[t] + 1 \in 1 .. Len(table_file')
                                                  /\ table_file'[table'[t] + 1] = t
    BY <1>1
  <2>2. table' = table
    BY <1>1, <2>1 DEF Insert
  <2> QED
    BY <1>1, <2>1, <2>2 DEF IInv, AtRest
<1>6. AtRest'
  BY <1>4, <1>5 DEF AtRest
<1>7. codes' \subseteq Symbols \X (0 .. INDEX_RANGE - 1)
  <2>1. NumberOf(s) \in 0 .. INDEX_RANGE - 1
    BY <1>1, InsertKeeps DEF IInv
  <2>2. <<s, NumberOf(s)>> \in Symbols \X (0 .. INDEX_RANGE - 1)
    BY <2>1
  <2> QED
    BY <1>1, <2>2 DEF IInv, Coded
<1>8. saved' => Decodes(table_file)'
  <2>1. SUFFICES ASSUME saved', NEW c \in codes'
                 PROVE  c[2] + 1 \in DOMAIN table_file' /\ table_file'[c[2] + 1] = c[1]
    BY DEF Decodes
  <2>2. DOMAIN table_file' = 1 .. Len(table_file')
    BY <1>3 DEF FileOK
  <2>3. c[1] \in DOMAIN table' /\ table'[c[1]] = c[2]
    BY <1>4
  <2> QED
    BY <1>5, <2>1, <2>2, <2>3
<1>9. Loading' /\ Coded'
  BY <1>1, <1>7, <1>8 DEF IInv, Loading, Coded
<1> QED
  BY <1>2, <1>3, <1>6, <1>9 DEF IInv

LEMMA SaveInv ==
  ASSUME IInv, SaveTable
  PROVE  IInv'
<1>1. /\ unread = << >> /\ unread' = << >>
      /\ table_file' \in Lookups
      /\ saved' = TRUE
      /\ table' = table /\ index' = index /\ codes' = codes
  BY DEF SaveTable
<1>2. Count \in Nat
  BY CountType DEF IInv, Numbered
<1>3. table_file' \in [1 .. Count -> DOMAIN table]
  BY <1>1 DEF Lookups, Count
<1>4. table_file' \in Seq(Symbols) /\ Len(table_file') = Count
  BY <1>2, <1>3 DEF IInv, Numbered
<1>5. FileOK'
  BY <1>1, <1>3, <1>4 DEF FileOK, Lookups, IsInjective
<1>6. ASSUME NEW s \in DOMAIN table
      PROVE  table[s] + 1 \in 1 .. Count /\ table_file'[table[s] + 1] = s
  <2>1. table[s] + 1 \in 1 .. Count
    BY <1>2 DEF IInv, Numbered
  <2>2. /\ table_file'[table[s] + 1] \in DOMAIN table
        /\ table[table_file'[table[s] + 1]] = (table[s] + 1) - 1
    BY <1>1, <2>1, LookupPosition DEF IInv
  <2>3. table[table_file'[table[s] + 1]] = table[s]
    BY <2>2 DEF IInv, Numbered
  <2> QED
    BY <2>1, <2>2, <2>3 DEF IInv, Numbered
<1>7. AtRest'
  BY <1>1, <1>4, <1>6 DEF IInv, AtRest
<1>8. Decodes(table_file)'
  <2>1. SUFFICES ASSUME NEW c \in codes
                 PROVE  c[2] + 1 \in DOMAIN table_file' /\ table_file'[c[2] + 1] = c[1]
    BY <1>1 DEF Decodes
  <2>2. c[1] \in DOMAIN table /\ table[c[1]] = c[2]
    BY <1>1 DEF IInv, AtRest
  <2> QED
    BY <1>3, <1>6, <2>2
<1>9. Numbered' /\ Loading' /\ Coded'
  BY <1>1, <1>8 DEF IInv, Numbered, Count, Loading, Coded
<1> QED
  BY <1>5, <1>7, <1>9 DEF IInv

LEMMA LoadTableInv ==
  ASSUME IInv, LoadTable
  PROVE  IInv'
<1>1. /\ unread = << >> /\ unread' = table_file
      /\ saved /\ saved' = saved
      /\ table' = EmptyTable /\ index' = 0
      /\ codes' = codes /\ table_file' = table_file
  BY DEF LoadTable, ClearTable
<1>2. Numbered' /\ DOMAIN table' = {} /\ Count' = 0
  BY <1>1, ClearNumbered
<1>3. FileOK' /\ Coded'
  BY <1>1 DEF IInv, FileOK, Coded, Decodes
<1>4. table_file \in Seq(Symbols) /\ Decodes(table_file)
  BY <1>1 DEF IInv, FileOK, Coded
<1>5. AtRest'
  <2>1. SUFFICES ASSUME table_file = << >>
                 PROVE  codes = {}
    BY <1>1, <1>2 DEF AtRest
  <2> QED
    BY <1>4, <2>1 DEF Decodes
<1>6. Loading'
  <2>1. Len(table_file) = 0 + Len(table_file)
    BY <1>4
  <2>2. \A k \in 1 .. Len(table_file) : table_file[k] = table_file[0 + k]
    BY <1>4
  <2> QED
    BY <1>1, <1>2, <2>1, <2>2 DEF Loading
<1> QED
  BY <1>2, <1>3, <1>5, <1>6 DEF IInv

LEMMA LoadLineInv ==
  ASSUME IInv, LoadLine
  PROVE  IInv'
<1> DEFINE s == Head(unread)
<1>1. /\ unread # << >> /\ unread' = Tail(unread)
      /\ Insert(s)
      /\ codes' = codes /\ table_file' = table_file /\ saved' = saved
  BY DEF LoadLine
<1>2. /\ saved
      /\ Len(table_file) = Count + Len(unread)
      /\ \A k \in 1 .. Len(unread) : unread[k] = table_file[Count + k]
      /\ \A j \in 1 .. Count : table_file[j] \in DOMAIN table /\ table[table_file[j]] = j - 1
      /\ \A t \in DOMAIN table : \E j \in 1 .. Count : t = table_file[j]
  BY <1>1 DEF IInv, Loading
<1>3. /\ unread \in Seq(Symbols) /\ Len(unread) \in Nat /\ Len(unread) >= 1
      /\ s = unread[1] /\ s \in Symbols
      /\ Count \in Nat
      /\ table_file \in Seq(Symbols)
  BY <1>1, CountType DEF IInv, Coded, Numbered, FileOK
<1>4. s = table_file[Count + 1] /\ Count + 1 \in 1 .. Len(table_file)
  BY <1>2, <1>3
<1> HIDE DEF s
<1>5. s \notin DOMAIN table
  <2>1. ASSUME NEW j \in 1 .. Count PROVE s # table_file[j]
    <3>1. j \in 1 .. Len(table_file) /\ j # Count + 1
      BY <1>2, <1>3
    <3> QED
      BY <1>4, <3>1 DEF IInv, FileOK
  <2> QED
    BY <1>2, <2>1
<1>6. Numbered'
  BY <1>1, <1>3, InsertNumbered DEF IInv
<1>7. Count' = Count + 1 /\ DOMAIN table' = DOMAIN table \cup {s}
  BY <1>1, <1>3, <1>5, InsertKeeps, FS_AddElement, CountType DEF IInv, Numbered, Count
<1>8. table'[s] = Count /\ \A t \in DOMAIN table : table'[t] = table[t]
  <2>1. index = Count
    BY <1>3, <1>5, CountType, SmallRemainder DEF IInv, Numbered
  <2> QED
    BY <1>1, <1>3, <1>5, <2>1, InsertKeeps DEF IInv, NumberOf
<1>9. \A j \in 1 .. Count' : table_file[j] \in DOMAIN table' /\ table'[table_file[j]] = j - 1
  <2>1. SUFFICES ASSUME NEW j \in 1 .. Count + 1
                 PROVE  table_file[j] \in DOMAIN table' /\ table'[table_file[j]] = j - 1
    BY <1>7
  <2>2. CASE j = Count + 1
    BY <1>3, <1>4, <1>7, <1>8, <2>2
  <2>3. CASE j \in 1 .. Count
    BY <1>2, <1>7, <1>8, <2>3
  <2> QED
    BY <1>3, <2>1, <2>2, <2>3
<1>10. \A t \in DOMAIN table' : \E j \in 1 .. Count' : t = table_file[j]
  <2>1. SUFFICES ASSUME NEW t \in DOMAIN table'
                 PROVE  \E j \in 1 .. Count + 1 : t = table_file[j]
    BY <1>7
  <2>2. CASE t = s
    BY <1>3, <1>4, <2>2
  <2>3. CASE t \in DOMAIN table
    <3>1. PICK j \in 1 .. Count : t = table_file[j]
      BY <1>2, <2>3
    <3>2. j \in 1 .. Count + 1
      BY <1>3
    <3> QED
      BY <3>1, <3>2
  <2> QED
    BY <1>7, <2>2, <2>3
<1>11. /\ unread' \in Seq(Symbols)
       /\ Len(unread') = Len(unread) - 1
       /\ \A k \in 1 .. Len(unread') : unread'[k] = unread[k + 1]
  BY <1>1, <1>3
<1>12. Loading'
  <2>1. Len(table_file) = Count' + Len(unread')
    BY <1>2, <1>3, <1>7, <1>11
  <2>2. ASSUME NEW k \in 1 .. Len(unread') PROVE unread'[k] = table_file[Count' + k]
    <3>1. k + 1 \in 1 .. Len(unread) /\ unread'[k] = unread[k + 1]
      BY <1>3, <1>11
    <3>2. Count + (k + 1) = Count' + k
      BY <1>3, <1>7, <1>11
    <3> QED
      BY <1>2, <3>1, <3>2
  <2> QED
    BY <1>1, <1>2, <1>9, <1>10, <2>1, <2>2 DEF Loading
<1>13. AtRest'
  <2>1. SUFFICES ASSUME unread' = << >>
                 PROVE  /\ \A c \in codes : c[1] \in DOMAIN table' /\ table'[c[1]] = c[2]
                        /\ \A t \in DOMAIN table' : /\ table'[t] + 1 \in 1 .. Len(table_file)
                                                     /\ table_file[table'[t] + 1] = t
    BY <1>1 DEF AtRest
  <2>2. Len(unread') = 0
    BY <2>1
  <2>3. Len(table_file) = Count'
    <3>1. Len(unread) = 1
      BY <1>3, <1>11, <2>2
    <3> QED
      BY <1>2, <1>3, <1>7, <3>1
  <2>4. ASSUME NEW c \in codes PROVE c[1] \in DOMAIN table' /\ table'[c[1]] = c[2]
    <3>1. c[2] \in Nat
      BY DEF IInv, Coded
    <3>2. c[2] + 1 \in 1 .. Len(table_file) /\ table_file[c[2] + 1] = c[1]
      BY <1>2, <1>3 DEF IInv, Coded, Decodes
    <3>3. table'[c[1]] = (c[2] + 1) - 1 /\ c[1] \in DOMAIN table'
      BY <1>9, <2>3, <3>2
    <3> QED
      BY <3>1, <3>3
  <2>5. ASSUME NEW t \in DOMAIN table'
        PROVE  table'[t] + 1 \in 1 .. Len(table_file) /\ table_file[table'[t] + 1] = t
    <3>1. PICK j \in 1 .. Count' : t = table_file[j]
      BY <1>10
    <3>2. table'[t] = j - 1 /\ j \in Nat
      BY <1>3, <1>7, <1>9, <3>1
    <3>3. table'[t] + 1 = j
      BY <3>2
    <3> QED
      BY <2>3, <3>1, <3>3
  <2> QED
    BY <2>4, <2>5
<1>14. FileOK' /\ Coded'
  BY <1>1, <1>11 DEF IInv, FileOK, Coded, Decodes
<1> QED
  BY <1>6, <1>12, <1>13, <1>14 DEF IInv

LEMMA RestartInv ==
  ASSUME IInv, Restart
  PROVE  IInv'
<1>1. /\ unread = << >> /\ unread' = << >>
      /\ table' = EmptyTable /\ index' = 0
      /\ codes' = {} /\ saved' = FALSE /\ table_file' = table_file
  BY DEF Restart, ClearTable
<1>2. Numbered' /\ DOMAIN table' = {} /\ Count' = 0
  BY <1>1, ClearNumbered
<1>3. FileOK'
  BY <1>1 DEF IInv, FileOK
<1>4. AtRest' /\ Loading'
  BY <1>1 DEF AtRest, Loading
<1>5. Coded'
  BY <1>1 DEF IInv, Coded
<1> QED
  BY <1>2, <1>3, <1>4, <1>5 DEF IInv

LEMMA NextInv == IInv /\ [Next]_vars => IInv'
<1> SUFFICES ASSUME IInv, [Next]_vars PROVE IInv'
  OBVIOUS
<1>1. ASSUME NEW s \in Symbols, Add(s) PROVE IInv'
  BY <1>1, AddInv
<1>2. CASE SaveTable
  BY <1>2, SaveInv
<1>3. CASE LoadTable
  BY <1>3, LoadTableInv
<1>4. CASE LoadLine
  BY <1>4, LoadLineInv
<1>5. CASE Restart
  BY <1>5, RestartInv
<1>6. CASE UNCHANGED vars
  <2>1. Numbered' /\ FileOK'
    BY <1>6 DEF vars, IInv, Numbered, Count, FileOK
  <2>2. AtRest' /\ Loading'
    BY <1>6 DEF vars, IInv, AtRest, Loading, Count
  <2>3. Coded'
    BY <1>6 DEF vars, IInv, Coded, Decodes
  <2> QED
    BY <2>1, <2>2, <2>3 DEF IInv
<1> QED
  BY <1>1, <1>2, <1>3, <1>4, <1>5, <1>6 DEF Next

\* In every reachable state the numbers of the table are those below the number of
\* its symbols, and the saved file and what is loaded of it agree with them.
THEOREM InvHolds == Spec => []IInv
<1> QED
  BY InitInv, NextInv, PTL DEF Spec

-----------------------------------------------------------------------------
(* What it implies.                                                        *)

\* Numbers are values of a uint16_t and the counter is the number of symbols, wrapped,
\* whatever is added, saved and loaded; a table being loaded has the lines read so far
\* under their positions, and the unread lines are the rest of the file.
THEOREM TypeCorrect == Spec => []TypeOK
<1>1. IInv => TypeOK
  <2> SUFFICES ASSUME IInv PROVE TypeOK
    OBVIOUS
  <2>1. Count \in Nat /\ Count <= INDEX_RANGE
    BY CountType DEF IInv, Numbered
  <2>2. index = Cardinality(DOMAIN table) % INDEX_RANGE
    BY DEF IInv, Numbered, Count
  <2>3. \A s \in DOMAIN table : table[s] \in 0 .. INDEX_RANGE - 1
    BY <2>1, IndexAssumption DEF IInv, Numbered
  <2>4. table \in [DOMAIN table -> 0 .. INDEX_RANGE - 1]
    BY <2>3 DEF IInv, Numbered
  <2>5. DOMAIN table \subseteq Symbols
    BY DEF IInv, Numbered
  <2>6. /\ codes \subseteq Symbols \X (0 .. INDEX_RANGE - 1)
        /\ table_file \in Seq(Symbols) /\ unread \in Seq(Symbols)
        /\ saved \in BOOLEAN
    BY DEF IInv, FileOK, Coded
  <2>7. ASSUME unread # << >>
        PROVE  LET read == Len(table_file) - Len(unread) IN
               /\ read = Cardinality(DOMAIN table)
               /\ \A n \in 1..read : /\ table_file[n] \in DOMAIN table
                                     /\ table[table_file[n]] = n - 1
               /\ \A n \in DOMAIN unread : unread[n] = table_file[read + n]
    <3>1. /\ Len(table_file) = Count + Len(unread)
          /\ \A k \in 1 .. Len(unread) : unread[k] = table_file[Count + k]
          /\ \A j \in 1 .. Count : /\ table_file[j] \in DOMAIN table
                                   /\ table[table_file[j]] = j - 1
      BY <2>7 DEF IInv, Loading
    <3>2. Len(table_file) - Len(unread) = Count /\ DOMAIN unread = 1 .. Len(unread)
      BY <2>1, <2>6, <3>1
    <3> QED
      BY <3>1, <3>2 DEF Count
  <2> QED
    BY <2>2, <2>4, <2>5, <2>6, <2>7 DEF TypeOK
<1> QED
  BY <1>1, InvHolds, PTL

\* The saved file gives every number of the data its own ticker back.
THEOREM FileDecodes == Spec => []FileDecodesData
<1>1. IInv => FileDecodesData
  BY DEF IInv, Coded, FileDecodesData
<1> QED
  BY <1>1, InvHolds, PTL

\* So does the table in memory, whether it was built while compressing or loaded back.
THEOREM TableDecodes == Spec => []TableDecodesData
<1>1. IInv => TableDecodesData
  <2> SUFFICES ASSUME IInv, unread = << >>, NEW lookup \in Lookups, NEW c \in codes
               PROVE  c[2] + 1 \in DOMAIN lookup /\ lookup[c[2] + 1] = c[1]
    BY DEF TableDecodesData, Decodes
  <2>1. c[1] \in DOMAIN table /\ table[c[1]] = c[2]
    BY DEF IInv, AtRest
  <2>2. c[2] + 1 \in 1 .. Count /\ c[2] \in Nat
    BY <2>1, CountType DEF IInv, Numbered
  <2>3. DOMAIN lookup = 1 .. Count
    BY DEF Lookups, Count
  <2>4. lookup[c[2] + 1] \in DOMAIN table /\ table[lookup[c[2] + 1]] = (c[2] + 1) - 1
    BY <2>2, LookupPosition DEF IInv
  <2>5. table[lookup[c[2] + 1]] = table[c[1]]
    BY <2>1, <2>2, <2>4
  <2> QED
    BY <2>1, <2>2, <2>3, <2>4, <2>5 DEF IInv, Numbered
<1> QED
  BY <1>1, InvHolds, PTL
=============================================================================
