-------------------------- MODULE DataParserProofs --------------------------
(***************************************************************************)
(* Proofs about parsing, for every set of lines and every length of the    *)
(* input: the fields of a tick are columns of its line, in their places;   *)
(* no line of the input format ends a run; and a line does to a run what   *)
(* the actions of Loader say it does.                                      *)
(***************************************************************************)
EXTENDS DataParser, WellFoundedInduction, TLAPS

\* A line is parsed only if there is one.
LineInv ==
  /\ pc \in {"line", "token", "end"}
  /\ err \in BOOLEAN
  /\ input \in 0..MaxLines
  /\ lines_read \in 0..input
  /\ pc = "token" => lines_read < input

LEMMA InitLineInv == Init => LineInv
<1> SUFFICES ASSUME Init PROVE LineInv
  OBVIOUS
<1>1. input \in 0..MaxLines /\ lines_read = 0
  BY DEF Init
<1>2. lines_read \in 0..input
  BY <1>1, MaxLinesAssumption
<1> QED
  BY <1>1, <1>2 DEF Init, LineInv

LEMMA NextLineInv ==
  ASSUME LineInv, [Next]_vars
  PROVE  LineInv'
<1>1. CASE NextLine
  BY <1>1 DEF LineInv, NextLine
<1>2. CASE TakeToken
  BY <1>2 DEF LineInv, TakeToken, Parsing
<1>3. CASE BadNumber
  BY <1>3 DEF LineInv, BadNumber, EndRun
<1>4. CASE ShortLine
  BY <1>4 DEF LineInv, ShortLine, EndRun
<1>5. CASE GoodLine
  <2>1. lines_read' = lines_read + 1 /\ lines_read < input /\ lines_read \in 0..input
    BY <1>5 DEF LineInv, GoodLine, Complete
  <2>2. input \in Nat
    BY MaxLinesAssumption DEF LineInv
  <2>3. lines_read' \in 0..input
    BY <2>1, <2>2
  <2> QED
    BY <1>5, <2>3 DEF LineInv, GoodLine
<1>6. CASE BadTick
  BY <1>6 DEF LineInv, BadTick, EndRun
<1>7. CASE UNCHANGED vars
  BY <1>7 DEF LineInv, vars
<1> QED
  BY <1>1, <1>2, <1>3, <1>4, <1>5, <1>6, <1>7 DEF Next, Finished

-----------------------------------------------------------------------------
(* The fields of a tick.                                                   *)

\* A set of natural numbers has a smallest one.
LEMMA SmallestOf ==
  ASSUME NEW S, S \subseteq Nat, S # {}
  PROVE  \E n \in S : \A m \in S : n <= m
<1> DEFINE R == OpToRel(<, Nat)
<1>1. \A x, y \in Nat : x < y => <<x, y>> \in R
  BY DEF OpToRel
<1>2. IsWellFoundedOn(R, Nat)
  BY NatLessThanWellFounded
<1> HIDE DEF R
<1>3. PICK x \in S : \A y \in S : ~(<<y, x>> \in R)
  BY <1>2, WFMin
<1>4. ASSUME NEW y \in S PROVE x <= y
  <2>1. x \in Nat /\ y \in Nat
    OBVIOUS
  <2>2. ~(y < x)
    BY <1>1, <1>3, <2>1
  <2> QED
    BY <2>1, <2>2
<1> QED
  BY <1>4

\* A column of a line, with its position.
Column == [at : Nat, kind : Kinds]

\* No column of the line is empty.
NoneEmpty == \A n \in 1..Len(line) : line[n].kind # "empty"

\* Each field is a column further on in the line than the one before it, and no
\* column but an empty one is passed over.
FieldsInv ==
  /\ line \in Seq(Column)
  /\ \A n \in 1..Len(line) : line[n].at = n
  /\ pc = "line" => fields = << >>
  /\ fields \in Seq(Column)
  /\ Len(fields) <= NumFields
  /\ \A k \in 1..Len(fields) : fields[k].at \in 1..Len(line) /\ fields[k] = line[fields[k].at]
  /\ \A j, k \in 1..Len(fields) : j < k => fields[j].at < fields[k].at
  /\ NoneEmpty => \A k \in 1..Len(fields) : fields[k].at = k

\* strtok returns the first column behind the last field that is not empty.
LEMMA TokenIsFirst ==
  ASSUME FieldsInv, ~Missing
  PROVE  \E n \in 1..Len(line) :
           /\ n > position /\ token = line[n] /\ line[n].kind # "empty"
           /\ \A m \in 1..Len(line) : m > position /\ line[m].kind # "empty" => n <= m
<1>1. Unread \subseteq Nat /\ Unread # {}
  BY DEF FieldsInv, Unread, Missing
<1>2. \E n \in Unread : \A m \in Unread : n <= m
  BY <1>1, SmallestOf
<1> DEFINE n == CHOOSE i \in Unread : \A m \in Unread : i <= m
<1>3. n \in Unread /\ \A m \in Unread : n <= m
  BY <1>2
<1>4. token = line[n]
  BY DEF token
<1> HIDE DEF n
<1>5. DOMAIN line = 1..Len(line)
  BY DEF FieldsInv
<1> QED
  BY <1>3, <1>4, <1>5 DEF Unread

LEMMA PositionFacts ==
  ASSUME FieldsInv
  PROVE  /\ position \in Nat
         /\ \A k \in 1..Len(fields) : fields[k].at <= position
         /\ NoneEmpty => position = Len(fields)
<1>1. CASE fields = << >>
  BY <1>1 DEF position
<1>2. CASE fields # << >>
  <2>1. Len(fields) \in 1..Len(fields) /\ position = fields[Len(fields)].at
    BY <1>2 DEF FieldsInv, position
  <2>2. \A k \in 1..Len(fields) : fields[k].at \in Nat
    BY DEF FieldsInv
  <2>3. \A k \in 1..Len(fields) : k < Len(fields) \/ k = Len(fields)
    BY DEF FieldsInv
  <2> QED
    BY <2>1, <2>2, <2>3 DEF FieldsInv
<1> QED
  BY <1>1, <1>2

\* If no column is empty, the next token is the next column.
LEMMA TokenInPlace ==
  ASSUME FieldsInv, NoneEmpty
  PROVE  /\ Missing => Len(fields) >= Len(line)
         /\ ~Missing => /\ Len(fields) + 1 \in 1..Len(line)
                        /\ token = line[Len(fields) + 1]
<1>1. position = Len(fields) /\ Len(fields) \in Nat /\ Len(line) \in Nat /\ DOMAIN line = 1..Len(line)
  BY PositionFacts DEF FieldsInv
<1>2. Len(fields) + 1 \in 1..Len(line) => Len(fields) + 1 \in Unread
  BY <1>1 DEF NoneEmpty, Unread
<1>3. CASE Missing
  BY <1>1, <1>2, <1>3 DEF Missing
<1>4. CASE ~Missing
  <2>1. PICK n \in 1..Len(line) :
           /\ n > position /\ token = line[n] /\ line[n].kind # "empty"
           /\ \A m \in 1..Len(line) : m > position /\ line[m].kind # "empty" => n <= m
    BY <1>4, TokenIsFirst
  <2>2. Len(fields) + 1 \in 1..Len(line)
    BY <1>1, <2>1
  <2>3. n = Len(fields) + 1
    BY <1>1, <2>1, <2>2 DEF NoneEmpty
  <2> QED
    BY <1>4, <2>1, <2>2, <2>3
<1> QED
  BY <1>3, <1>4

LEMMA InitFieldsInv == Init => FieldsInv
<1> SUFFICES ASSUME Init PROVE FieldsInv
  OBVIOUS
<1>1. line = << >> /\ fields = << >>
  BY DEF Init
<1>2. << >> \in Seq(Column) /\ Len(<< >>) = 0
  OBVIOUS
<1> QED
  BY <1>1, <1>2 DEF FieldsInv, NoneEmpty, NumFields

LEMMA NextLineFieldsInv ==
  ASSUME FieldsInv, NextLine
  PROVE  FieldsInv'
<1>1. PICK l \in Lines : line' = [n \in DOMAIN l |-> [at |-> n, kind |-> l[n]]]
  BY DEF NextLine
<1>2. l \in Seq(Kinds)
  BY LinesAssumption
<1>3. line' \in Seq(Column) /\ \A n \in 1..Len(line') : line'[n].at = n
  <2> DEFINE col(n) == [at |-> n, kind |-> l[n]]
  <2>1. Len(l) \in Nat /\ DOMAIN l = 1..Len(l)
    BY <1>2
  <2>2. \A n \in 1..Len(l) : col(n) \in Column /\ col(n).at = n
    BY <1>2, <2>1 DEF Column
  <2>3. line' = [n \in 1..Len(l) |-> col(n)]
    BY <1>1, <2>1
  <2> HIDE DEF col
  <2>4. line' \in Seq(Column) /\ Len(line') = Len(l)
    BY <2>1, <2>2, <2>3
  <2> QED
    BY <2>2, <2>3, <2>4
<1>4. fields' = << >> /\ pc' = "token"
  BY DEF NextLine, FieldsInv
<1> QED
  BY <1>3, <1>4 DEF FieldsInv, NumFields

LEMMA TakeTokenFieldsInv ==
  ASSUME FieldsInv, TakeToken
  PROVE  FieldsInv'
<1>1. PICK n \in 1..Len(line) :
         /\ n > position /\ token = line[n] /\ line[n].kind # "empty"
         /\ \A m \in 1..Len(line) : m > position /\ line[m].kind # "empty" => n <= m
  BY TokenIsFirst DEF TakeToken
<1>2. line' = line /\ fields' = Append(fields, line[n]) /\ pc' = "token"
      /\ Len(fields) < NumFields
  BY <1>1 DEF TakeToken, Parsing
<1>3. line[n] \in Column /\ line[n].at = n /\ fields \in Seq(Column) /\ Len(line) \in Nat
  BY DEF FieldsInv
<1>4. fields' \in Seq(Column) /\ Len(fields') = Len(fields) + 1 /\ Len(fields) \in Nat
      /\ fields'[Len(fields) + 1] = line[n]
      /\ \A k \in 1..Len(fields) : fields'[k] = fields[k]
  BY <1>2, <1>3
<1>5. \A k \in 1..Len(fields') : k \in 1..Len(fields) \/ k = Len(fields) + 1
  BY <1>4
<1>6. \A k \in 1..Len(fields') :
        fields'[k].at \in 1..Len(line) /\ fields'[k] = line[fields'[k].at]
  BY <1>3, <1>4, <1>5 DEF FieldsInv
<1>7. \A k \in 1..Len(fields) : fields[k].at < n /\ fields[k].at \in Nat
  <2>1. position \in Nat /\ n \in Nat /\ n > position
    BY <1>1, <1>3, PositionFacts
  <2>2. \A k \in 1..Len(fields) : fields[k].at \in Nat /\ fields[k].at <= position
    BY <1>3, PositionFacts DEF FieldsInv
  <2> QED
    BY <2>1, <2>2
<1>8. ASSUME NEW j \in 1..Len(fields'), NEW k \in 1..Len(fields'), j < k
      PROVE  fields'[j].at < fields'[k].at
  <2>1. j \in 1..Len(fields)
    BY <1>4, <1>8
  <2>2. CASE k \in 1..Len(fields)
    BY <1>4, <1>8, <2>1, <2>2 DEF FieldsInv
  <2>3. CASE k = Len(fields) + 1
    BY <1>3, <1>4, <1>7, <2>1, <2>3
  <2> QED
    BY <1>5, <2>2, <2>3
<1>9. NoneEmpty => \A k \in 1..Len(fields') : fields'[k].at = k
  <2>1. SUFFICES ASSUME NoneEmpty, NEW k \in 1..Len(fields') PROVE fields'[k].at = k
    OBVIOUS
  <2>2. CASE k \in 1..Len(fields)
    BY <1>4, <2>1, <2>2 DEF FieldsInv
  <2>3. CASE k = Len(fields) + 1
    <3>1. token = line[Len(fields) + 1] /\ Len(fields) + 1 \in 1..Len(line)
      BY <2>1, TokenInPlace DEF TakeToken
    <3>2. line[n] = line[k]
      BY <1>1, <2>3, <3>1
    <3>3. line[k].at = k
      BY <2>3, <3>1 DEF FieldsInv
    <3> QED
      BY <1>4, <2>3, <3>2, <3>3
  <2> QED
    BY <1>5, <2>2, <2>3
<1>10. Len(fields') <= NumFields
  BY <1>2, <1>4 DEF NumFields
<1>11. NoneEmpty' = NoneEmpty
  BY <1>2 DEF NoneEmpty
<1> QED
  BY <1>2, <1>4, <1>6, <1>8, <1>9, <1>10, <1>11 DEF FieldsInv

LEMMA NextFieldsInv ==
  ASSUME FieldsInv, [Next]_vars
  PROVE  FieldsInv'
<1>1. CASE NextLine
  BY <1>1, NextLineFieldsInv
<1>2. CASE TakeToken
  BY <1>2, TakeTokenFieldsInv
<1>3. CASE BadNumber \/ ShortLine \/ BadTick
  <2>1. UNCHANGED <<line, fields>> /\ pc' = "end"
    BY <1>3 DEF BadNumber, ShortLine, BadTick, EndRun
  <2> QED
    BY <2>1 DEF FieldsInv, NoneEmpty
<1>4. CASE GoodLine
  <2>1. line' = << >> /\ fields' = << >>
    BY <1>4 DEF GoodLine
  <2>2. << >> \in Seq(Column) /\ Len(<< >>) = 0
    OBVIOUS
  <2> QED
    BY <2>1, <2>2 DEF FieldsInv, NoneEmpty, NumFields
<1>5. CASE UNCHANGED vars
  BY <1>5 DEF FieldsInv, NoneEmpty, vars
<1> QED
  BY <1>1, <1>2, <1>3, <1>4, <1>5 DEF Next, Finished

\* Eight columns one behind the other among the first eight are those eight.
LEMMA FieldsInPlace ==
  ASSUME FieldsInv
  PROVE  ColumnsInPlace
<1> SUFFICES ASSUME Complete, Len(line) <= NumFields, NEW n \in DOMAIN fields
             PROVE  fields[n].at = n
  BY DEF ColumnsInPlace
<1> DEFINE a(k) == fields[k].at
<1>1. Len(fields) = 8 /\ DOMAIN fields = 1..8 /\ Len(line) \in Nat /\ Len(line) <= 8
  BY DEF Complete, FieldsInv, NumFields
<1>2. \A k \in 1..8 : a(k) \in 1..Len(line)
  BY <1>1 DEF FieldsInv
<1>3. \A j, k \in 1..8 : j < k => a(j) < a(k)
  BY <1>1 DEF FieldsInv
<1> HIDE DEF a
<1>4. /\ a(1) \in 1..8 /\ a(2) \in 1..8 /\ a(3) \in 1..8 /\ a(4) \in 1..8
      /\ a(5) \in 1..8 /\ a(6) \in 1..8 /\ a(7) \in 1..8 /\ a(8) \in 1..8
  <2>1. 1..Len(line) \subseteq 1..8
    BY <1>1
  <2>2. /\ 1 \in 1..8 /\ 2 \in 1..8 /\ 3 \in 1..8 /\ 4 \in 1..8
        /\ 5 \in 1..8 /\ 6 \in 1..8 /\ 7 \in 1..8 /\ 8 \in 1..8
    OBVIOUS
  <2> QED
    BY <1>2, <2>1, <2>2
<1>5. a(1) < a(2) /\ a(2) < a(3) /\ a(3) < a(4) /\ a(4) < a(5) /\ a(5) < a(6)
      /\ a(6) < a(7) /\ a(7) < a(8)
  <2>1. \A k \in 1..7 : a(k) < a(k + 1)
    BY <1>3
  <2>2. a(1) < a(1 + 1) /\ a(2) < a(2 + 1) /\ a(3) < a(3 + 1)
    BY <2>1
  <2>3. a(4) < a(4 + 1) /\ a(5) < a(5 + 1)
    BY <2>1
  <2>4. a(6) < a(6 + 1) /\ a(7) < a(7 + 1)
    BY <2>1
  <2> QED
    BY <2>2, <2>3, <2>4
<1>6. a(1) = 1 /\ a(2) = 2 /\ a(3) = 3 /\ a(4) = 4 /\ a(5) = 5 /\ a(6) = 6 /\ a(7) = 7 /\ a(8) = 8
  BY <1>4, <1>5
<1>7. a(n) = n
  BY <1>1, <1>6
<1> QED
  BY <1>7 DEF a

-----------------------------------------------------------------------------

\* None of the lines of an input ends a batch, as the instance of Loader is told.
LEMMA NoBatch ==
  ASSUME NEW n \in 1..MaxLines
  PROVE  n % (MaxLines + 1) # 0
<1> DEFINE m == MaxLines + 1
           q == n \div m
           r == n % m
<1>1. m \in Nat \ {0} /\ n \in 1 .. m - 1
  BY MaxLinesAssumption
<1>2. q \in Int /\ r \in Int /\ n = m * q + r
  BY <1>1
<1> HIDE DEF q, r
<1>3. r = 0 => q >= 1
  BY <1>1, <1>2
<1>4. q >= 1 => m * q >= m
  BY <1>1, <1>2
<1> QED
  BY <1>1, <1>2, <1>3, <1>4 DEF r

\* The run ends: the process exits or aborts in the middle of Compress.
LEMMA EndIsDie ==
  ASSUME NEW message, pc = "token", EndRun(message)
  PROVE  Loading!Die
<1> DEFINE a == [run |-> 1, lines |-> 0, flushed |-> FALSE]
<1>1. 0 \in a.lines .. 0 /\ a = [a EXCEPT !.lines = 0]
  OBVIOUS
<1> QED
  BY <1>1 DEF EndRun, Loading!Die, Loading!StreamOpen, Loading!progress

LEMMA StepIsLoading ==
  ASSUME LineInv, [Next]_vars
  PROVE  [Loading!Next]_(Loading!vars)
<1>1. CASE NextLine \/ TakeToken \/ UNCHANGED vars
  BY <1>1
  DEF NextLine, TakeToken, Parsing, vars, Loading!vars, Loading!progress, Loading!files
<1>2. CASE BadNumber
  <2>1. pc = "token" /\ lines_read < input /\ err' = TRUE /\ said' = "bad_line" /\ EndRun("bad_line")
    BY <1>2 DEF BadNumber, Parsing, LineInv, EndRun
  <2>2. Loading!BadNumber
    BY <2>1, EndIsDie DEF Loading!BadNumber
  <2> QED
    BY <2>2 DEF Loading!Next
<1>3. CASE ShortLine
  <2>1. /\ pc = "token" /\ lines_read < input /\ err' = err
        /\ said' = IF err THEN "bad_line" ELSE "aborted"
        /\ EndRun(IF err THEN "bad_line" ELSE "aborted")
    BY <1>3 DEF ShortLine, Parsing, LineInv, EndRun
  <2>2. Loading!ShortLine
    BY <2>1, EndIsDie DEF Loading!ShortLine
  <2> QED
    BY <2>2 DEF Loading!Next
<1>4. CASE BadTick
  <2>1. pc = "token" /\ lines_read < input /\ err' = FALSE /\ said' = "aborted" /\ EndRun("aborted")
    BY <1>4 DEF BadTick, Complete, LineInv, EndRun
  <2>2. Loading!BadPrice
    BY <2>1, EndIsDie DEF Loading!BadPrice
  <2> QED
    BY <2>2 DEF Loading!Next
<1>5. CASE GoodLine
  <2>1. /\ pc = "token" /\ pc' = "line" /\ lines_read < input /\ lines_read' = lines_read + 1
        /\ err' = FALSE /\ UNCHANGED <<input, said>>
        /\ lines_read \in 0..input /\ input \in 0..MaxLines
    BY <1>5 DEF GoodLine, Complete, LineInv
  <2>2. lines_read' \in 1..MaxLines
    BY <2>1, MaxLinesAssumption
  <2>3. lines_read' % (MaxLines + 1) # 0
    BY <2>2, NoBatch
  <2>4. Loading!GoodLine
    BY <2>1, <2>3 DEF Loading!GoodLine, Loading!files
  <2> QED
    BY <2>4 DEF Loading!Next
<1> QED
  BY <1>1, <1>2, <1>3, <1>4, <1>5 DEF Next, Finished

\* Parsing implements Loader: whatever the lines are, each token taken is no step of
\* the run, and each line that ends, ends it as Loader says or goes on with err false.
THEOREM ParsingImplementsLoader == Spec => ImplementsLoader
<1>1. Init => LineInv
  BY InitLineInv
<1>2. LineInv /\ [Next]_vars => LineInv'
  BY NextLineInv
<1>3. LineInv /\ [Next]_vars => [Loading!Next]_(Loading!vars)
  BY StepIsLoading
<1> QED
  BY <1>1, <1>2, <1>3, PTL DEF Spec, ImplementsLoader
-----------------------------------------------------------------------------

\* A line of the input format that ends a run was given up on before all its numbers
\* were taken, or as a tick without side or price: it is neither.
LEMMA NextAccepts ==
  ASSUME LineInv, FieldsInv, WellFormedAccepted, [Next]_vars
  PROVE  WellFormedAccepted'
<1> SUFFICES ASSUME pc' = "end", WellFormed' PROVE FALSE
  BY DEF WellFormedAccepted
<1>1. CASE BadNumber \/ ShortLine \/ BadTick
  <2>1. line' = line
    BY <1>1 DEF BadNumber, ShortLine, BadTick, EndRun
  <2>2. WellFormed
    BY <2>1 DEF WellFormed
  <2>3. Len(line) = 8 /\ DOMAIN line = 1..8 /\ NoneEmpty /\ Len(fields) \in Nat
    BY <2>2 DEF WellFormed, NumFields, FieldsInv, NoneEmpty
  <2>4. CASE BadNumber
    <3>1. ~Missing /\ Throws
      BY <2>4 DEF BadNumber
    <3>2. token = line[Len(fields) + 1] /\ Len(fields) + 1 \in 1..Len(line)
      BY <2>3, <3>1, TokenInPlace
    <3>3. Len(fields) + 1 \in Numbers /\ token.kind \in {"word", "side", "huge"}
      BY <3>1 DEF Throws
    <3>4. line[Len(fields) + 1].kind \in {"number", "wide"}
      BY <2>2, <3>3 DEF WellFormed
    <3> QED
      BY <3>2, <3>3, <3>4
  <2>5. CASE ShortLine
    <3>1. Missing /\ Len(fields) < 8
      BY <2>5 DEF ShortLine, Parsing, NumFields
    <3> QED
      BY <2>3, <3>1, TokenInPlace
  <2>6. CASE BadTick
    <3>1. Len(fields) = 8 /\ (~IsSide \/ ~IsPrice)
      BY <2>6 DEF BadTick, Complete, NumFields
    <3>2. SIDE \in 1..8 /\ PRICE \in 1..8
      BY DEF SIDE, PRICE
    <3>3. \A k \in 1..8 : fields[k].at = k /\ fields[k] = line[fields[k].at]
      BY <2>3, <3>1 DEF FieldsInv
    <3>4. fields[SIDE] = line[SIDE] /\ fields[PRICE] = line[PRICE]
      BY <3>2, <3>3
    <3> QED
      BY <2>2, <3>1, <3>4 DEF WellFormed, IsSide, IsPrice
  <2> QED
    BY <1>1, <2>4, <2>5, <2>6
<1>2. CASE NextLine \/ TakeToken \/ GoodLine
  BY <1>2 DEF NextLine, TakeToken, Parsing, GoodLine
<1>3. CASE UNCHANGED vars
  BY <1>3 DEF vars, WellFormedAccepted, WellFormed
<1> QED
  BY <1>1, <1>2, <1>3 DEF Next, Finished

\* The fields are columns of the line, and no more lines are read than there are.
THEOREM TypeCorrect == Spec => []TypeOK
<1>1. Init => LineInv /\ FieldsInv
  BY InitLineInv, InitFieldsInv
<1>2. LineInv /\ FieldsInv /\ [Next]_vars => LineInv' /\ FieldsInv'
  BY NextLineInv, NextFieldsInv
<1>3. LineInv /\ FieldsInv => TypeOK
  <2> SUFFICES ASSUME LineInv, FieldsInv PROVE TypeOK
    OBVIOUS
  <2>1. DOMAIN line = 1..Len(line) /\ DOMAIN fields = 1..Len(fields)
    BY DEF FieldsInv
  <2>2. \A n \in DOMAIN line : line[n] \in Column /\ line[n].at = n
    BY <2>1 DEF FieldsInv
  <2>3. \A n \in DOMAIN fields : fields[n].at \in DOMAIN line
    BY <2>1 DEF FieldsInv
  <2> QED
    BY <2>2, <2>3 DEF LineInv, FieldsInv, TypeOK, Column
<1> QED
  BY <1>1, <1>2, <1>3, PTL DEF Spec

\* An empty column of a line of eight is never made up for by the next one: a line no
\* longer than a tick either gives every field its own column or makes no tick.
THEOREM FieldsKeepTheirPlace == Spec => []ColumnsInPlace
<1>1. Init => FieldsInv
  BY InitFieldsInv
<1>2. FieldsInv /\ [Next]_vars => FieldsInv'
  BY NextFieldsInv
<1>3. FieldsInv => ColumnsInPlace
  BY FieldsInPlace
<1> QED
  BY <1>1, <1>2, <1>3, PTL DEF Spec

\* No line of the input format ends a run, whatever the error flag holds: neither what
\* it holds uninitialized nor what another line left in it.
THEOREM InputFormatAccepted == Spec => []WellFormedAccepted
<1>1. Init => LineInv /\ FieldsInv /\ WellFormedAccepted
  BY InitLineInv, InitFieldsInv DEF Init, WellFormedAccepted
<1>2. LineInv /\ FieldsInv /\ WellFormedAccepted /\ [Next]_vars
        => LineInv' /\ FieldsInv' /\ WellFormedAccepted'
  BY NextLineInv, NextFieldsInv, NextAccepts
<1> QED
  BY <1>1, <1>2, PTL DEF Spec
=============================================================================
