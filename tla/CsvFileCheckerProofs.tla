------------------------ MODULE CsvFileCheckerProofs ------------------------
(***************************************************************************)
(* Proofs about the CSV checker, for every set of lines and every length of *)
(* the file.  The argument: without spaces a line gives one word, itself,   *)
(* or none if it is blank.  So a file of which as many words are read as it *)
(* has lines is read line by line; of a word not rejected, what either     *)
(* function prints begins with its first eight columns; and of a line with  *)
(* no empty field among its first eight strtok returns those eight.  A tick *)
(* whose ticker has a space is two words, the first a token alone, and that  *)
(* is a word both functions reject.                                        *)
(***************************************************************************)
EXTENDS CsvFileChecker, SequenceTheorems, WellFoundedInduction, TLAPS

Line == Seq(Columns)

\* The file has no spaces.
Unspaced == \A n \in 1..Len(file) : \A c \in 1..Len(file[n]) : file[n][c] # "spaced"

\* Lines that operator>> passes over.
Blank == {<< >>, <<"empty">>}
NoneBlank == \A n \in 1..Len(file) : file[n] \notin Blank

\* What may be printed of a word.
Shown == {Printed(w) : w \in Line}

Typed ==
  /\ file \in Seq(Line)
  /\ rows \in Seq(Shown)
  /\ unread \in Seq(Line)
  /\ \A n \in 1..Len(unread) : unread[n] # << >>

\* The words are those of the lines, one behind the other: no more than one of each
\* line, and if none is missing so far each is its line.
NoneMissing == Len(rows) + Len(unread) = Len(file)

LineByLine ==
  /\ Len(rows) + Len(unread) <= Len(file)
  /\ NoneBlank => NoneMissing
  /\ NoneMissing =>
       /\ \A n \in 1..Len(unread) : unread[n] = file[Len(rows) + n]
       /\ \A n \in 1..Len(rows) : rows[n] = Printed(file[n])

\* As long as none was rejected, the lines read had their fields.
Accepted ==
  NoneMissing /\ pc \in {"reading", "done"} => \A n \in 1..Len(rows) : BadFields(file[n]) = {}

\* The file is read to its end, and ticks are not rejected.
ReadToEnd ==
  /\ pc \in {"reading", "done", "returned", "undefined", "aborted"}
  /\ pc = "done" => unread = << >>
  /\ Ticks => pc \in {"reading", "done"}

\* The first word of a tick whose ticker has a space, which neither function gets past:
\* it is unread until a word is rejected.
Stub == <<"word">>

StubAhead ==
  Ticks /\ SplitTick =>
    /\ unread \in Seq(Line)
    /\ \/ pc \in {"returned", "undefined", "aborted"}
       \/ pc = "reading" /\ \E k \in 1..Len(unread) : unread[k] = Stub

IInv ==
  /\ file \in Seq(Line)
  /\ Unspaced => Typed /\ LineByLine /\ Accepted /\ ReadToEnd
  /\ StubAhead

-----------------------------------------------------------------------------
(* Induction over a set of numbers.                                        *)

\* A set that has 0, and the successor of every number it has, has all numbers.
LEMMA SetInduction ==
  ASSUME NEW T, 0 \in T, \A n \in Nat : n \in T => n + 1 \in T
  PROVE  \A n \in Nat : n \in T
<1> DEFINE R == OpToRel(<, Nat)
           S == Nat \ T
<1>1. \A x, y \in Nat : x < y => <<x, y>> \in R
  BY DEF OpToRel
<1>2. IsWellFoundedOn(R, Nat)
  BY NatLessThanWellFounded
<1> HIDE DEF R
<1>3. SUFFICES ASSUME S # {} PROVE FALSE
  OBVIOUS
<1>4. PICK x \in S : \A y \in S : ~(<<y, x>> \in R)
  <2>1. S \subseteq Nat
    OBVIOUS
  <2> HIDE DEF S
  <2> QED
    BY <1>2, <1>3, <2>1, WFMin
<1>5. x \in Nat /\ x \notin T /\ x # 0
  OBVIOUS
<1>6. x - 1 \in Nat /\ x - 1 < x /\ (x - 1) + 1 = x
  BY <1>5
<1>7. x - 1 \in S
  BY <1>5, <1>6
<1> QED
  BY <1>1, <1>4, <1>5, <1>6, <1>7

-----------------------------------------------------------------------------
(* The word of a line without spaces.                                      *)

\* f has the words behind the columns of l up to each.
ReadsWords(f, l) ==
  f = [n \in 0..Len(l) |->
         IF n = 0 THEN [words |-> << >>, word |-> << >>]
         ELSE IF l[n] = "spaced"
         THEN [words |-> Extracted(f[n - 1].words, Append(f[n - 1].word, "word")),
               word  |-> <<"word">>]
         ELSE [words |-> f[n - 1].words, word |-> Append(f[n - 1].word, l[n])]]

\* The first n columns of a line are the first n - 1 and one more.
LEMMA LongerByOne ==
  ASSUME NEW l \in Line, NEW n \in 1..Len(l)
  PROVE  SubSeq(l, 1, n) = Append(SubSeq(l, 1, n - 1), l[n])
<1> DEFINE a == SubSeq(l, 1, n - 1)
           b == SubSeq(l, 1, n)
<1>1. Len(l) \in Nat /\ l \in Seq(Columns) /\ n \in Int /\ l[n] \in Columns
  BY DEF Line
<1>2. a \in Seq(Columns) /\ Len(a) = n - 1 /\ \A k \in 1 .. n - 1 : a[k] = l[k]
  BY <1>1, SubSeqProperties
<1>3. b \in Seq(Columns) /\ Len(b) = n /\ \A k \in 1..n : b[k] = l[k]
  BY <1>1, SubSeqProperties
<1> HIDE DEF a, b
<1>4. Append(a, l[n]) \in Seq(Columns) /\ Len(Append(a, l[n])) = n
      /\ \A k \in 1..n : Append(a, l[n])[k] = l[k]
  BY <1>1, <1>2, AppendProperties
<1>5. b = Append(a, l[n])
  BY <1>1, <1>3, <1>4, SeqEqual
<1> QED
  BY <1>5 DEF a, b

\* The columns read so far are one word as long as there is no space.
LEMMA OneWordReads ==
  ASSUME NEW l \in Line, \A c \in 1..Len(l) : l[c] # "spaced"
  PROVE  ReadsWords([n \in 0..Len(l) |-> [words |-> << >>, word |-> SubSeq(l, 1, n)]], l)
<1> DEFINE g == [n \in 0..Len(l) |-> [words |-> << >>, word |-> SubSeq(l, 1, n)]]
           step(n) == IF n = 0 THEN [words |-> << >>, word |-> << >>]
                      ELSE IF l[n] = "spaced"
                      THEN [words |-> Extracted(g[n - 1].words,
                                                Append(g[n - 1].word, "word")),
                            word  |-> <<"word">>]
                      ELSE [words |-> g[n - 1].words, word |-> Append(g[n - 1].word, l[n])]
<1>1. Len(l) \in Nat /\ l \in Seq(Columns)
  BY DEF Line
<1>2. ASSUME NEW n \in 0..Len(l) PROVE g[n] = step(n)
  <2>1. CASE n = 0
    <3>1. SubSeq(l, 1, 0) = << >>
      BY <1>1, SubSeqEmpty
    <3> QED
      BY <2>1, <3>1, <1>1
  <2>2. CASE n # 0
    <3>1. n - 1 \in 0..Len(l) /\ n \in 1..Len(l) /\ n \in Int
      BY <1>1, <2>2
    <3>2. g[n - 1] = [words |-> << >>, word |-> SubSeq(l, 1, n - 1)]
      BY <3>1
    <3>3. SubSeq(l, 1, n) = Append(SubSeq(l, 1, n - 1), l[n])
      BY <3>1, LongerByOne
    <3> QED
      BY <2>2, <3>1, <3>2, <3>3
  <2> QED
    BY <2>1, <2>2
<1>3. g = [n \in 0..Len(l) |-> g[n]]
  OBVIOUS
<1> HIDE DEF g
<1>4. g = [n \in 0..Len(l) |-> step(n)]
  BY <1>2, <1>3
<1>5. ReadsWords(g, l)
  BY <1>4 DEF ReadsWords
<1> QED
  BY <1>5 DEF g

\* There is one such function only.
LEMMA ReadsWordsUnique ==
  ASSUME NEW l \in Line, NEW f, NEW g, ReadsWords(f, l), ReadsWords(g, l)
  PROVE  \A n \in 0..Len(l) : f[n] = g[n]
<1> DEFINE T == {n \in Nat : n \in 0..Len(l) => f[n] = g[n]}
<1>1. Len(l) \in Nat
  BY DEF Line
<1>2. 0 \in T
  BY <1>1 DEF ReadsWords
<1>3. ASSUME NEW n \in Nat, n \in T PROVE n + 1 \in T
  <2>1. SUFFICES ASSUME n + 1 \in 0..Len(l) PROVE f[n + 1] = g[n + 1]
    OBVIOUS
  <2>2. n \in 0..Len(l) /\ n + 1 # 0 /\ (n + 1) - 1 = n
    BY <1>1, <2>1
  <2>3. f[n] = g[n]
    BY <1>3, <2>2
  <2> DEFINE next(r) ==
               IF l[n + 1] = "spaced"
               THEN [words |-> Extracted(r.words, Append(r.word, "word")),
                     word  |-> <<"word">>]
               ELSE [words |-> r.words, word |-> Append(r.word, l[n + 1])]
  <2>4. f[n + 1] = next(f[n])
    BY <2>1, <2>2, Zenon DEF ReadsWords
  <2>5. g[n + 1] = next(g[n])
    BY <2>1, <2>2, Zenon DEF ReadsWords
  <2> QED
    BY <2>3, <2>4, <2>5
<1> HIDE DEF T
<1>4. \A n \in Nat : n \in T
  BY <1>2, <1>3, SetInduction
<1> QED
  BY <1>1, <1>4 DEF T

\* Without a space a line is one word, or none if operator>> finds nothing in it.
LEMMA UnspacedWords ==
  ASSUME NEW l \in Line, \A c \in 1..Len(l) : l[c] # "spaced"
  PROVE  WordsOf(l) = IF l \in Blank THEN << >> ELSE <<l>>
<1> DEFINE f == CHOOSE h : ReadsWords(h, l)
           g == [n \in 0..Len(l) |-> [words |-> << >>, word |-> SubSeq(l, 1, n)]]
<1>1. ReadsWords(g, l)
  BY OneWordReads
<1>2. ReadsWords(f, l)
  BY <1>1
<1>3. Len(l) \in Nat /\ l \in Seq(Columns)
  BY DEF Line
<1>4. g[Len(l)] = [words |-> << >>, word |-> l]
  <2>1. SubSeq(l, 1, Len(l)) = l
    BY <1>3, SubSeqFull
  <2> QED
    BY <1>3, <2>1
<1>5. WordsOf(l) = Extracted(f[Len(l)].words, f[Len(l)].word)
  BY Zenon DEF WordsOf, ReadsWords
<1> HIDE DEF f, g
<1>6. f[Len(l)] = g[Len(l)]
  BY <1>1, <1>2, <1>3, ReadsWordsUnique
<1>7. WordsOf(l) = Extracted(<< >>, l)
  BY <1>4, <1>5, <1>6
<1>8. Append(<< >>, l) = <<l>>
  OBVIOUS
<1> QED
  BY <1>7, <1>8 DEF Extracted, Blank

-----------------------------------------------------------------------------
(* The words of a tick.                                                    *)

\* A tick whose ticker has a space is two words: what is in front of it and the rest.
LEMMA SplitTickWords ==
  ASSUME NEW l \in Line, Tick(l), l[1] = "spaced"
  PROVE  \E rest \in Line : WordsOf(l) = <<Stub, rest>>
<1> DEFINE rest == [l EXCEPT ![1] = "word"]
           f == CHOOSE h : ReadsWords(h, l)
           g == [n \in 0..8 |-> IF n = 0 THEN [words |-> << >>, word |-> << >>]
                                ELSE [words |-> <<Stub>>, word |-> SubSeq(rest, 1, n)]]
           step(n) == IF n = 0 THEN [words |-> << >>, word |-> << >>]
                      ELSE IF l[n] = "spaced"
                      THEN [words |-> Extracted(g[n - 1].words,
                                                Append(g[n - 1].word, "word")),
                            word  |-> <<"word">>]
                      ELSE [words |-> g[n - 1].words, word |-> Append(g[n - 1].word, l[n])]
<1>1. Len(l) = 8 /\ l \in Seq(Columns) /\ DOMAIN l = 1..8
  BY DEF Tick, NumFields, Line
<1>2. rest \in Line /\ Len(rest) = 8 /\ rest[1] = "word" /\ \A n \in 2..8 : rest[n] = l[n]
  BY <1>1, ExceptSeq DEF Line, Columns
<1>3. \A n \in 2..8 : l[n] # "spaced"
  BY <1>1 DEF Tick
<1> HIDE DEF rest
<1>4. SubSeq(rest, 1, 0) = << >> /\ SubSeq(rest, 1, 8) = rest
  BY <1>2, SubSeqEmpty, SubSeqFull DEF Line
<1>5. SubSeq(rest, 1, 1) = <<"word">>
  <2>1. 1 \in 1..Len(rest) /\ 1 - 1 = 0
    BY <1>2
  <2>2. SubSeq(rest, 1, 1) = Append(<< >>, "word")
    BY <1>2, <1>4, <2>1, LongerByOne
  <2> QED
    BY <2>2
<1>6. ASSUME NEW n \in 0..8 PROVE g[n] = step(n)
  <2>1. CASE n = 0
    BY <2>1
  <2>2. CASE n = 1
    <3>1. g[n - 1] = [words |-> << >>, word |-> << >>]
      BY <2>2
    <3>2. Append(<< >>, "word") = Stub /\ Append(<< >>, Stub) = <<Stub>>
      BY DEF Stub
    <3>3. Stub \notin {<< >>, <<"empty">>}
      BY DEF Stub
    <3>4. Extracted(<< >>, Stub) = <<Stub>>
      BY <3>2, <3>3 DEF Extracted
    <3>5. step(n) = [words |-> <<Stub>>, word |-> <<"word">>]
      <4> HIDE DEF g
      <4>1. g[n - 1].words = << >> /\ g[n - 1].word = << >>
        BY <3>1
      <4>2. Append(g[n - 1].word, "word") = Stub
        BY <3>2, <4>1
      <4>3. Extracted(g[n - 1].words, Append(g[n - 1].word, "word")) = <<Stub>>
        BY <3>4, <4>1, <4>2
      <4> QED
        BY <2>2, <4>3
    <3> QED
      BY <1>5, <2>2, <3>5
  <2>3. CASE n \in 2..8
    <3>1. n - 1 \in 0..8 /\ n - 1 # 0 /\ n \in 1..Len(rest) /\ n # 0
      BY <1>2, <2>3
    <3>2. g[n - 1] = [words |-> <<Stub>>, word |-> SubSeq(rest, 1, n - 1)]
      BY <3>1
    <3>3. SubSeq(rest, 1, n) = Append(SubSeq(rest, 1, n - 1), l[n])
      BY <1>2, <2>3, <3>1, LongerByOne
    <3> QED
      BY <1>3, <2>3, <3>1, <3>2, <3>3
  <2> QED
    BY <2>1, <2>2, <2>3
<1>7. g = [n \in 0..8 |-> g[n]]
  OBVIOUS
<1>8. g[8] = [words |-> <<Stub>>, word |-> rest]
  BY <1>4
<1> HIDE DEF g
<1>9. g = [n \in 0..8 |-> step(n)]
  BY <1>6, <1>7
<1>10. ReadsWords(g, l)
  BY <1>1, <1>9 DEF ReadsWords
<1>11. ReadsWords(f, l)
  BY <1>10
<1>12. WordsOf(l) = Extracted(f[Len(l)].words, f[Len(l)].word)
  BY Zenon DEF WordsOf, ReadsWords
<1> HIDE DEF f
<1>13. f[8] = g[8]
  <2>1. \A n \in 0..Len(l) : f[n] = g[n]
    BY <1>10, <1>11, ReadsWordsUnique
  <2> QED
    BY <1>1, <2>1
<1>14. WordsOf(l) = Extracted(<<Stub>>, rest)
  BY <1>1, <1>8, <1>12, <1>13
<1>15. rest \notin {<< >>, <<"empty">>}
  BY <1>2
<1>16. Append(<<Stub>>, rest) = <<Stub, rest>>
  <2>1. Stub \in Line
    BY DEF Stub, Line, Columns
  <2>2. /\ <<Stub, rest>> \in Seq(Line) /\ Len(<<Stub, rest>>) = 2
        /\ <<Stub, rest>>[1] = Stub /\ <<Stub, rest>>[2] = rest
    BY <1>2, <2>1
  <2>3. <<Stub>> \in Seq(Line) /\ Len(<<Stub>>) = 1 /\ <<Stub>>[1] = Stub
    BY <2>1
  <2>4. /\ Append(<<Stub>>, rest) \in Seq(Line) /\ Len(Append(<<Stub>>, rest)) = 2
        /\ Append(<<Stub>>, rest)[1] = Stub /\ Append(<<Stub>>, rest)[2] = rest
    BY <1>2, <2>3, AppendProperties
  <2>5. \A k \in 1..2 : k = 1 \/ k = 2
    OBVIOUS
  <2> DEFINE a == Append(<<Stub>>, rest)
             b == <<Stub, rest>>
  <2>6. a \in Seq(Line) /\ b \in Seq(Line) /\ Len(a) = Len(b)
        /\ \A k \in 1..Len(a) : a[k] = b[k]
    BY <2>2, <2>4, <2>5
  <2> HIDE DEF a, b
  <2>7. a = b
    BY <2>6, SeqEqual
  <2> QED
    BY <2>7 DEF a, b
<1> QED
  BY <1>2, <1>14, <1>15, <1>16 DEF Extracted

\* Any other tick is one word.
LEMMA TickWords ==
  ASSUME NEW l \in Line, Tick(l)
  PROVE  /\ WordsOf(l) \in Seq(Line)
         /\ l[1] = "spaced" => 1 \in 1..Len(WordsOf(l)) /\ WordsOf(l)[1] = Stub
<1>1. CASE l[1] = "spaced"
  <2>1. PICK rest \in Line : WordsOf(l) = <<Stub, rest>>
    BY <1>1, SplitTickWords
  <2>2. Stub \in Line
    BY DEF Stub, Line, Columns
  <2> QED
    BY <2>1, <2>2
<1>2. CASE l[1] # "spaced"
  <2>1. \A c \in 1..Len(l) : l[c] # "spaced"
    BY <1>2 DEF Tick, Line
  <2>2. WordsOf(l) = IF l \in Blank THEN << >> ELSE <<l>>
    BY <2>1, UnspacedWords
  <2>3. <<l>> \in Seq(Line) /\ << >> \in Seq(Line)
    OBVIOUS
  <2> QED
    BY <1>2, <2>2, <2>3
<1> QED
  BY <1>1, <1>2

-----------------------------------------------------------------------------
(* The words of a file without spaces.                                     *)

\* f has the concatenations of the first n sequences of s, for n = 1, 2, ..., m.
Concats(f, s, m) ==
  f = [i \in 1..m |-> IF i = 1 THEN s[i] ELSE f[i - 1] \o s[i]]

\* There are such concatenations.
LEMMA ConcatsExist ==
  ASSUME NEW s
  PROVE  \A m \in Nat : \E f : Concats(f, s, m)
<1> DEFINE T == {m \in Nat : \E f : Concats(f, s, m)}
<1>1. 0 \in T
  <2> DEFINE e == [i \in 1..0 |-> << >>]
             c == [i \in 1..0 |-> IF i = 1 THEN s[i] ELSE e[i - 1] \o s[i]]
  <2>1. e = c
    OBVIOUS
  <2>2. Concats(e, s, 0)
    BY <2>1 DEF Concats
  <2> HIDE DEF e, c
  <2> QED
    BY <2>2
<1>2. ASSUME NEW m \in Nat, m \in T PROVE m + 1 \in T
  <2>1. PICK f0 : Concats(f0, s, m)
    BY <1>2
  <2> DEFINE f == [i \in 1 .. m + 1 |-> IF i = m + 1
                                        THEN IF m = 0 THEN s[1] ELSE f0[m] \o s[m + 1]
                                        ELSE f0[i]]
             c == [i \in 1 .. m + 1 |-> IF i = 1 THEN s[i] ELSE f[i - 1] \o s[i]]
  <2>2. \A i \in 1..m : f0[i] = IF i = 1 THEN s[i] ELSE f0[i - 1] \o s[i]
    BY <2>1 DEF Concats
  <2>3. \A i \in 1..m : f[i] = f0[i] /\ i # m + 1
    OBVIOUS
  <2>4. f[m + 1] = IF m = 0 THEN s[1] ELSE f0[m] \o s[m + 1]
    OBVIOUS
  <2>5. f = [i \in 1 .. m + 1 |-> f[i]]
    OBVIOUS
  <2> HIDE DEF f
  <2>6. ASSUME NEW i \in 1 .. m + 1
        PROVE  f[i] = IF i = 1 THEN s[i] ELSE f[i - 1] \o s[i]
    <3>1. CASE i \in 1..m
      <4>1. i # 1 => i - 1 \in 1..m
        BY <3>1
      <4> QED
        BY <2>2, <2>3, <3>1, <4>1
    <3>2. CASE i = m + 1
      <4>1. m # 0 => m \in 1..m /\ i - 1 = m /\ i # 1
        BY <3>2
      <4> QED
        BY <2>3, <2>4, <3>2, <4>1
    <3> QED
      BY <3>1, <3>2
  <2>7. f = c
    BY <2>5, <2>6
  <2>8. Concats(f, s, m + 1)
    BY <2>7 DEF Concats
  <2> QED
    BY <2>8
<1> HIDE DEF T
<1>3. \A m \in Nat : m \in T
  BY <1>1, <1>2, SetInduction
<1> QED
  BY <1>3 DEF T

\* The words of the first m lines: no more than lines, and the lines themselves if
\* there are as many.
WordsOfLines(w, m) ==
  /\ w \in Seq(Line)
  /\ \A k \in 1..Len(w) : w[k] # << >>
  /\ Len(w) <= m
  /\ NoneBlank => Len(w) = m
  /\ Len(w) = m => \A k \in 1..m : w[k] = file[k]

\* One more line adds its word, if it has one.
LEMMA OneMoreLine ==
  ASSUME file \in Seq(Line), Unspaced, NEW m \in Nat, m + 1 \in 1..Len(file),
         NEW w, WordsOfLines(w, m)
  PROVE  WordsOfLines(w \o WordsOf(file[m + 1]), m + 1)
<1> DEFINE l == file[m + 1]
<1>1. l \in Line /\ Len(file) \in Nat
  OBVIOUS
<1>2. \A c \in 1..Len(l) : l[c] # "spaced"
  BY DEF Unspaced
<1> HIDE DEF l
<1>3. WordsOf(l) = IF l \in Blank THEN << >> ELSE <<l>>
  BY <1>1, <1>2, UnspacedWords
<1>4. w \in Seq(Line) /\ Len(w) \in Nat /\ Len(w) <= m
  BY DEF WordsOfLines
<1>5. CASE l \in Blank
  <2>1. w \o WordsOf(l) = w
    BY <1>3, <1>4, <1>5, ConcatEmptySeq
  <2>2. ~NoneBlank
    BY <1>5 DEF NoneBlank, l
  <2> QED
    BY <1>4, <2>1, <2>2 DEF WordsOfLines, l
<1>6. CASE l \notin Blank
  <2> DEFINE v == w \o <<l>>
  <2>1. w \o WordsOf(l) = v
    BY <1>3, <1>6
  <2>2. <<l>> \in Seq(Line) /\ Len(<<l>>) = 1 /\ <<l>>[1] = l
    BY <1>1
  <2>3. v \in Seq(Line) /\ Len(v) = Len(w) + 1 /\ v[Len(w) + 1] = l
        /\ \A k \in 1..Len(w) : v[k] = w[k]
    BY <1>4, <2>2, ConcatProperties
  <2> HIDE DEF v
  <2>4. l # << >>
    BY <1>6 DEF Blank
  <2>5. \A k \in 1 .. Len(w) + 1 : k \in 1..Len(w) \/ k = Len(w) + 1
    BY <1>4
  <2>6. \A k \in 1..Len(v) : v[k] # << >>
    BY <2>3, <2>4, <2>5 DEF WordsOfLines
  <2>7. Len(v) = m + 1 => \A k \in 1 .. m + 1 : v[k] = file[k]
    <3>1. SUFFICES ASSUME Len(v) = m + 1, NEW k \in 1 .. m + 1 PROVE v[k] = file[k]
      OBVIOUS
    <3>2. Len(w) = m
      BY <1>4, <2>3, <3>1
    <3>3. CASE k \in 1..m
      BY <2>3, <3>2, <3>3 DEF WordsOfLines
    <3>4. CASE k = m + 1
      BY <2>3, <3>2, <3>4 DEF l
    <3> QED
      BY <3>3, <3>4
  <2>8. Len(v) <= m + 1 /\ (NoneBlank => Len(v) = m + 1)
    BY <1>4, <2>3 DEF WordsOfLines
  <2> QED
    BY <2>1, <2>3, <2>6, <2>7, <2>8 DEF WordsOfLines, l
<1> QED
  BY <1>5, <1>6

\* What holds of no words after no lines, and is kept by every line, holds of all the
\* words: Good has the pairs of words and numbers of lines it holds of.
LEMMA FlattenInduction ==
  ASSUME NEW N \in Nat, NEW s, Len(s) = N, \A n \in 1..N : s[n] \in Seq(Line),
         N = 0 => s = << >>,
         NEW Good, Good \subseteq Seq(Line) \X Nat, << << >>, 0 >> \in Good,
         \A m \in Nat : \A w \in Seq(Line) :
           m + 1 \in 1..N /\ <<w, m>> \in Good => <<w \o s[m + 1], m + 1>> \in Good
  PROVE  <<FlattenSeq(s), N>> \in Good
<1>1. CASE N = 0
  <2>1. FlattenSeq(s) = s
    BY <1>1 DEF FlattenSeq
  <2> QED
    BY <1>1, <2>1
<1>2. CASE N # 0
  <2> DEFINE f == CHOOSE h : Concats(h, s, N)
  <2>1. Concats(f, s, N)
    BY ConcatsExist
  <2>2. FlattenSeq(s) = f[N]
    BY <1>2, Zenon DEF FlattenSeq, Concats
  <2> HIDE DEF f
  <2>3. \A i \in 1..N : f[i] = IF i = 1 THEN s[i] ELSE f[i - 1] \o s[i]
    BY <2>1 DEF Concats
  <2> DEFINE T == {m \in Nat : m + 1 <= N => <<f[m + 1], m + 1>> \in Good}
  <2>4. 0 \in T
    <3>1. 0 + 1 = 1 /\ 1 \in 1..N /\ f[1] = s[1] /\ s[1] \in Seq(Line)
      BY <1>2, <2>3
    <3>2. << << >> \o s[0 + 1], 0 + 1>> \in Good
      <4>1. << >> \in Seq(Line) /\ 0 \in Nat /\ 0 + 1 \in 1..N
        BY <3>1
      <4> QED
        BY <4>1
    <3>3. << >> \o s[1] = s[1]
      BY <3>1, ConcatEmptySeq
    <3> QED
      BY <3>1, <3>2, <3>3
  <2>5. ASSUME NEW m \in Nat, m \in T PROVE m + 1 \in T
    <3>1. SUFFICES ASSUME m + 2 <= N PROVE <<f[m + 2], m + 2>> \in Good
      OBVIOUS
    <3>2. m + 1 \in Nat /\ (m + 1) + 1 = m + 2 /\ m + 2 \in 1..N /\ m + 2 # 1
          /\ (m + 2) - 1 = m + 1 /\ m + 1 <= N
      BY <3>1
    <3>3. <<f[m + 1], m + 1>> \in Good
      BY <2>5, <3>2
    <3>4. f[m + 1] \in Seq(Line)
      BY <3>3
    <3>5. f[m + 2] = f[m + 1] \o s[m + 2]
      BY <2>3, <3>2
    <3>6. <<f[m + 1] \o s[(m + 1) + 1], (m + 1) + 1>> \in Good
      BY <3>2, <3>3, <3>4
    <3> QED
      BY <3>2, <3>5, <3>6
  <2> HIDE DEF T
  <2>6. \A n \in Nat : n \in T
    BY <2>4, <2>5, SetInduction
  <2>7. PICK m \in Nat : m + 1 = N
    BY <1>2
  <2>8. <<f[m + 1], m + 1>> \in Good
    BY <2>6, <2>7 DEF T
  <2> QED
    BY <2>2, <2>7, <2>8
<1> QED
  BY <1>1, <1>2

\* The lines of the file, as FlattenSeq takes them.
LEMMA WordsOfFile ==
  ASSUME file \in Seq(Line), NEW s, s = [n \in DOMAIN file |-> WordsOf(file[n])]
  PROVE  /\ Len(file) \in Nat /\ Len(s) = Len(file)
         /\ \A n \in 1..Len(file) : s[n] = WordsOf(file[n])
         /\ Len(file) = 0 => s = << >>
<1> DEFINE N == Len(file)
           W(n) == WordsOf(file[n])
<1>1. N \in Nat /\ DOMAIN file = 1..N
  OBVIOUS
<1>2. s = [n \in 1..N |-> W(n)]
  BY <1>1
<1>3. N = 0 => 1..N = {}
  BY <1>1
<1>4. \A n \in 1..N : s[n] = W(n)
  BY <1>2
<1> HIDE DEF W, N
<1>5. Len(s) = N /\ (N = 0 => s = << >>)
  BY <1>1, <1>2, <1>3
<1> QED
  BY <1>1, <1>4, <1>5 DEF W, N

\* The words of the whole file.
LEMMA UnspacedFile ==
  ASSUME file \in Seq(Line), Unspaced
  PROVE  WordsOfLines(FlattenSeq([n \in DOMAIN file |-> WordsOf(file[n])]), Len(file))
<1> DEFINE s == [n \in DOMAIN file |-> WordsOf(file[n])]
           N == Len(file)
           Good == {p \in Seq(Line) \X Nat : WordsOfLines(p[1], p[2])}
<1>1. /\ N \in Nat /\ Len(s) = N /\ \A n \in 1..N : s[n] = WordsOf(file[n])
      /\ N = 0 => s = << >>
  BY WordsOfFile
<1>2. << << >>, 0 >> \in Good
  <2> DEFINE p == << << >>, 0 >>
  <2>1. WordsOfLines(<< >>, 0)
    BY DEF WordsOfLines, NoneBlank
  <2> DEFINE e == << >>
             q == <<e, 0>>
  <2>4. e \in Seq(Line)
    OBVIOUS
  <2> HIDE DEF e
  <2>5. q \in Seq(Line) \X Nat /\ q[1] = e /\ q[2] = 0
    BY <2>4
  <2>2. p \in Seq(Line) \X Nat /\ p[1] = << >> /\ p[2] = 0
    BY <2>5 DEF e
  <2> HIDE DEF p
  <2>3. p \in Good
    BY <2>1, <2>2
  <2> QED
    BY <2>3 DEF p
<1> HIDE DEF s
<1>3. ASSUME NEW n \in 1..N PROVE s[n] \in Seq(Line)
  <2>1. file[n] \in Line /\ \A c \in 1..Len(file[n]) : file[n][c] # "spaced"
    BY DEF Unspaced
  <2>2. WordsOf(file[n]) = IF file[n] \in Blank THEN << >> ELSE <<file[n]>>
    BY <2>1, UnspacedWords
  <2>3. <<file[n]>> \in Seq(Line) /\ << >> \in Seq(Line)
    BY <2>1
  <2> QED
    BY <1>1, <2>2, <2>3
<1>4. ASSUME NEW m \in Nat, NEW w \in Seq(Line), m + 1 \in 1..N, <<w, m>> \in Good
      PROVE  <<w \o s[m + 1], m + 1>> \in Good
  <2>1. WordsOfLines(w \o s[m + 1], m + 1)
    BY <1>1, <1>4, OneMoreLine
  <2>2. w \o s[m + 1] \in Seq(Line) /\ m + 1 \in Nat
    BY <2>1 DEF WordsOfLines
  <2> QED
    BY <2>1, <2>2
<1> HIDE DEF N
<1>5. Good \subseteq Seq(Line) \X Nat
  OBVIOUS
<1> HIDE DEF Good
<1>6. <<FlattenSeq(s), N>> \in Good
  BY <1>1, <1>2, <1>3, <1>4, <1>5, FlattenInduction
<1> QED
  BY <1>6 DEF Good, s, N

\* A tick whose ticker has a space leaves its stub among the words of a file of ticks.
LEMMA SplitTickFile ==
  ASSUME file \in Seq(Line), Ticks, SplitTick,
         NEW u, u = FlattenSeq([n \in DOMAIN file |-> WordsOf(file[n])])
  PROVE  u \in Seq(Line) /\ \E k \in 1..Len(u) : u[k] = Stub
<1> DEFINE s == [n \in DOMAIN file |-> WordsOf(file[n])]
           N == Len(file)
           Has(w) == \E k \in 1..Len(w) : w[k] = Stub
           Good == {p \in Seq(Line) \X Nat :
                      (\E n \in 1..N : n <= p[2] /\ file[n][1] = "spaced") => Has(p[1])}
<1>1. /\ N \in Nat /\ Len(s) = N /\ \A n \in 1..N : s[n] = WordsOf(file[n])
      /\ N = 0 => s = << >>
  BY WordsOfFile
<1>2. << << >>, 0 >> \in Good
  <2> DEFINE p == << << >>, 0 >>
  <2> DEFINE e == << >>
             q == <<e, 0>>
  <2>4. e \in Seq(Line)
    OBVIOUS
  <2> HIDE DEF e
  <2>5. q \in Seq(Line) \X Nat /\ q[2] = 0
    BY <2>4
  <2>1. p \in Seq(Line) \X Nat /\ p[2] = 0
    BY <2>5 DEF e
  <2> HIDE DEF p
  <2>2. \A n \in 1..N : ~(n <= p[2])
    BY <1>1, <2>1
  <2> HIDE DEF N
  <2>3. p \in Good
    BY <2>1, <2>2
  <2> QED
    BY <2>3 DEF p
<1>3. Good \subseteq Seq(Line) \X Nat
  OBVIOUS
<1> HIDE DEF s
<1>4. ASSUME NEW n \in 1..N
      PROVE  /\ s[n] \in Seq(Line)
             /\ file[n][1] = "spaced" => 1 \in 1..Len(s[n]) /\ s[n][1] = Stub
  <2>1. file[n] \in Line /\ Tick(file[n])
    BY DEF Ticks
  <2> QED
    BY <1>1, <2>1, TickWords
<1>5. ASSUME NEW m \in Nat, NEW w \in Seq(Line), m + 1 \in 1..N, <<w, m>> \in Good
      PROVE  <<w \o s[m + 1], m + 1>> \in Good
  <2> DEFINE t == s[m + 1]
             v == w \o t
  <2>1. t \in Seq(Line) /\ (file[m + 1][1] = "spaced" => 1 \in 1..Len(t) /\ t[1] = Stub)
    BY <1>4, <1>5
  <2>2. (\E n \in 1..N : n <= m /\ file[n][1] = "spaced") => Has(w)
    BY <1>5
  <2> HIDE DEF t
  <2>3. /\ v \in Seq(Line) /\ Len(v) = Len(w) + Len(t)
        /\ \A k \in 1..Len(w) : v[k] = w[k]
        /\ \A k \in 1..Len(t) : v[Len(w) + k] = t[k]
        /\ Len(w) \in Nat /\ Len(t) \in Nat
    BY <2>1, ConcatProperties
  <2> HIDE DEF v
  <2>4. SUFFICES ASSUME NEW n \in 1..N, n <= m + 1, file[n][1] = "spaced"
                 PROVE  Has(v)
    <3> DEFINE p == <<v, m + 1>>
    <3>1. p \in Seq(Line) \X Nat /\ p[1] = v /\ p[2] = m + 1
      BY <2>3
    <3> HIDE DEF p, N
    <3>2. p \in Good
      BY <2>4, <3>1
    <3> QED
      BY <3>2 DEF p, t, v
  <2>5. CASE n <= m
    <3>1. PICK k \in 1..Len(w) : w[k] = Stub
      BY <2>2, <2>4, <2>5
    <3>2. k \in 1..Len(v) /\ v[k] = Stub
      BY <2>3, <3>1
    <3> QED
      BY <3>2
  <2>6. CASE n = m + 1
    <3>1. 1 \in 1..Len(t) /\ t[1] = Stub
      BY <2>1, <2>4, <2>6
    <3>2. Len(w) + 1 \in 1..Len(v) /\ v[Len(w) + 1] = Stub
      BY <2>3, <3>1
    <3> QED
      BY <3>2
  <2> QED
    BY <1>1, <2>4, <2>5, <2>6
<1>6. <<FlattenSeq(s), N>> \in Good
  <2> HIDE DEF N, Good
  <2> QED
    BY <1>1, <1>2, <1>3, <1>4, <1>5, FlattenInduction
<1>7. PICK n \in 1..N : file[n][1] = "spaced"
  BY <1>1 DEF SplitTick
<1>8. n <= N
  BY <1>1
<1> QED
  BY <1>6, <1>7, <1>8 DEF s

-----------------------------------------------------------------------------
(* The rows.                                                               *)

\* The tokens of a word are columns of it, all but perhaps the last.
LEMMA TokensOfWord ==
  ASSUME NEW w \in Line, w # << >>
  PROVE  /\ Tokens(w) \in Line
         /\ Len(Tokens(w)) <= Len(w)
         /\ \A n \in 1..Len(Tokens(w)) : Tokens(w)[n] = w[n]
<1>1. w \in Seq(Columns) /\ Len(w) \in Nat /\ Len(w) # 0
  BY DEF Line
<1>2. CASE w[Len(w)] = "empty"
  <2> DEFINE m == Len(w) - 1
             t == SubSeq(w, 1, m)
  <2>1. m \in 0..Len(w) /\ m <= Len(w)
    BY <1>1
  <2> HIDE DEF m
  <2>2. t \in Seq(Columns) /\ Len(t) = m /\ \A n \in 1..m : t[n] = w[n]
    BY <1>1, <2>1, SubSeqProperties
  <2>3. Tokens(w) = t
    BY <1>2 DEF Tokens, Last, m
  <2> HIDE DEF t
  <2> QED
    BY <1>1, <2>1, <2>2, <2>3 DEF Line, m
<1>3. CASE w[Len(w)] # "empty"
  BY <1>1, <1>3 DEF Tokens, Last
<1> QED
  BY <1>2, <1>3

\* A word that is not rejected has eight tokens, and what is printed of it begins with
\* them.
LEMMA PrintedOfWord ==
  ASSUME NEW w \in Line, w # << >>, BadFields(w) = {}
  PROVE  /\ Len(w) >= 8
         /\ Printed(w) \in Line
         /\ Len(Printed(w)) >= 8
         /\ \A n \in 1..8 : Printed(w)[n] = w[n]
<1> DEFINE t == Tokens(w)
<1>1. /\ t \in Seq(Columns) /\ Len(t) \in Nat /\ \A n \in 1..Len(t) : t[n] = w[n]
      /\ Len(w) \in Nat /\ Len(t) <= Len(w)
  BY TokensOfWord DEF Line
<1> HIDE DEF t
<1>2. ~Bad(t, 8)
  BY DEF BadFields, NumFields, t
<1>3. Len(t) >= 8
  BY <1>1, <1>2 DEF Bad
<1>4. SubSeq(t, 1, 8) \in Seq(Columns) /\ Len(SubSeq(t, 1, 8)) = 8
      /\ \A n \in 1..8 : SubSeq(t, 1, 8)[n] = t[n]
  BY <1>1, <1>3, SubSeqProperties
<1>5. CASE reader = "checkfile_read2"
  <2>1. Printed(w) = w
    BY <1>5 DEF Printed
  <2> QED
    BY <1>1, <1>3, <2>1
<1>6. CASE reader # "checkfile_read2"
  <2>1. Printed(w) = SubSeq(t, 1, 8)
    BY <1>6 DEF Printed, NumFields, t
  <2> QED
    BY <1>1, <1>3, <1>4, <2>1 DEF Line
<1> QED
  BY <1>5, <1>6

\* A tick is accepted, and printed as it is.
LEMMA TickIsPrinted ==
  ASSUME NEW l \in Line, Tick(l)
  PROVE  l \notin Blank /\ BadFields(l) = {} /\ Printed(l) = l
<1>1. Len(l) = 8 /\ DOMAIN l = 1..8 /\ l \in Seq(Columns)
  BY DEF Tick, NumFields, Line
<1>2. l # << >>
  BY <1>1
<1>3. l # <<"empty">>
  <2>1. Len(<<"empty">>) = 1
    OBVIOUS
  <2> QED
    BY <1>1, <2>1
<1>4. Tokens(l) = l
  <2>1. l[8] # "empty"
    BY <1>1 DEF Tick
  <2> QED
    BY <1>1, <2>1 DEF Tokens, Last
<1>5. BadFields(l) = {}
  <2>1. \A n \in 1..8 : ~Bad(l, n)
    BY <1>1 DEF Bad, Tick
  <2> QED
    BY <1>4, <2>1 DEF BadFields, NumFields
<1>6. Printed(l) = l
  <2>1. SubSeq(l, 1, 8) = l
    BY <1>1, SubSeqFull
  <2> QED
    BY <1>4, <1>5, <2>1 DEF Printed, NumFields
<1> QED
  BY <1>2, <1>3, <1>5, <1>6 DEF Blank

LEMMA TicksNotBlank ==
  ASSUME file \in Seq(Line), Ticks
  PROVE  NoneBlank
BY TickIsPrinted DEF Ticks, NoneBlank

LEMMA InitIInv == Init => IInv
<1> SUFFICES ASSUME Init PROVE IInv
  OBVIOUS
<1>1. file \in Seq(Line)
  <2>1. PICK n \in 0..MaxLines : file \in [1..n -> Lines]
    BY DEF Init
  <2>2. Lines \subseteq Line
    BY CheckedLinesAssumption DEF Line
  <2> QED
    BY <2>1, <2>2
<1>2. rows = << >> /\ pc = "reading"
  BY DEF Init
<1>7. StubAhead
  BY <1>1, <1>2, SplitTickFile DEF Init, StubAhead
<1> SUFFICES ASSUME Unspaced PROVE Typed /\ LineByLine /\ Accepted /\ ReadToEnd
  BY <1>1, <1>7 DEF IInv
<1>3. WordsOfLines(unread, Len(file))
  BY <1>1, UnspacedFile DEF Init
<1>4. Typed
  BY <1>1, <1>2, <1>3 DEF Typed, WordsOfLines
<1>5. LineByLine
  <2>1. Len(rows) = 0 /\ unread \in Seq(Line) /\ Len(unread) \in Nat /\ Len(file) \in Nat
    BY <1>1, <1>2, <1>3 DEF WordsOfLines
  <2>2. \A n \in 1..Len(unread) : Len(rows) + n = n
    BY <2>1
  <2> QED
    BY <1>3, <2>1, <2>2 DEF LineByLine, NoneMissing, WordsOfLines
<1>6. Accepted
  BY <1>2 DEF Accepted
<1> QED
  BY <1>2, <1>4, <1>5, <1>6 DEF ReadToEnd

\* A word printed is one of those unread no more, and of as many words as lines it is
\* the next line.
LEMMA PrintWordIInv ==
  ASSUME Unspaced, Typed, LineByLine, PrintWord
  PROVE  /\ Typed' /\ LineByLine'
         /\ NoneMissing' => /\ NoneMissing /\ Len(rows') = Len(rows) + 1
                            /\ Head(unread) = file[Len(rows) + 1]
<1> DEFINE w == unread[1]
           r == Len(rows)
           u == Len(unread)
<1>1. /\ rows \in Seq(Shown) /\ unread \in Seq(Line) /\ unread # << >>
      /\ w \in Line /\ Head(unread) = w
      /\ r \in Nat /\ u \in Nat /\ u >= 1 /\ Len(file) \in Nat
  BY DEF Typed, PrintWord
<1> HIDE DEF w, r, u
<1>2. /\ rows' = Append(rows, Printed(w)) /\ unread' = Tail(unread)
      /\ file' = file /\ reader' = reader
  BY <1>1 DEF PrintWord
<1>3. Printed(w) \in Shown
  BY <1>1 DEF Shown
<1>4. \A l : Printed(l)' = Printed(l)
  BY <1>2 DEF Printed
<1>5. Shown' = Shown
  BY <1>2 DEF Shown, Printed
<1>6. /\ rows' \in Seq(Shown) /\ Len(rows') = r + 1 /\ rows'[r + 1] = Printed(w)
      /\ \A n \in 1..r : rows'[n] = rows[n]
  BY <1>1, <1>2, <1>3, AppendProperties DEF r
<1>7. /\ unread' \in Seq(Line) /\ Len(unread') = u - 1
      /\ \A n \in 1 .. u - 1 : unread'[n] = unread[n + 1]
  BY <1>1, <1>2, HeadTailProperties DEF u
<1>8. \A n \in 1 .. u - 1 : n + 1 \in 1..u
  BY <1>1
<1>9. Typed'
  BY <1>2, <1>5, <1>6, <1>7, <1>8 DEF Typed, u
<1>10. Len(rows') + Len(unread') = r + u
  BY <1>1, <1>6, <1>7
<1>11. NoneMissing' <=> NoneMissing
  BY <1>2, <1>10 DEF NoneMissing, r, u
<1>12. ASSUME NoneMissing
       PROVE  /\ \A n \in 1..Len(unread') : unread'[n] = file[Len(rows') + n]
              /\ \A n \in 1..Len(rows') : rows'[n] = Printed(file[n])
              /\ w = file[r + 1]
  <2>1. \A n \in 1..u : unread[n] = file[r + n]
    BY <1>12 DEF LineByLine, r, u
  <2>2. \A n \in 1 .. u - 1 : r + (n + 1) = (r + 1) + n
    BY <1>1
  <2>3. \A n \in 1..Len(unread') : unread'[n] = file[Len(rows') + n]
    BY <1>6, <1>7, <1>8, <2>1, <2>2
  <2>4. w = file[r + 1]
    BY <1>1, <2>1 DEF w
  <2>5. \A n \in 1 .. r + 1 : n \in 1..r \/ n = r + 1
    BY <1>1
  <2>6. \A n \in 1..r : rows[n] = Printed(file[n])
    BY <1>12 DEF LineByLine, r
  <2> QED
    BY <1>6, <2>3, <2>4, <2>5, <2>6
<1>13. LineByLine'
  <2>1. Len(rows') + Len(unread') <= Len(file')
    BY <1>2, <1>10 DEF LineByLine, r, u
  <2>2. NoneBlank' => NoneMissing'
    BY <1>2, <1>11 DEF LineByLine, NoneBlank
  <2> QED
    BY <1>2, <1>4, <1>11, <1>12, <2>1, <2>2 DEF LineByLine
<1> QED
  BY <1>1, <1>6, <1>9, <1>11, <1>12, <1>13 DEF r

\* The next word of a file of ticks is a tick.
LEMMA TicksNotRejected ==
  ASSUME Typed, LineByLine, Ticks, unread # << >>
  PROVE  BadFields(Head(unread)) = {}
<1>1. NoneBlank
  BY TicksNotBlank DEF Typed
<1>2. /\ unread \in Seq(Line) /\ Head(unread) = unread[1] /\ 1 \in 1..Len(unread)
      /\ Len(rows) \in Nat /\ Len(file) \in Nat /\ Len(unread) \in Nat
  BY DEF Typed
<1>3. Head(unread) = file[Len(rows) + 1] /\ Len(rows) + Len(unread) = Len(file)
  BY <1>1, <1>2 DEF LineByLine, NoneMissing
<1>4. Len(rows) + 1 \in DOMAIN file /\ file[Len(rows) + 1] \in Line
  BY <1>2, <1>3 DEF Typed
<1> QED
  BY <1>3, <1>4, TickIsPrinted DEF Ticks

\* No word is taken for a tick that is the stub of one.
LEMMA StubRejected == Stub \in Line /\ Stub # << >> /\ BadFields(Stub) # {}
<1>1. Stub \in Line /\ Len(Stub) = 1 /\ Stub # << >>
  BY DEF Stub, Line, Columns
<1>2. Len(Tokens(Stub)) <= 1 /\ Len(Tokens(Stub)) \in Nat
  BY <1>1, TokensOfWord DEF Line
<1>3. 2 \in BadFields(Stub)
  BY <1>2 DEF BadFields, Bad, NumFields
<1> QED
  BY <1>1, <1>3

LEMMA NextStubAhead ==
  ASSUME StubAhead, [Next]_vars
  PROVE  StubAhead'
<1>1. file' = file
  BY DEF Next, CheckWord, RejectWord, PrintWord, EndOfFile, Finished, vars
<1>2. SUFFICES ASSUME Ticks, SplitTick
               PROVE  /\ unread' \in Seq(Line)
                      /\ \/ pc' \in {"returned", "undefined", "aborted"}
                         \/ pc' = "reading" /\ \E k \in 1..Len(unread') : unread'[k] = Stub
  BY <1>1 DEF StubAhead, Ticks, SplitTick
<1>3. /\ unread \in Seq(Line)
      /\ \/ pc \in {"returned", "undefined", "aborted"}
         \/ pc = "reading" /\ \E k \in 1..Len(unread) : unread[k] = Stub
  BY <1>2 DEF StubAhead
<1>4. CASE CheckWord
  <2>1. /\ pc = "reading" /\ pc' = pc /\ unread # << >> /\ unread' = Tail(unread)
        /\ BadFields(Head(unread)) = {}
    BY <1>4 DEF CheckWord, PrintWord
  <2>2. PICK k \in 1..Len(unread) : unread[k] = Stub
    BY <1>3, <2>1
  <2>3. k # 1
    BY <1>3, <2>1, <2>2, StubRejected
  <2>4. /\ unread' \in Seq(Line) /\ Len(unread') = Len(unread) - 1
        /\ \A n \in 1 .. Len(unread) - 1 : unread'[n] = unread[n + 1]
    BY <1>3, <2>1, HeadTailProperties
  <2>5. k - 1 \in 1 .. Len(unread) - 1 /\ (k - 1) + 1 = k
    BY <1>3, <2>2, <2>3
  <2>6. k - 1 \in 1..Len(unread') /\ unread'[k - 1] = Stub
    BY <2>2, <2>4, <2>5
  <2> QED
    BY <2>1, <2>4, <2>6
<1>5. CASE RejectWord
  <2>1. pc' \in {"returned", "undefined", "aborted"} /\ unread # << >> /\ unread' = Tail(unread)
    BY <1>5 DEF RejectWord, PrintWord
  <2> QED
    BY <1>3, <2>1, HeadTailProperties
<1>6. CASE EndOfFile
  BY <1>3, <1>6 DEF EndOfFile
<1>7. CASE UNCHANGED vars
  BY <1>3, <1>7 DEF vars
<1> QED
  BY <1>4, <1>5, <1>6, <1>7 DEF Next, Finished

LEMMA NextIInv ==
  ASSUME IInv, [Next]_vars
  PROVE  IInv'
<1>1. file' = file
  BY DEF Next, CheckWord, RejectWord, PrintWord, EndOfFile, Finished, vars
<1>2. SUFFICES ASSUME Unspaced PROVE Typed' /\ LineByLine' /\ Accepted' /\ ReadToEnd'
  <2>1. Unspaced' => Unspaced
    BY <1>1 DEF Unspaced
  <2>2. StubAhead'
    BY NextStubAhead DEF IInv
  <2> QED
    BY <1>1, <2>1, <2>2 DEF IInv
<1>3. Typed /\ LineByLine /\ Accepted /\ ReadToEnd
  BY <1>2 DEF IInv
<1>4. CASE CheckWord
  <2>1. PrintWord /\ BadFields(Head(unread)) = {} /\ pc = "reading" /\ pc' = pc
    BY <1>4 DEF CheckWord, PrintWord
  <2>2. /\ Typed' /\ LineByLine'
        /\ NoneMissing' => /\ NoneMissing /\ Len(rows') = Len(rows) + 1
                           /\ Head(unread) = file[Len(rows) + 1]
    BY <1>2, <1>3, <2>1, PrintWordIInv
  <2>3. Accepted'
    <3>1. SUFFICES ASSUME NoneMissing', NEW n \in 1..Len(rows')
                   PROVE  BadFields(file[n]) = {}
      BY <1>1 DEF Accepted
    <3>2. Len(rows) \in Nat /\ (n \in 1..Len(rows) \/ n = Len(rows) + 1)
      BY <1>3, <2>2, <3>1 DEF Typed
    <3> QED
      BY <1>3, <2>1, <2>2, <3>1, <3>2 DEF Accepted
  <2>4. ReadToEnd'
    BY <1>1, <2>1 DEF ReadToEnd, Ticks
  <2> QED
    BY <2>2, <2>3, <2>4
<1>5. CASE RejectWord
  <2>1. PrintWord /\ pc' \in {"returned", "undefined", "aborted"}
    BY <1>5 DEF RejectWord
  <2>2. Typed' /\ LineByLine'
    BY <1>2, <1>3, <2>1, PrintWordIInv
  <2>3. ~Ticks
    BY <1>3, <1>5, TicksNotRejected DEF RejectWord, PrintWord
  <2>4. Accepted' /\ ReadToEnd'
    BY <1>1, <2>1, <2>3 DEF Accepted, ReadToEnd, Ticks
  <2> QED
    BY <2>2, <2>4
<1>6. CASE EndOfFile
  <2>1. UNCHANGED <<reader, file, rows, unread>> /\ pc = "reading" /\ pc' = "done" /\ unread = << >>
    BY <1>6 DEF EndOfFile
  <2>2. Typed' /\ LineByLine'
    BY <1>3, <2>1 DEF Typed, Shown, LineByLine, NoneMissing, NoneBlank, Printed
  <2>3. Accepted' /\ ReadToEnd'
    BY <1>3, <2>1 DEF Accepted, NoneMissing, ReadToEnd, Ticks
  <2> QED
    BY <2>2, <2>3
<1>7. CASE UNCHANGED vars
  <2>1. UNCHANGED <<reader, file, rows, unread, pc>>
    BY <1>7 DEF vars
  <2>2. Typed' /\ LineByLine'
    BY <1>3, <2>1 DEF Typed, Shown, LineByLine, NoneMissing, NoneBlank, Printed
  <2>3. Accepted' /\ ReadToEnd'
    BY <1>3, <2>1 DEF Accepted, NoneMissing, ReadToEnd, Ticks
  <2> QED
    BY <2>2, <2>3
<1> QED
  BY <1>4, <1>5, <1>6, <1>7 DEF Next, Finished

\* The invariant of reading: of a file without spaces, one word of each line at most
\* is read, and if it is one of each, the words are the lines.
THEOREM InvHolds == Spec => []IInv
<1>1. Init => IInv
  BY InitIInv
<1>2. IInv /\ [Next]_vars => IInv'
  BY NextIInv
<1> QED
  BY <1>1, <1>2, PTL DEF Spec

\* A file of ticks whose tickers have no spaces is read to its end, each of its lines
\* printed as its own row, and one with a tick whose ticker has a space never is.
THEOREM EveryTickChecked == Spec => []ChecksEveryTick
<1>1. ASSUME IInv PROVE ChecksEveryTick
  <2>0. ASSUME Ticks, SplitTick PROVE pc # "done"
    BY <1>1, <2>0 DEF IInv, StubAhead
  <2>1. SUFFICES ASSUME Ticks, \A n \in DOMAIN file : file[n][1] # "spaced"
                 PROVE  /\ pc \in {"reading", "done"}
                        /\ IsPrefix(rows, file)
                        /\ pc = "done" => rows = file
    BY <2>0 DEF ChecksEveryTick, SplitTick
  <2>2. \A n \in 1..Len(file) : file[n] \in Line /\ Tick(file[n])
    BY <1>1, <2>1 DEF IInv, Ticks
  <2>3. Unspaced
    <3>1. SUFFICES ASSUME NEW n \in 1..Len(file), NEW c \in 1..Len(file[n])
                   PROVE  file[n][c] # "spaced"
      BY DEF Unspaced
    <3>2. c \in DOMAIN file[n] /\ Tick(file[n])
      BY <2>2 DEF Line
    <3>3. file[n][1] # "spaced"
      BY <1>1, <2>1 DEF IInv
    <3> QED
      BY <3>2, <3>3 DEF Tick
  <2>4. Typed /\ LineByLine /\ Accepted /\ ReadToEnd
    BY <1>1, <2>3 DEF IInv
  <2>5. Len(rows) + Len(unread) = Len(file)
    BY <2>1, <2>4, TicksNotBlank DEF Typed, LineByLine, NoneMissing
  <2>6. /\ rows \in Seq(Shown) /\ file \in Seq(Line) /\ unread \in Seq(Line)
        /\ Len(rows) <= Len(file)
    BY <2>4, <2>5 DEF Typed
  <2>7. rows \in Seq(Line) /\ \A n \in 1..Len(rows) : rows[n] = file[n]
    <3>1. \A n \in 1..Len(rows) : n \in 1..Len(file)
      BY <2>6
    <3>2. \A n \in 1..Len(rows) : rows[n] = file[n] /\ rows[n] \in Line
      BY <2>2, <2>4, <2>5, <3>1, TickIsPrinted DEF LineByLine, NoneMissing
    <3> QED
      BY <2>6, <3>2
  <2>8. SubSeq(rows, 1, Len(rows)) = SubSeq(file, 1, Len(rows))
    <3> DEFINE t == SubSeq(file, 1, Len(rows))
    <3>1. t \in Seq(Line) /\ Len(t) = Len(rows) /\ \A n \in 1..Len(rows) : t[n] = file[n]
      BY <2>6, SubSeqProperties
    <3> HIDE DEF t
    <3>2. t = rows
      BY <2>6, <2>7, <3>1, SeqEqual
    <3> QED
      BY <2>6, <3>2, SubSeqFull DEF t
  <2>9. pc = "done" => rows = file
    <3>1. SUFFICES ASSUME pc = "done" PROVE rows = file
      OBVIOUS
    <3>2. Len(unread) = 0
      BY <2>4, <3>1 DEF ReadToEnd
    <3>3. Len(rows) = Len(file)
      BY <2>5, <2>6, <3>2
    <3> QED
      BY <2>6, <2>7, <3>3, SeqEqual
  <2> QED
    BY <2>1, <2>4, <2>6, <2>7, <2>8, <2>9 DEF ReadToEnd, IsPrefix
<1> QED
  BY <1>1, InvHolds, PTL

-----------------------------------------------------------------------------
(* What DataParser makes of a line.                                        *)

\* The columns of a line, with their positions.
ColumnsOf(l) == [n \in DOMAIN l |-> [at |-> n, kind |-> l[n]]]

\* Behind the first n columns, the next token is the column that follows if it is
\* not empty.
LEMMA NextColumnIsToken ==
  ASSUME NEW l \in Line, NEW n \in 0..7, Len(l) >= 8, l[n + 1] # "empty",
         NEW taken, taken \in Seq([at : Nat, kind : Columns]), Len(taken) = n,
         \A k \in 1..n : taken[k] = ColumnsOf(l)[k]
  PROVE  /\ ~Parser(ColumnsOf(l), taken)!Missing
         /\ Parser(ColumnsOf(l), taken)!token = ColumnsOf(l)[n + 1]
<1> DEFINE c == ColumnsOf(l)
           U == Parser(c, taken)!Unread
<1>1. Len(l) \in Nat /\ DOMAIN l = 1..Len(l)
  BY DEF Line
<1>2. DOMAIN c = 1..Len(l) /\ \A k \in 1..Len(l) : c[k].at = k /\ c[k].kind = l[k]
  BY <1>1 DEF ColumnsOf
<1>3. Parser(c, taken)!position = n
  <2>1. CASE n = 0
    <3>1. taken = << >>
      BY <2>1
    <3> QED
      BY <2>1, <3>1 DEF Parser!position
  <2>2. CASE n # 0
    <3>1. taken # << >> /\ n \in 1..n /\ n \in 1..Len(l)
      BY <1>1, <2>2
    <3>2. taken[n].at = n
      BY <1>2, <3>1
    <3> QED
      BY <3>1, <3>2 DEF Parser!position
  <2> QED
    BY <2>1, <2>2
<1>4. U = {m \in DOMAIN c : m > n /\ c[m].kind # "empty"}
  BY <1>3 DEF Parser!Unread
<1>5. Parser(c, taken)!Missing <=> U = {}
  BY DEF Parser!Missing
<1>6. Parser(c, taken)!token = c[CHOOSE m \in U : \A j \in U : m <= j]
  BY DEF Parser!token
<1> HIDE DEF c, U
<1>7. n + 1 \in U /\ \A j \in U : j \in Nat /\ n + 1 <= j
  BY <1>1, <1>2, <1>4
<1>8. (CHOOSE m \in U : \A j \in U : m <= j) = n + 1
  BY <1>7
<1> QED
  BY <1>5, <1>6, <1>7, <1>8 DEF c

\* f has the fields taken of l, for each number of calls of strtok.
Takes(f, l) ==
  f = [n \in 0..NumFields |->
         IF n = 0 THEN << >>
         ELSE IF Parser(ColumnsOf(l), f[n - 1])!Missing THEN f[n - 1]
         ELSE Append(f[n - 1], Parser(ColumnsOf(l), f[n - 1])!token)]

\* The columns before and with the first n.
FirstColumns(l, n) == SubSeq(ColumnsOf(l), 1, n)

\* The fields taken of a line with none of its first eight columns empty are these
\* columns: one call takes one more.
LEMMA OneMoreColumn ==
  ASSUME NEW l \in Line, NEW n \in 0..7, Len(l) >= 8, \A k \in 1..8 : l[k] # "empty"
  PROVE  /\ ~Parser(ColumnsOf(l), FirstColumns(l, n))!Missing
         /\ Append(FirstColumns(l, n), Parser(ColumnsOf(l), FirstColumns(l, n))!token)
              = FirstColumns(l, n + 1)
<1> DEFINE C == [at : Nat, kind : Columns]
           c == ColumnsOf(l)
           t == FirstColumns(l, n)
           u == FirstColumns(l, n + 1)
<1>1. l \in Seq(Columns) /\ Len(l) \in Nat /\ n \in Nat /\ n + 1 \in 1..8 /\ n + 1 <= Len(l)
      /\ n <= Len(l)
  BY DEF Line
<1>2. c \in Seq(C) /\ Len(c) = Len(l)
  <2> DEFINE col(k) == [at |-> k, kind |-> l[k]]
  <2>1. \A k \in 1..Len(l) : col(k) \in C
    BY <1>1
  <2>2. c = [k \in 1..Len(l) |-> col(k)]
    BY <1>1 DEF ColumnsOf
  <2> HIDE DEF c, col, C
  <2> QED
    BY <1>1, <2>1, <2>2
<1> HIDE DEF c, C
<1>3. t \in Seq(C) /\ Len(t) = n /\ \A k \in 1..n : t[k] = c[k]
  BY <1>1, <1>2, SubSeqProperties DEF FirstColumns, c
<1>4. u \in Seq(C) /\ Len(u) = n + 1 /\ \A k \in 1 .. n + 1 : u[k] = c[k]
  <2> DEFINE m == n + 1
  <2>1. m \in 0..Len(c) /\ m <= Len(c)
    BY <1>1, <1>2
  <2> HIDE DEF m
  <2>2. SubSeq(c, 1, m) \in Seq(C) /\ Len(SubSeq(c, 1, m)) = m
        /\ \A k \in 1..m : SubSeq(c, 1, m)[k] = c[k]
    BY <1>2, <2>1, SubSeqProperties
  <2> QED
    BY <2>2 DEF FirstColumns, c, m
<1> HIDE DEF t, u
<1>5. ~Parser(c, t)!Missing /\ Parser(c, t)!token = c[n + 1]
  BY <1>1, <1>3, NextColumnIsToken DEF c, C
<1>6. c[n + 1] \in C
  BY <1>1, <1>2
<1>7. Append(t, c[n + 1]) \in Seq(C) /\ Len(Append(t, c[n + 1])) = n + 1
      /\ \A k \in 1 .. n + 1 : Append(t, c[n + 1])[k] = c[k]
  BY <1>1, <1>3, <1>6, AppendProperties
<1>8. Append(t, c[n + 1]) = u
  BY <1>1, <1>4, <1>7, SeqEqual
<1> QED
  BY <1>5, <1>8 DEF c, t, u

\* There is such a function, and it takes these columns.
LEMMA ColumnsTaken ==
  ASSUME NEW l \in Line, Len(l) >= 8, \A k \in 1..8 : l[k] # "empty"
  PROVE  (CHOOSE f : Takes(f, l))[NumFields] = FirstColumns(l, NumFields)
<1> DEFINE c == ColumnsOf(l)
           F(n) == FirstColumns(l, n)
           after(b) == IF Parser(c, b)!Missing THEN b ELSE Append(b, Parser(c, b)!token)
           g == [n \in 0..8 |-> F(n)]
           step(n) == IF n = 0 THEN << >> ELSE after(g[n - 1])
<1>1. \A n \in 0..7 : after(F(n)) = F(n + 1)
  BY OneMoreColumn
<1>2. F(0) = << >>
  BY SubSeqEmpty DEF FirstColumns
<1> HIDE DEF F, after
<1>3. ASSUME NEW n \in 0..8 PROVE g[n] = step(n)
  <2>1. CASE n = 0
    BY <1>2, <2>1
  <2>2. CASE n # 0
    <3>1. n - 1 \in 0..7 /\ (n - 1) + 1 = n /\ n - 1 \in 0..8
      BY <2>2
    <3>2. g[n - 1] = F(n - 1)
      BY <3>1
    <3> QED
      BY <1>1, <2>2, <3>1, <3>2
  <2> QED
    BY <2>1, <2>2
<1>4. g = [n \in 0..8 |-> g[n]]
  OBVIOUS
<1> HIDE DEF g
<1>5. g = [n \in 0..8 |-> step(n)]
  BY <1>3, <1>4
<1>6. Takes(g, l)
  BY <1>5 DEF Takes, NumFields, after
<1> DEFINE f == CHOOSE h : Takes(h, l)
<1>7. Takes(f, l)
  BY <1>6
<1> HIDE DEF f
<1>8. f[0] = << >> /\ \A n \in 1..8 : f[n] = after(f[n - 1])
  <2>1. f = [n \in 0..8 |-> IF n = 0 THEN << >> ELSE after(f[n - 1])]
    BY <1>7 DEF Takes, NumFields, after
  <2>2. \A n \in 0..8 : f[n] = IF n = 0 THEN << >> ELSE after(f[n - 1])
    BY <2>1, Zenon
  <2>3. 0 \in 0..8 /\ \A n \in 1..8 : n \in 0..8 /\ n # 0
    OBVIOUS
  <2> QED
    BY <2>2, <2>3, Zenon
<1> DEFINE T == {n \in Nat : n \in 0..8 => f[n] = F(n)}
<1>9. 0 \in T
  BY <1>2, <1>8
<1>10. ASSUME NEW n \in Nat, n \in T PROVE n + 1 \in T
  <2>1. SUFFICES ASSUME n + 1 \in 0..8 PROVE f[n + 1] = F(n + 1)
    OBVIOUS
  <2>2. n \in 0..7 /\ n \in 0..8 /\ n + 1 \in 1..8 /\ (n + 1) - 1 = n
    BY <2>1
  <2>3. f[n] = F(n)
    BY <1>10, <2>2
  <2>4. f[n + 1] = after(f[n])
    BY <1>8, <2>2
  <2> QED
    BY <1>1, <2>2, <2>3, <2>4
<1> HIDE DEF T
<1>11. 8 \in T
  BY <1>9, <1>10, SetInduction
<1> QED
  BY <1>11 DEF T, NumFields, f, F

\* DataParser takes the fields that the checker prints.
LEMMA ParsedInPlace ==
  ASSUME NEW l \in Line, Len(l) >= 8, \A k \in 1..8 : l[k] # "empty",
         NEW r \in Line, Len(r) = 8, \A k \in 1..8 : r[k] = l[k]
  PROVE  ParsedFields(l) = r
<1> DEFINE f == CHOOSE h : Takes(h, l)
           c == ColumnsOf(l)
           t == FirstColumns(l, 8)
<1>1. ParsedFields(l) = [k \in DOMAIN f[NumFields] |-> f[NumFields][k].kind]
  BY Zenon DEF ParsedFields, Takes, ColumnsOf
<1>2. f[NumFields] = t
  BY ColumnsTaken DEF NumFields
<1> HIDE DEF f
<1>3. Len(l) \in Nat /\ DOMAIN l = 1..Len(l) /\ l \in Seq(Columns)
  BY DEF Line
<1>4. DOMAIN t = 1..8 /\ \A k \in 1..8 : t[k] = [at |-> k, kind |-> l[k]]
  <2> DEFINE C == [at : Nat, kind : Columns]
             col(k) == [at |-> k, kind |-> l[k]]
  <2>1. \A k \in 1..Len(l) : col(k) \in C
    BY <1>3
  <2>2. c = [k \in 1..Len(l) |-> col(k)]
    BY <1>3 DEF ColumnsOf
  <2> HIDE DEF c, col, C
  <2>3. c \in Seq(C) /\ Len(c) = Len(l) /\ \A k \in 1..8 : c[k] = col(k)
    BY <1>3, <2>1, <2>2
  <2>4. SubSeq(c, 1, 8) \in Seq(C) /\ Len(SubSeq(c, 1, 8)) = 8
        /\ \A k \in 1..8 : SubSeq(c, 1, 8)[k] = c[k]
    BY <1>3, <2>3, SubSeqProperties
  <2> QED
    BY <2>3, <2>4 DEF FirstColumns, c, col
<1> HIDE DEF t
<1>5. ParsedFields(l) = [k \in 1..8 |-> l[k]]
  BY <1>1, <1>2, <1>4
<1>6. r = [k \in 1..8 |-> l[k]]
  BY DEF Line
<1> QED
  BY <1>5, <1>6

\* Of a file without spaces that the checker gets to the end of, one word to a line and
\* no field empty, the first eight columns printed of each line, by checkfile_read1 as
\* its fields or by checkfile_read2 in the whole word, are those GetMarketData takes.
THEOREM CheckerAgrees == Spec => []AgreesWithParser
<1>1. ASSUME IInv PROVE AgreesWithParser
  <2>1. SUFFICES ASSUME pc = "done",
                        \A n \in DOMAIN file : file[n] # << >> /\ NoSpaces(file[n]),
                        Len(rows) = Len(file),
                        \A n \in DOMAIN rows : \A c \in 1..NumFields : rows[n][c] # "empty",
                        NEW n \in DOMAIN rows
                 PROVE  SubSeq(rows[n], 1, NumFields) = ParsedFields(file[n])
    BY DEF AgreesWithParser
  <2>2. file \in Seq(Line) /\ \A k \in 1..Len(file) : DOMAIN file[k] = 1..Len(file[k])
    BY <1>1 DEF IInv, Line
  <2>3. Unspaced
    BY <2>1, <2>2 DEF Unspaced, NoSpaces
  <2>4. Typed /\ LineByLine /\ Accepted /\ ReadToEnd
    BY <1>1, <2>3 DEF IInv
  <2>5. Len(unread) = 0 /\ rows \in Seq(Shown) /\ Len(rows) \in Nat
    BY <2>1, <2>4 DEF Typed, ReadToEnd
  <2>6. NoneMissing
    BY <2>1, <2>5 DEF NoneMissing
  <2>7. n \in 1..Len(rows) /\ n \in 1..Len(file) /\ file[n] \in Line /\ file[n] # << >>
    BY <2>1, <2>2, <2>5
  <2>8. BadFields(file[n]) = {} /\ rows[n] = Printed(file[n])
    BY <2>1, <2>4, <2>6, <2>7 DEF LineByLine, Accepted
  <2>9. /\ Len(file[n]) >= 8 /\ rows[n] \in Seq(Columns) /\ Len(rows[n]) >= 8
        /\ \A c \in 1..8 : rows[n][c] = file[n][c]
    BY <2>7, <2>8, PrintedOfWord DEF Line
  <2> DEFINE r == SubSeq(rows[n], 1, 8)
  <2>10. r \in Seq(Columns) /\ Len(r) = 8 /\ \A c \in 1..8 : r[c] = rows[n][c]
    <3>1. 8 \in 0..Len(rows[n])
      BY <2>9
    <3> QED
      BY <2>9, <3>1, SubSeqProperties
  <2>11. \A c \in 1..8 : file[n][c] # "empty"
    BY <2>1, <2>9 DEF NumFields
  <2> DEFINE l == file[n]
  <2> HIDE DEF r
  <2>12. ParsedFields(l) = r
    <3>1. r \in Line
      BY <2>10 DEF Line
    <3>2. l \in Line /\ Len(l) >= 8 /\ \A c \in 1..8 : l[c] # "empty" /\ r[c] = l[c]
      BY <2>7, <2>9, <2>10, <2>11
    <3> HIDE DEF l
    <3> QED
      BY <2>10, <3>1, <3>2, ParsedInPlace
  <2> QED
    BY <2>12 DEF r, NumFields
<1> QED
  BY <1>1, InvHolds, PTL

=============================================================================
