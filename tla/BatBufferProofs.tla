-------------------------- MODULE BatBufferProofs --------------------------
(***************************************************************************)
(* Proofs about packing ticks, saving them and unpacking them, for every    *)
(* width of the word and of the fields, every number of ticks and every    *)
(* set of ticks whose values fit their fields (TicksFit).  The argument:    *)
(* the file, the packet and the buffer hold the bits of the records one    *)
(* after another; what is unread always begins with the next field of the  *)
(* next tick; and what Read has after the last record is less than a word  *)
(* of zeros, shorter than any record.                                      *)
(*                                                                         *)
(* The bits of many records, and the powers of 2, are recursive functions:  *)
(* what they are follows by induction from the fact that every non-empty    *)
(* set of numbers has a smallest one.                                      *)
(*                                                                         *)
(* And about strings packed and read back (StringField), for every set of  *)
(* ASCII strings, every padding and every number of strings.  The argument: *)
(* the stream holds the characters of all strings, each behind its padding; *)
(* what is unread begins with the next character of the next string; and   *)
(* what ReadString has of a string are the characters before that one, the *)
(* last of them first.                                                     *)
(***************************************************************************)
EXTENDS StringField, FiniteSetTheorems, SequenceTheorems, WellFoundedInduction, TLAPS

\* The lemmas about the bit buffer and about the symbol table.
Packed == INSTANCE BitBufferProofs WITH Widths <- 1..BUFFER_CAPACITY, MaxWords <- 0

Numbers == INSTANCE TableFileProofs WITH
  Symbols <- Tickers, INDEX_RANGE <- Power[INDEX_BITS],
  codes <- {}, table_file <- << >>, saved <- FALSE, unread <- << >>

-----------------------------------------------------------------------------
(* Induction over a set of numbers, and what it shows of recursive functions. *)

\* A set that has 0, and the successor of every number it has, has all numbers.
LEMMA SetInduction ==
  ASSUME NEW T, 0 \in T, \A n \in Nat : n \in T => n + 1 \in T
  PROVE  \A n \in Nat : n \in T
<1> DEFINE R == OpToRel(<, Nat)
           S == Nat \ T
<1>1. \A x, y \in Nat : x < y => <<x, y>> \in R
  BY DEF OpToRel
<1>2. IsWellFoundedOn(R, Nat)
  BY NatLessThanWellFounded
<1> HIDE DEF R
<1>3. SUFFICES ASSUME S # {} PROVE FALSE
  OBVIOUS
<1>4. PICK x \in S : \A y \in S : ~(<<y, x>> \in R)
  <2>1. S \subseteq Nat
    OBVIOUS
  <2> HIDE DEF S
  <2> QED
    BY <1>2, <1>3, <2>1, WFMin
<1>5. x \in Nat /\ x \notin T /\ x # 0
  OBVIOUS
<1>6. x - 1 \in Nat /\ x - 1 < x /\ (x - 1) + 1 = x
  BY <1>5
<1>7. x - 1 \in S
  BY <1>5, <1>6
<1> QED
  BY <1>1, <1>4, <1>5, <1>6, <1>7

Bit == BOOLEAN
BitSeqs == Seq(Seq(Bit))

\* f has the concatenations of the sequences of s up to each.
Concats(f, s) ==
  f = [i \in 1..Len(s) |-> IF i = 1 THEN s[i] ELSE f[i - 1] \o s[i]]

\* There are such concatenations of every sequence of sequences.
LEMMA ConcatsExist ==
  \A s \in BitSeqs : \E f : Concats(f, s)
<1> DEFINE T == {n \in Nat : \A s \in BitSeqs : Len(s) = n => \E f : Concats(f, s)}
<1>1. 0 \in T
  <2>1. SUFFICES ASSUME NEW s \in BitSeqs, Len(s) = 0 PROVE \E f : Concats(f, s)
    OBVIOUS
  <2>2. Concats(<< >>, s)
    BY <2>1 DEF Concats
  <2> QED
    BY <2>2
<1>2. ASSUME NEW n \in Nat, n \in T PROVE n + 1 \in T
  <2>1. SUFFICES ASSUME NEW s \in BitSeqs, Len(s) = n + 1 PROVE \E f : Concats(f, s)
    OBVIOUS
  <2> DEFINE s0 == [i \in 1..n |-> s[i]]
  <2>2. s0 \in BitSeqs /\ Len(s0) = n /\ \A i \in 1..n : s0[i] = s[i]
    BY <2>1 DEF BitSeqs
  <2> HIDE DEF s0
  <2>3. PICK f0 : Concats(f0, s0)
    BY <1>2, <2>2
  <2> DEFINE f == [i \in 1 .. n + 1 |-> IF i = n + 1
                                        THEN IF n = 0 THEN s[1] ELSE f0[n] \o s[n + 1]
                                        ELSE f0[i]]
             c == [i \in 1 .. n + 1 |-> IF i = 1 THEN s[i] ELSE f[i - 1] \o s[i]]
  <2>4. \A i \in 1..n : f0[i] = IF i = 1 THEN s[i] ELSE f0[i - 1] \o s[i]
    BY <2>2, <2>3 DEF Concats
  <2>5. \A i \in 1..n : f[i] = f0[i] /\ i # n + 1
    OBVIOUS
  <2>6. f[n + 1] = IF n = 0 THEN s[1] ELSE f0[n] \o s[n + 1]
    OBVIOUS
  <2>7. f = [i \in 1 .. n + 1 |-> f[i]]
    OBVIOUS
  <2> HIDE DEF f
  <2>8. ASSUME NEW i \in 1 .. n + 1
        PROVE  f[i] = IF i = 1 THEN s[i] ELSE f[i - 1] \o s[i]
    <3>1. CASE i \in 1..n
      <4>1. i # 1 => i - 1 \in 1..n
        BY <3>1
      <4> QED
        BY <2>4, <2>5, <3>1, <4>1
    <3>2. CASE i = n + 1
      <4>1. n # 0 => n \in 1..n /\ i - 1 = n /\ i # 1
        BY <3>2
      <4> QED
        BY <2>5, <2>6, <3>2, <4>1
    <3> QED
      BY <3>1, <3>2
  <2>9. f = c
    BY <2>7, <2>8
  <2>10. Concats(f, s)
    BY <2>1, <2>9 DEF Concats
  <2> QED
    BY <2>10
<1> HIDE DEF T
<1>3. \A n \in Nat : n \in T
  BY <1>1, <1>2, SetInduction
<1> QED
  BY <1>3 DEF T, BitSeqs

\* And only one.
LEMMA ConcatsUnique ==
  ASSUME NEW s \in BitSeqs, NEW f, NEW g, Concats(f, s), Concats(g, s)
  PROVE  \A i \in 1..Len(s) : f[i] = g[i]
<1> DEFINE T == {n \in Nat : n \in 1..Len(s) => f[n] = g[n]}
<1>1. 0 \in T
  OBVIOUS
<1>2. /\ \A i \in 1..Len(s) : f[i] = IF i = 1 THEN s[i] ELSE f[i - 1] \o s[i]
      /\ \A i \in 1..Len(s) : g[i] = IF i = 1 THEN s[i] ELSE g[i - 1] \o s[i]
  BY DEF Concats
<1>3. Len(s) \in Nat
  BY DEF BitSeqs
<1>4. ASSUME NEW n \in Nat, n \in T PROVE n + 1 \in T
  <2>1. SUFFICES ASSUME n + 1 \in 1..Len(s) PROVE f[n + 1] = g[n + 1]
    OBVIOUS
  <2>2. n + 1 # 1 => f[n] = g[n]
    BY <1>3, <1>4, <2>1
  <2> QED
    BY <1>2, <2>1, <2>2
<1> HIDE DEF T
<1>5. \A n \in Nat : n \in T
  BY <1>1, <1>4, SetInduction
<1> QED
  BY <1>3, <1>5 DEF T

\* FlattenSeq gives the last of them.
LEMMA Flattened ==
  ASSUME NEW s \in BitSeqs, s # << >>
  PROVE  \E f : Concats(f, s) /\ FlattenSeq(s) = f[Len(s)]
<1> DEFINE f == CHOOSE h : Concats(h, s)
<1>1. Concats(f, s)
  BY ConcatsExist
<1>2. Len(s) # 0
  BY DEF BitSeqs
<1>3. FlattenSeq(s) = f[Len(s)]
  BY <1>2, Zenon DEF FlattenSeq, Concats
<1> QED
  BY <1>1, <1>3

\* Nothing flattened is nothing.
LEMMA FlattenEmpty == FlattenSeq(<< >>) = << >>
BY DEF FlattenSeq

\* A sequence more puts its elements behind those of the others.
LEMMA FlattenAppend ==
  ASSUME NEW s \in BitSeqs, NEW x \in Seq(Bit)
  PROVE  FlattenSeq(Append(s, x)) = FlattenSeq(s) \o x
<1> DEFINE t == Append(s, x)
           n == Len(s)
<1>1. t \in BitSeqs /\ t # << >> /\ Len(t) = n + 1 /\ n \in Nat
      /\ t[n + 1] = x /\ \A i \in 1..n : t[i] = s[i]
  <2>1. s \in Seq(Seq(Bit))
    BY DEF BitSeqs
  <2>2. t \in Seq(Seq(Bit)) /\ Len(t) = n + 1 /\ n \in Nat
    BY <2>1, AppendProperties
  <2>3. t[n + 1] = x /\ \A i \in 1..n : t[i] = s[i]
    BY <2>1, AppendProperties
  <2>4. t # << >>
    BY <2>2
  <2> QED
    BY <2>2, <2>3, <2>4 DEF BitSeqs
<1> HIDE DEF t
<1>2. PICK g : Concats(g, t) /\ FlattenSeq(t) = g[n + 1]
  BY <1>1, Flattened
<1>3. \A i \in 1 .. n + 1 : g[i] = IF i = 1 THEN t[i] ELSE g[i - 1] \o t[i]
  BY <1>1, <1>2 DEF Concats
<1>4. CASE s = << >>
  <2>1. n = 0
    BY <1>4
  <2>2. FlattenSeq(t) = x
    BY <1>1, <1>2, <1>3, <2>1
  <2> QED
    BY <1>4, <2>2, FlattenEmpty DEF t
<1>5. CASE s # << >>
  <2>1. n >= 1
    BY <1>1, <1>5 DEF BitSeqs
  <2>2. PICK f : Concats(f, s) /\ FlattenSeq(s) = f[n]
    BY <1>5, Flattened
  <2> DEFINE h == [i \in 1..n |-> g[i]]
             c == [i \in 1..n |-> IF i = 1 THEN s[i] ELSE h[i - 1] \o s[i]]
  <2>3. ASSUME NEW i \in 1..n
        PROVE  h[i] = IF i = 1 THEN s[i] ELSE h[i - 1] \o s[i]
    <3>1. i # 1 => i - 1 \in 1..n
      BY <1>1
    <3>2. i \in 1 .. n + 1
      BY <1>1
    <3> QED
      BY <1>1, <1>3, <3>1, <3>2
  <2>4. Concats(h, s)
    <3>1. h = c
      BY <2>3
    <3> QED
      BY <3>1 DEF Concats
  <2>5. n \in 1..n /\ n + 1 \in 1 .. n + 1 /\ n + 1 # 1 /\ (n + 1) - 1 = n
    BY <1>1, <2>1
  <2>6. h[n] = g[n]
    BY <2>5
  <2> HIDE DEF h
  <2>7. h[n] = f[n]
    BY <2>2, <2>4, <2>5, ConcatsUnique
  <2>8. g[n + 1] = g[n] \o x
    BY <1>1, <1>3, <2>5
  <2> QED
    BY <1>2, <2>2, <2>6, <2>7, <2>8 DEF t
<1> QED
  BY <1>4, <1>5

\* A sequence that is not empty is another one with an element appended.
LEMMA LastAppended ==
  ASSUME NEW S, NEW s \in Seq(S), NEW n \in Nat, Len(s) = n + 1
  PROVE  \E r \in Seq(S), x \in S : s = Append(r, x) /\ Len(r) = n
<1>1. PICK r \in Seq(S), x \in S : s = Append(r, x)
  BY SequenceEmptyOrAppend
<1> QED
  BY <1>1

\* Bits put one after another need no brackets.
LEMMA Associative ==
  \A a, b, c \in Seq(Bit) : (a \o b) \o c = a \o (b \o c)
BY ConcatAssociative

\* Sequences of bits are flattened to a sequence of bits.
LEMMA FlattenType ==
  \A s \in BitSeqs : FlattenSeq(s) \in Seq(Bit)
<1> DEFINE T == {n \in Nat : \A s \in BitSeqs : Len(s) = n => FlattenSeq(s) \in Seq(Bit)}
<1>1. 0 \in T
  <2>1. ASSUME NEW s \in BitSeqs, Len(s) = 0 PROVE FlattenSeq(s) \in Seq(Bit)
    <3>1. s = << >>
      BY <2>1 DEF BitSeqs
    <3>2. << >> \in Seq(Bit)
      OBVIOUS
    <3> QED
      BY <3>1, <3>2, FlattenEmpty
  <2> QED
    BY <2>1
<1>2. ASSUME NEW n \in Nat, n \in T PROVE n + 1 \in T
  <2>1. ASSUME NEW s \in BitSeqs, Len(s) = n + 1 PROVE FlattenSeq(s) \in Seq(Bit)
    <3>1. PICK r \in BitSeqs, x \in Seq(Bit) : s = Append(r, x) /\ Len(r) = n
      BY <2>1, LastAppended DEF BitSeqs
    <3>2. FlattenSeq(r) \in Seq(Bit)
      BY <1>2, <3>1
    <3> QED
      BY <3>1, <3>2, FlattenAppend, ConcatProperties
  <2> QED
    BY <2>1
<1> HIDE DEF T
<1>3. \A n \in Nat : n \in T
  BY <1>1, <1>2, SetInduction
<1> QED
  BY <1>3 DEF T, BitSeqs

\* Appending behind the first element is appending.
LEMMA TailOfAppend ==
  ASSUME NEW S, NEW r \in Seq(S), r # << >>, NEW x \in S
  PROVE  Head(Append(r, x)) = Head(r) /\ Tail(Append(r, x)) = Append(Tail(r), x)
         /\ Head(r) \in S /\ Tail(r) \in Seq(S)
BY HeadTailAppend, HeadTailProperties

\* The elements of the first sequence come before those of the others.
LEMMA FlattenTail ==
  \A s \in BitSeqs :
    s # << >> => FlattenSeq(s) = Head(s) \o FlattenSeq(Tail(s))
<1> DEFINE T == {n \in Nat : \A s \in BitSeqs : Len(s) = n + 1 =>
                               FlattenSeq(s) = Head(s) \o FlattenSeq(Tail(s))}
<1>1. 0 \in T
  <2>1. ASSUME NEW s \in BitSeqs, Len(s) = 0 + 1
        PROVE  FlattenSeq(s) = Head(s) \o FlattenSeq(Tail(s))
    <3>0. s \in Seq(Seq(Bit)) /\ 0 \in Nat
      BY DEF BitSeqs
    <3>1. PICK r \in BitSeqs, x \in Seq(Bit) : s = Append(r, x) /\ Len(r) = 0
      <4>1. \E r \in Seq(Seq(Bit)), x \in Seq(Bit) : s = Append(r, x) /\ Len(r) = 0
        BY <2>1, <3>0, LastAppended
      <4> QED
        BY <4>1 DEF BitSeqs
    <3>2. r = << >>
      BY <3>1 DEF BitSeqs
    <3>3. FlattenSeq(s) = << >> \o x
      BY <3>1, <3>2, FlattenAppend, FlattenEmpty
    <3>4. Head(s) = x /\ Tail(s) = << >>
      BY <3>1, <3>2
    <3>5. << >> \o x = x /\ x \o << >> = x
      BY ConcatEmptySeq
    <3> QED
      BY <3>3, <3>4, <3>5, FlattenEmpty
  <2> QED
    BY <2>1
<1>2. ASSUME NEW n \in Nat, n \in T PROVE n + 1 \in T
  <2>1. ASSUME NEW s \in BitSeqs, Len(s) = (n + 1) + 1
        PROVE  FlattenSeq(s) = Head(s) \o FlattenSeq(Tail(s))
    <3>0. n + 1 \in Nat
      OBVIOUS
    <3>1. PICK r \in BitSeqs, x \in Seq(Bit) : s = Append(r, x) /\ Len(r) = n + 1
      BY <2>1, <3>0, LastAppended DEF BitSeqs
    <3>2. r # << >>
      BY <3>1
    <3>3. Head(s) = Head(r) /\ Tail(s) = Append(Tail(r), x)
          /\ Head(r) \in Seq(Bit) /\ Tail(r) \in BitSeqs
      BY <3>1, <3>2, TailOfAppend DEF BitSeqs
    <3>4. FlattenSeq(r) = Head(r) \o FlattenSeq(Tail(r))
      BY <1>2, <3>1
    <3>5. FlattenSeq(Tail(s)) = FlattenSeq(Tail(r)) \o x
      BY <3>3, FlattenAppend
    <3>6. FlattenSeq(s) = (Head(r) \o FlattenSeq(Tail(r))) \o x
      BY <3>1, <3>4, FlattenAppend
    <3>7. FlattenSeq(Tail(r)) \in Seq(Bit)
      BY <3>3, FlattenType
    <3>8. (Head(r) \o FlattenSeq(Tail(r))) \o x = Head(r) \o (FlattenSeq(Tail(r)) \o x)
      BY <3>1, <3>3, <3>7, Associative
    <3> QED
      BY <3>3, <3>5, <3>6, <3>8
  <2> QED
    BY <2>1
<1> HIDE DEF T
<1>3. \A n \in Nat : n \in T
  BY <1>1, <1>2, SetInduction
<1>4. ASSUME NEW s \in BitSeqs, s # << >>
      PROVE  FlattenSeq(s) = Head(s) \o FlattenSeq(Tail(s))
  <2>1. Len(s) - 1 \in Nat /\ Len(s) = (Len(s) - 1) + 1
    BY <1>4 DEF BitSeqs
  <2> QED
    BY <1>3, <2>1 DEF T
<1> QED
  BY <1>4

\* The same, of two sequences of sequences that differ by the first.
LEMMA FlattenFirst ==
  ASSUME NEW b \in BitSeqs, NEW t \in BitSeqs, Len(b) # 0, Len(t) = Len(b) - 1,
         \A i \in 1 .. Len(b) - 1 : t[i] = b[i + 1]
  PROVE  FlattenSeq(b) = b[1] \o FlattenSeq(t)
<1>1. b \in Seq(Seq(Bit)) /\ b # << >> /\ t \in Seq(Seq(Bit))
  BY DEF BitSeqs
<1>2. /\ Tail(b) \in Seq(Seq(Bit)) /\ Len(Tail(b)) = Len(b) - 1 /\ Head(b) = b[1]
      /\ \A i \in 1 .. Len(b) - 1 : Tail(b)[i] = b[i + 1]
  BY <1>1, HeadTailProperties
<1>3. \A i \in 1 .. Len(b) - 1 : Tail(b)[i] = t[i]
  BY <1>2
<1>4. Tail(b) = t
  BY <1>1, <1>2, <1>3, SeqEqual
<1> QED
  BY <1>1, <1>2, <1>4, FlattenTail

-----------------------------------------------------------------------------
(* Numbers and their bits.                                                 *)

\* f has the powers of 2 up to n.
Powers(f, n) == f = [i \in 0..n |-> IF i = 0 THEN 1 ELSE 2 * f[i - 1]]

\* There are powers of 2 up to every number.
LEMMA PowersExist == \A n \in Nat : \E f : Powers(f, n)
<1> DEFINE T == {n \in Nat : \E f : Powers(f, n)}
<1>1. 0 \in T
  <2> DEFINE f == [i \in 0..0 |-> 1]
  <2>1. f = [i \in 0..0 |-> IF i = 0 THEN 1 ELSE 2 * f[i - 1]]
    OBVIOUS
  <2>2. Powers(f, 0)
    BY <2>1 DEF Powers
  <2> QED
    BY <2>2
<1>2. ASSUME NEW n \in Nat, n \in T PROVE n + 1 \in T
  <2>1. PICK g : Powers(g, n)
    BY <1>2
  <2>2. \A i \in 0..n : g[i] = IF i = 0 THEN 1 ELSE 2 * g[i - 1]
    BY <2>1 DEF Powers
  <2> DEFINE f == [i \in 0 .. n + 1 |-> IF i = n + 1 THEN 2 * g[n] ELSE g[i]]
             c == [i \in 0 .. n + 1 |-> IF i = 0 THEN 1 ELSE 2 * f[i - 1]]
  <2>3. /\ \A i \in 0..n : f[i] = g[i]
        /\ f[n + 1] = 2 * g[n]
        /\ f = [i \in 0 .. n + 1 |-> f[i]]
    OBVIOUS
  <2> HIDE DEF f
  <2>4. ASSUME NEW i \in 0 .. n + 1
        PROVE  f[i] = IF i = 0 THEN 1 ELSE 2 * f[i - 1]
    <3>1. CASE i \in 0..n
      <4>1. i # 0 => i - 1 \in 0..n
        BY <3>1
      <4> QED
        BY <2>2, <2>3, <3>1, <4>1
    <3>2. CASE i = n + 1
      <4>1. i - 1 = n /\ n \in 0..n /\ i # 0
        BY <3>2
      <4> QED
        BY <2>3, <3>2, <4>1
    <3> QED
      BY <3>1, <3>2
  <2>5. f = c
    BY <2>3, <2>4
  <2>6. Powers(f, n + 1)
    BY <2>5 DEF Powers
  <2> QED
    BY <2>6
<1> HIDE DEF T
<1>3. \A n \in Nat : n \in T
  BY <1>1, <1>2, SetInduction
<1> QED
  BY <1>3 DEF T

\* And only one of each exponent.
LEMMA PowersUnique ==
  ASSUME NEW m \in Nat, NEW n \in Nat, m <= n, NEW f, NEW g, Powers(f, m), Powers(g, n)
  PROVE  f[m] = g[m]
<1> DEFINE T == {i \in Nat : i <= m => f[i] = g[i]}
<1>1. /\ \A i \in 0..m : f[i] = IF i = 0 THEN 1 ELSE 2 * f[i - 1]
      /\ \A i \in 0..n : g[i] = IF i = 0 THEN 1 ELSE 2 * g[i - 1]
  BY DEF Powers
<1>2. 0 \in T
  BY <1>1
<1>3. ASSUME NEW i \in Nat, i \in T PROVE i + 1 \in T
  <2>1. SUFFICES ASSUME i + 1 <= m PROVE f[i + 1] = g[i + 1]
    OBVIOUS
  <2>2. i + 1 \in 0..m /\ i + 1 \in 0..n /\ i + 1 # 0 /\ (i + 1) - 1 = i /\ i <= m
    BY <2>1
  <2>3. f[i] = g[i]
    BY <1>3, <2>2
  <2> QED
    BY <1>1, <2>2, <2>3
<1> HIDE DEF T
<1>4. \A i \in Nat : i \in T
  BY <1>2, <1>3, SetInduction
<1> QED
  BY <1>4 DEF T

\* The powers of 2 are what their name says.
LEMMA PowerSteps ==
  /\ Power[0] = 1
  /\ \A n \in Nat : Power[n] \in Nat \ {0} /\ Power[n + 1] = 2 * Power[n]
<1> DEFINE P == [n \in Nat |-> (CHOOSE h : Powers(h, n))[n]]
           c == [n \in Nat |-> IF n = 0 THEN 1 ELSE 2 * P[n - 1]]
<1>1. \A n \in Nat : Powers(CHOOSE h : Powers(h, n), n)
  BY PowersExist
<1>2. ASSUME NEW n \in Nat PROVE P[n] = IF n = 0 THEN 1 ELSE 2 * P[n - 1]
  <2> DEFINE f == CHOOSE h : Powers(h, n)
             g == CHOOSE h : Powers(h, n - 1)
  <2>1. P[n] = f[n] /\ Powers(f, n)
    BY <1>1
  <2>2. n # 0 => P[n - 1] = g[n - 1] /\ Powers(g, n - 1)
    BY <1>1
  <2> HIDE DEF P, f, g
  <2>3. f[n] = IF n = 0 THEN 1 ELSE 2 * f[n - 1]
    BY <2>1 DEF Powers
  <2>4. n # 0 => g[n - 1] = f[n - 1]
    BY <2>1, <2>2, PowersUnique
  <2> QED
    BY <2>1, <2>2, <2>3, <2>4
<1>0. P = [n \in Nat |-> P[n]]
  OBVIOUS
<1> HIDE DEF P
<1>3. P = c
  BY <1>0, <1>2
<1>4. P = [n \in Nat |-> IF n = 0 THEN 1 ELSE 2 * P[n - 1]]
  BY <1>3
<1>5. Power = [n \in Nat |-> IF n = 0 THEN 1 ELSE 2 * Power[n - 1]]
  BY <1>4, Zenon DEF Power
<1>6. Power[0] = 1
  BY <1>5
<1>7. \A n \in Nat : Power[n + 1] = 2 * Power[n]
  <2> TAKE n \in Nat
  <2>1. n + 1 \in Nat /\ n + 1 # 0 /\ (n + 1) - 1 = n
    OBVIOUS
  <2> QED
    BY <1>5, <2>1
<1> DEFINE T == {n \in Nat : Power[n] \in Nat \ {0}}
<1>8. 0 \in T
  BY <1>6
<1>9. \A n \in Nat : n \in T => n + 1 \in T
  BY <1>7
<1> HIDE DEF T
<1>10. \A n \in Nat : n \in T
  BY <1>8, <1>9, SetInduction
<1> QED
  BY <1>6, <1>7, <1>10 DEF T

\* Division undoes multiplication and a remainder.
LEMMA Quotient ==
  ASSUME NEW d \in Nat \ {0}, NEW q \in Int, NEW r \in 0 .. d - 1
  PROVE  (d * q + r) \div d = q /\ (d * q + r) % d = r
OBVIOUS

\* Dividing by 2 and then by d is dividing by 2 * d.
LEMMA HalveFirst ==
  ASSUME NEW d \in Nat \ {0}, NEW m \in Nat
  PROVE  m \div (2 * d) = (m \div 2) \div d
<1> DEFINE q == m \div 2
           r == m % 2
           t == q \div d
           u == q % d
<1>1. q \in Nat /\ r \in 0..1 /\ m = 2 * q + r
  OBVIOUS
<1>2. t \in Nat /\ u \in 0 .. d - 1 /\ q = d * t + u
  BY <1>1
<1> HIDE DEF q, r
<1>3. t \in Nat /\ u \in 0 .. d - 1 /\ q = d * t + u
  BY <1>2
<1> HIDE DEF t, u
<1>4. m = (2 * d) * t + (2 * u + r)
  BY <1>1, <1>3
<1>5. 2 * u + r \in 0 .. 2 * d - 1 /\ 2 * d \in Nat \ {0}
  BY <1>1, <1>3
<1>6. m \div (2 * d) = t
  BY <1>3, <1>4, <1>5, Quotient
<1> QED
  BY <1>6 DEF t, q

Digit(m, b) == (m \div Power[b]) % 2

\* Numbers with the same binary digits are the same.
LEMMA DigitsDiffer ==
  \A k \in Nat : \A m, n \in 0 .. Power[k] - 1 :
    (\A b \in 0 .. k - 1 : Digit(m, b) = Digit(n, b)) => m = n
<1> DEFINE Alike(m, n, k) == \A b \in 0 .. k - 1 : Digit(m, b) = Digit(n, b)
           T == {k \in Nat : \A m, n \in 0 .. Power[k] - 1 : Alike(m, n, k) => m = n}
<1>1. 0 \in T
  BY PowerSteps
<1>2. ASSUME NEW k \in Nat, k \in T PROVE k + 1 \in T
  <2>1. SUFFICES ASSUME NEW m \in 0 .. Power[k + 1] - 1, NEW n \in 0 .. Power[k + 1] - 1,
                        Alike(m, n, k + 1)
                 PROVE  m = n
    OBVIOUS
  <2>2. Power[k] \in Nat \ {0} /\ Power[k + 1] = 2 * Power[k]
    BY PowerSteps
  <2> DEFINE p == m \div 2
             q == n \div 2
  <2>3. /\ p \in Nat /\ m % 2 \in 0..1 /\ m = 2 * p + (m % 2)
        /\ q \in Nat /\ n % 2 \in 0..1 /\ n = 2 * q + (n % 2)
        /\ m \in Nat /\ n \in Nat
    BY <2>2
  <2>4. p \in 0 .. Power[k] - 1 /\ q \in 0 .. Power[k] - 1
    <3> HIDE DEF p, q
    <3> QED
      BY <2>2, <2>3
  <2>5. m % 2 = n % 2
    <3>1. m \div 1 = m /\ n \div 1 = n
      BY <2>3
    <3>2. 0 \in 0 .. (k + 1) - 1
      OBVIOUS
    <3>3. Digit(m, 0) = Digit(n, 0)
      BY <2>1, <3>2
    <3> QED
      BY <3>1, <3>3, PowerSteps DEF Digit
  <2>6. ASSUME NEW b \in 0 .. k - 1 PROVE Digit(p, b) = Digit(q, b)
    <3>1. b \in Nat /\ b + 1 \in 0 .. (k + 1) - 1
      OBVIOUS
    <3>2. Digit(m, b + 1) = Digit(n, b + 1)
      BY <2>1, <3>1
    <3>3. Power[b] \in Nat \ {0} /\ Power[b + 1] = 2 * Power[b]
      BY <3>1, PowerSteps
    <3>4. m \div Power[b + 1] = p \div Power[b] /\ n \div Power[b + 1] = q \div Power[b]
      BY <2>3, <3>3, HalveFirst
    <3> QED
      BY <3>2, <3>4 DEF Digit
  <2>7. p = q
    BY <1>2, <2>4, <2>6
  <2> HIDE DEF p, q
  <2> QED
    BY <2>3, <2>5, <2>7
<1> HIDE DEF T
<1>3. \A k \in Nat : k \in T
  BY <1>1, <1>2, SetInduction
<1> QED
  BY <1>3 DEF T

\* A larger exponent has no smaller power.
LEMMA PowerGrows ==
  ASSUME NEW m \in Nat, NEW n \in Nat, m <= n
  PROVE  Power[m] <= Power[n]
<1> DEFINE T == {d \in Nat : Power[m] <= Power[m + d]}
<1>1. 0 \in T
  BY PowerSteps
<1>2. ASSUME NEW d \in Nat, d \in T PROVE d + 1 \in T
  <2>1. m + d \in Nat /\ m + (d + 1) = (m + d) + 1
    OBVIOUS
  <2>2. /\ Power[m + (d + 1)] = 2 * Power[m + d]
        /\ Power[m + d] \in Nat /\ Power[m] \in Nat /\ Power[m] <= Power[m + d]
    BY <1>2, <2>1, PowerSteps
  <2> QED
    BY <2>2
<1> HIDE DEF T
<1>3. \A d \in Nat : d \in T
  BY <1>1, <1>2, SetInduction
<1>4. n - m \in Nat /\ m + (n - m) = n
  OBVIOUS
<1> QED
  BY <1>3, <1>4 DEF T

\* The bits of the numbers below 2^k fit k bits, and no two have the same.
LEMMA NumbersFit ==
  ASSUME NEW k \in Nat, k <= INDEX_BITS, NEW n \in 0 .. Power[k] - 1
  PROVE  NumberBits(n) \subseteq 0 .. k - 1
<1>1. Power[k] \in Nat \ {0}
  BY PowerSteps
<1>2. SUFFICES ASSUME NEW b \in NumberBits(n), b >= k PROVE FALSE
  BY SizesAssumption DEF NumberBits
<1>3. b \in Nat /\ (n \div Power[b]) % 2 = 1
  BY <1>2, SizesAssumption DEF NumberBits
<1>4. Power[b] \in Nat \ {0} /\ n < Power[b] /\ n \in Nat
  BY <1>1, <1>2, <1>3, PowerSteps, PowerGrows
<1>5. n \div Power[b] = 0
  BY <1>4
<1> QED
  BY <1>3, <1>5

\* Two numbers of INDEX_BITS bits with the same bits are the same.
LEMMA NumbersDiffer ==
  ASSUME NEW m \in 0 .. Power[INDEX_BITS] - 1, NEW n \in 0 .. Power[INDEX_BITS] - 1,
         NumberBits(m) = NumberBits(n)
  PROVE  m = n
<1>1. Power[INDEX_BITS] \in Nat /\ INDEX_BITS \in Nat
  BY PowerSteps, SizesAssumption
<1>2. ASSUME NEW b \in 0 .. INDEX_BITS - 1 PROVE Digit(m, b) = Digit(n, b)
  <2>1. b \in NumberBits(m) <=> Digit(m, b) = 1
    BY DEF NumberBits, Digit
  <2>2. b \in NumberBits(n) <=> Digit(n, b) = 1
    BY DEF NumberBits, Digit
  <2>3. Power[b] \in Nat \ {0} /\ m \in Nat /\ n \in Nat
    BY <1>1, PowerSteps
  <2>4. Digit(m, b) \in 0..1 /\ Digit(n, b) \in 0..1
    BY <2>3 DEF Digit
  <2> QED
    BY <2>1, <2>2, <2>4
<1> QED
  BY <1>1, <1>2, DigitsDiffer

-----------------------------------------------------------------------------
(* The bit buffer of the records.                                          *)

FieldBits(v, n) == Bits!Queue!FieldBits(v, n)

\* The sizes of the fields are widths the bit buffer can take.
LEMMA PackedAssumptions ==
  Packed!CapacityAssumption /\ Packed!WidthsAssumption /\ Packed!MaxWordsAssumption
<1>1. BUFFER_CAPACITY \in Nat \ {0}
  BY SizesAssumption
<1> QED
  BY <1>1 DEF Packed!CapacityAssumption, Packed!WidthsAssumption, Packed!MaxWordsAssumption

\* The definitions of the instances are the same.
LEMMA SameBits ==
  /\ \A v, n : Packed!FieldBits(v, n) = FieldBits(v, n)
  /\ \A ws : Packed!PacketBits(ws) = Bits!PacketBits(ws)
  /\ \A w, n : Packed!HighBits(w, n) = Bits!HighBits(w, n)
  /\ Packed!Word = Bits!Word
<1>1. \A v, n : Packed!FieldBits(v, n) = FieldBits(v, n)
  BY DEF Packed!FieldBits, Packed!Queue!FieldBits, FieldBits, Bits!Queue!FieldBits
<1>2. \A ws : Packed!PacketBits(ws) = Bits!PacketBits(ws)
  BY DEF Packed!PacketBits, Bits!PacketBits
<1>3. \A w, n : Packed!HighBits(w, n) = Bits!HighBits(w, n)
  BY DEF Packed!HighBits, Bits!HighBits
<1>4. Packed!Word = Bits!Word
  BY DEF Packed!Word, Bits!Word, Packed!BitPositions, Bits!BitPositions
<1> QED
  BY <1>1, <1>2, <1>3, <1>4

\* And so are their state functions.
LEMMA SameStream ==
  /\ Packed!Stream = Bits!Stream
  /\ Packed!TypeOK <=> Bits!TypeOK
  /\ Packed!More <=> Bits!More
<1>1. Packed!Stream = Bits!Stream
  BY SameBits DEF Packed!Stream, Bits!Stream
<1>2. Packed!TypeOK <=> Bits!TypeOK
  BY SameBits DEF Packed!TypeOK, Bits!TypeOK, Packed!Modes, Bits!Modes
<1>3. Packed!More <=> Bits!More
  BY DEF Packed!More, Bits!More
<1> QED
  BY <1>1, <1>2, <1>3

\* And their operations.
LEMMA SameOperations ==
  /\ \A v, n : Bits!Write(v, n) => Packed!Write(v, n)
  /\ \A n : Bits!Read(n) => Packed!Read(n)
  /\ Bits!Flush => Packed!Flush
  /\ Bits!Init => Packed!Init
<1>1. \A v, n : Bits!Write(v, n) => Packed!Write(v, n)
  BY Zenon DEF Packed!Write, Bits!Write, Packed!pack32, Bits!pack32, Packed!Store, Bits!Store,
     Packed!ShiftLeft, Bits!ShiftLeft, Packed!LowMask, Bits!LowMask,
     Packed!ShiftRightOutcomes, Bits!ShiftRightOutcomes, Packed!ShiftRight, Bits!ShiftRight,
     Packed!BitPositions, Bits!BitPositions
<1>2. \A n : Bits!Read(n) => Packed!Read(n)
  <2>1. \A b, k : Packed!ShiftLeft(b, k) = Bits!ShiftLeft(b, k)
    BY DEF Packed!ShiftLeft, Bits!ShiftLeft, Packed!BitPositions, Bits!BitPositions
  <2>2. \A b, k : Packed!ShiftRight(b, k) = Bits!ShiftRight(b, k)
    BY DEF Packed!ShiftRight, Bits!ShiftRight, Packed!BitPositions, Bits!BitPositions
  <2>3. \A k : Packed!LowMask(k) = Bits!LowMask(k)
    BY DEF Packed!LowMask, Bits!LowMask, Packed!BitPositions, Bits!BitPositions
  <2>4. \A b, k, n : Packed!unpack32(b, k, n) = Bits!unpack32(b, k, n)
    BY <2>1, <2>2, <2>3 DEF Packed!unpack32, Bits!unpack32
  <2> QED
    BY <2>1, <2>4 DEF Packed!Read, Bits!Read
<1>3. Bits!Flush => Packed!Flush
  BY DEF Packed!Flush, Bits!Flush
<1>4. Bits!Init => Packed!Init
  BY DEF Packed!Init, Bits!Init
<1> QED
  BY <1>1, <1>2, <1>3, <1>4

Stream == Bits!Stream
PacketBits(ws) == Bits!PacketBits(ws)
Word == Bits!Word

\* Bits of fields, of packets and of the buffer are sequences of bits.
LEMMA BitTypes ==
  /\ \A v : \A n \in Nat : FieldBits(v, n) \in Seq(Bit) /\ Len(FieldBits(v, n)) = n
  /\ \A ws \in Seq(Word) :
       PacketBits(ws) \in Seq(Bit) /\ Len(PacketBits(ws)) = BUFFER_CAPACITY * Len(ws)
<1>1. \A v : \A n \in Nat :
        Packed!FieldBits(v, n) \in Seq(Bit) /\ Len(Packed!FieldBits(v, n)) = n
  BY Packed!FieldBitsBits, PackedAssumptions DEF Bit
<1>2. \A ws \in Seq(Packed!Word) : /\ Packed!PacketBits(ws) \in Seq(Bit)
                                   /\ Len(Packed!PacketBits(ws)) = BUFFER_CAPACITY * Len(ws)
  BY Packed!PacketBitsBits, PackedAssumptions DEF Bit
<1> QED
  BY <1>1, <1>2, SameBits DEF PacketBits, Word

\* What the buffer holds is a sequence of bits.
LEMMA StreamType == Packed!Inv => Stream \in Seq(Bit)
BY Packed!StreamType, PackedAssumptions, SameStream DEF Stream, Bit

\* The same after a step.
LEMMA StreamTypePrimed == (Packed!Inv => Stream \in Seq(Bit))'
BY StreamType, PTL

\* The state functions of the instances are the same after a step, too.
LEMMA SamePrimed ==
  /\ Packed!Stream' = Bits!Stream'
  /\ Packed!TypeOK' <=> Bits!TypeOK'
<1>1. Packed!Stream' = Bits!Stream'
  BY SameBits DEF Packed!Stream, Bits!Stream
<1>2. Packed!TypeOK' <=> Bits!TypeOK'
  BY SameBits DEF Packed!TypeOK, Bits!TypeOK, Packed!Modes, Bits!Modes
<1> QED
  BY <1>1, <1>2

\* A Write appends the bits of its value.
LEMMA WriteBits ==
  ASSUME Packed!Inv, NEW n \in 1..BUFFER_CAPACITY, NEW v \in SUBSET (0 .. n - 1),
         Bits!Write(v, n)
  PROVE  /\ Packed!Inv'
         /\ mode = "WRITE_MODE" /\ mode' = mode
         /\ Stream' = Stream \o FieldBits(v, n)
<1>1. Packed!Write(v, n)
  BY SameOperations
<1>2. Packed!Inv'
  BY <1>1, Packed!WriteInv, PackedAssumptions
<1>3. Packed!Stream' = Packed!Stream \o Packed!FieldBits(v, n)
  BY <1>1, Packed!WriteAppends, PackedAssumptions
<1>4. mode = "WRITE_MODE" /\ mode' = mode
  BY DEF Bits!Write
<1> QED
  BY <1>2, <1>3, <1>4, SameBits, SameStream, SamePrimed DEF Stream

\* A Read takes the bits of its value.
LEMMA ReadBits ==
  ASSUME Packed!Inv, NEW n \in 1..BUFFER_CAPACITY, Bits!Read(n)
  PROVE  /\ Packed!Inv'
         /\ mode = "READ_MODE" /\ mode' = mode
         /\ reg' \in SUBSET (0 .. n - 1)
         /\ Stream = FieldBits(reg', n) \o Stream'
<1>1. Packed!Read(n)
  BY SameOperations
<1>2. Packed!Inv'
  BY <1>1, Packed!ReadInv, PackedAssumptions
<1>3. \E v \in SUBSET (0 .. n - 1) :
        reg' = v /\ Packed!Stream = Packed!FieldBits(v, n) \o Packed!Stream'
  BY <1>1, Packed!ReadTakes, PackedAssumptions
<1>4. mode = "READ_MODE" /\ mode' = mode
  BY DEF Bits!Read
<1> QED
  BY <1>2, <1>3, <1>4, SameBits, SameStream, SamePrimed DEF Stream

\* The stream of a buffer whose last word is pushed is the bits of the packet.
LEMMA FlushedStream ==
  ASSUME NEW ws \in Seq(Word)
  PROVE  PacketBits(ws) \o Bits!HighBits(buffer, BUFFER_CAPACITY - BUFFER_CAPACITY)
           = PacketBits(ws)
<1>1. BUFFER_CAPACITY - BUFFER_CAPACITY = 0
  BY SizesAssumption
<1>2. Bits!HighBits(buffer, 0) = << >>
  BY DEF Bits!HighBits
<1>3. PacketBits(ws) \in Seq(Bit)
  BY BitTypes
<1> QED
  BY <1>1, <1>2, <1>3, ConcatEmptySeq

\* Flushing appends less than a word of zeros, and a flushed buffer nothing.
LEMMA FlushBits ==
  ASSUME Packed!Inv, mode = "WRITE_MODE",
         IF buffer_size = BUFFER_CAPACITY THEN UNCHANGED word_vars ELSE Bits!Flush
  PROVE  /\ Packed!Inv'
         /\ mode' = mode /\ buffer_size' = BUFFER_CAPACITY
         /\ \E n \in 0 .. BUFFER_CAPACITY - 1 : Stream' = Stream \o FieldBits({}, n)
<1>1. CASE buffer_size = BUFFER_CAPACITY
  <2>1. UNCHANGED <<packet, mode, buffer, buffer_size, reg>>
    BY <1>1 DEF word_vars
  <2>2. Packed!Inv'
    BY <2>1 DEF Packed!Inv, Packed!TypeOK, Packed!SpareBitsClear
  <2>3. Stream' = Stream
    BY <2>1 DEF Stream, Bits!Stream
  <2>4. FieldBits({}, 0) = << >>
    BY DEF FieldBits, Bits!Queue!FieldBits
  <2>5. Stream = Stream \o FieldBits({}, 0)
    BY <2>4, StreamType, ConcatEmptySeq
  <2>6. 0 \in 0 .. BUFFER_CAPACITY - 1
    BY SizesAssumption
  <2> QED
    BY <1>1, <2>1, <2>2, <2>3, <2>5, <2>6
<1>2. CASE buffer_size # BUFFER_CAPACITY
  <2>1. Bits!Flush /\ Packed!Flush
    BY <1>2, SameOperations
  <2>2. Packed!Inv'
    BY <2>1, Packed!FlushInv, PackedAssumptions
  <2>3. mode' = mode /\ buffer_size' = BUFFER_CAPACITY
    BY <2>1 DEF Bits!Flush
  <2>4. \/ Packed!Stream' = Packed!Stream
        \/ \E n \in 1 .. BUFFER_CAPACITY - 1 :
             Packed!Stream' = Packed!Stream \o Packed!FieldBits({}, n)
    BY <2>1, Packed!FlushPads, PackedAssumptions
  <2>5. FieldBits({}, 0) = << >>
    BY DEF FieldBits, Bits!Queue!FieldBits
  <2>6. Stream = Stream \o FieldBits({}, 0)
    BY <2>5, StreamType, ConcatEmptySeq
  <2>7. \E n \in 0 .. BUFFER_CAPACITY - 1 : Stream' = Stream \o FieldBits({}, n)
    <3>1. CASE Packed!Stream' = Packed!Stream
      <4>1. Stream' = Stream \o FieldBits({}, 0)
        BY <2>6, <3>1, SameStream, SamePrimed DEF Stream
      <4> QED
        BY <4>1, SizesAssumption
    <3>2. CASE \E n \in 1 .. BUFFER_CAPACITY - 1 :
                 Packed!Stream' = Packed!Stream \o Packed!FieldBits({}, n)
      <4>1. PICK n \in 1 .. BUFFER_CAPACITY - 1 :
              Packed!Stream' = Packed!Stream \o Packed!FieldBits({}, n)
        BY <3>2
      <4>2. n \in 0 .. BUFFER_CAPACITY - 1
        BY SizesAssumption
      <4> QED
        BY <4>1, <4>2, SameBits, SameStream, SamePrimed DEF Stream
    <3> QED
      BY <2>4, <3>1, <3>2
  <2> QED
    BY <2>2, <2>3, <2>7
<1> QED
  BY <1>1, <1>2

\* The bits of a packet behind another are those of the other, then its own.
LEMMA PacketBitsConcat ==
  ASSUME NEW ws \in Seq(Word)
  PROVE  \A p \in Seq(Word) : PacketBits(ws \o p) = PacketBits(ws) \o PacketBits(p)
<1> DEFINE T == {n \in Nat : \A p \in Seq(Word) :
                   Len(p) = n => PacketBits(ws \o p) = PacketBits(ws) \o PacketBits(p)}
<1>1. 0 \in T
  <2>1. ASSUME NEW p \in Seq(Word), Len(p) = 0
        PROVE  PacketBits(ws \o p) = PacketBits(ws) \o PacketBits(p)
    <3>1. p = << >> /\ ws \o p = ws
      BY <2>1
    <3>2. PacketBits(p) = << >>
      BY <3>1, Packed!NoPacketBits, PackedAssumptions, SameBits DEF PacketBits
    <3>3. PacketBits(ws) \o << >> = PacketBits(ws)
      BY BitTypes, ConcatEmptySeq
    <3> QED
      BY <3>1, <3>2, <3>3
  <2> QED
    BY <2>1
<1>2. ASSUME NEW n \in Nat, n \in T PROVE n + 1 \in T
  <2>1. ASSUME NEW p \in Seq(Word), Len(p) = n + 1
        PROVE  PacketBits(ws \o p) = PacketBits(ws) \o PacketBits(p)
    <3>1. PICK r \in Seq(Word), w \in Word : p = Append(r, w) /\ Len(r) = n
      BY <2>1, LastAppended
    <3>2. ws \o p = Append(ws \o r, w) /\ ws \o r \in Seq(Word)
      BY <3>1
    <3>3. PacketBits(ws \o r) = PacketBits(ws) \o PacketBits(r)
      BY <1>2, <3>1
    <3> DEFINE h == Bits!HighBits(w, BUFFER_CAPACITY)
    <3>4. \A us \in Seq(Word) : PacketBits(Append(us, w)) = PacketBits(us) \o h
      BY Packed!PacketBitsAppend, PackedAssumptions, SameBits DEF PacketBits, Word
    <3>5. h \in Seq(Bit)
      BY Packed!HighBitsBits, PackedAssumptions, SameBits, SizesAssumption DEF Bit
    <3>6. PacketBits(ws) \in Seq(Bit) /\ PacketBits(r) \in Seq(Bit)
      BY BitTypes
    <3> HIDE DEF h
    <3>7. (PacketBits(ws) \o PacketBits(r)) \o h = PacketBits(ws) \o (PacketBits(r) \o h)
      BY <3>5, <3>6, Associative
    <3> QED
      BY <3>1, <3>2, <3>3, <3>4, <3>7
  <2> QED
    BY <2>1
<1> HIDE DEF T
<1>3. \A n \in Nat : n \in T
  BY <1>1, <1>2, SetInduction
<1> QED
  BY <1>3 DEF T

-----------------------------------------------------------------------------
(* The calls of a record and their bits.                                   *)

\* A Write of a value that fits its field.
Call == {c \in (SUBSET Nat) \X (1..BUFFER_CAPACITY) : c[1] \subseteq 0 .. c[2] - 1}

\* The parts of a Write.
LEMMA CallType ==
  ASSUME NEW c \in Call
  PROVE  /\ c[2] \in 1..BUFFER_CAPACITY /\ c[2] \in Nat
         /\ c[1] \in SUBSET (0 .. c[2] - 1)
BY SizesAssumption DEF Call

BitsOf(calls) == [n \in DOMAIN calls |-> FieldBits(calls[n][1], calls[n][2])]

\* The bits of some Write calls are those of each, one after another.
LEMMA BitsOfCalls ==
  ASSUME NEW calls \in Seq(Call)
  PROVE  /\ BitsOf(calls) \in BitSeqs
         /\ CallBits(calls) = FlattenSeq(BitsOf(calls))
         /\ CallBits(calls) \in Seq(Bit)
<1> DEFINE n == Len(calls)
           g(i) == FieldBits(calls[i][1], calls[i][2])
<1>1. DOMAIN calls = 1..n /\ n \in Nat /\ \A i \in 1..n : calls[i] \in Call
  OBVIOUS
<1>2. \A i \in 1..n : g(i) \in Seq(Bit)
  BY <1>1, CallType, BitTypes
<1>3. BitsOf(calls) = [i \in 1..n |-> g(i)]
  BY <1>1 DEF BitsOf
<1> HIDE DEF n, g
<1>4. BitsOf(calls) \in Seq(Seq(Bit))
  BY <1>1, <1>2, <1>3
<1>5. CallBits(calls) = FlattenSeq(BitsOf(calls))
  BY DEF CallBits, BitsOf, FieldBits
<1> QED
  BY <1>4, <1>5, FlattenType DEF BitSeqs

\* No calls write no bits.
LEMMA NoCallBits == CallBits(<< >>) = << >>
<1>1. BitsOf(<< >>) = << >>
  BY DEF BitsOf
<1> QED
  BY <1>1, FlattenEmpty DEF CallBits, BitsOf, FieldBits

\* The bits of the first call come before those of the others.
LEMMA CallBitsTail ==
  ASSUME NEW calls \in Seq(Call), calls # << >>
  PROVE  CallBits(calls) = FieldBits(calls[1][1], calls[1][2]) \o CallBits(Tail(calls))
<1> DEFINE b == BitsOf(calls)
           t == BitsOf(Tail(calls))
<1>1. /\ Tail(calls) \in Seq(Call) /\ Len(calls) \in Nat \ {0}
      /\ Len(Tail(calls)) = Len(calls) - 1
      /\ \A i \in 1 .. Len(calls) - 1 : Tail(calls)[i] = calls[i + 1]
  OBVIOUS
<1>2. b \in BitSeqs /\ t \in BitSeqs
  BY <1>1, BitsOfCalls
<1>3. Len(b) = Len(calls) /\ \A i \in 1..Len(calls) : b[i] = FieldBits(calls[i][1], calls[i][2])
  BY DEF BitsOf
<1>4. /\ Len(t) = Len(calls) - 1
      /\ \A i \in 1 .. Len(calls) - 1 :
           t[i] = FieldBits(Tail(calls)[i][1], Tail(calls)[i][2])
  BY <1>1 DEF BitsOf
<1> HIDE DEF b, t
<1>5. \A i \in 1 .. Len(calls) - 1 : t[i] = b[i + 1]
  BY <1>1, <1>3, <1>4
<1>6. FlattenSeq(b) = b[1] \o FlattenSeq(t)
  BY <1>1, <1>2, <1>3, <1>4, <1>5, FlattenFirst
<1>7. CallBits(calls) = FlattenSeq(b) /\ CallBits(Tail(calls)) = FlattenSeq(t)
  BY <1>1, BitsOfCalls DEF b, t
<1>8. b[1] = FieldBits(calls[1][1], calls[1][2])
  BY <1>1, <1>3
<1> QED
  BY <1>6, <1>7, <1>8

\* The values and the calls of a tick whose ticker has a number.
ValuesOf(md, number) == Values(md, number, SideCode[md.side])
CallsOf(md, number) == Zip(ValuesOf(md, number), FieldSizes)

\* The first value, and each of the others.
LEMMA Layout ==
  ASSUME NEW md, NEW number
  PROVE  /\ Len(FieldSizes) = 11 /\ Len(ValuesOf(md, number)) = 11 /\ NumFields = 11
         /\ Len(CallsOf(md, number)) = 11 /\ DOMAIN CallsOf(md, number) = 1..11
         /\ \A i \in 1..11 : CallsOf(md, number)[i] = <<ValuesOf(md, number)[i], FieldSizes[i]>>
<1>1. Len(FieldSizes) = 11
  BY DEF FieldSizes
<1>2. Len(ValuesOf(md, number)) = 11
  BY DEF Values, ValuesOf
<1> QED
  BY <1>1, <1>2 DEF CallsOf, Zip, NumFields

\* Every field fits a word.
LEMMA FieldSizesType == \A i \in 1..11 : FieldSizes[i] \in 1..BUFFER_CAPACITY
BY SizesAssumption DEF FieldSizes

\* The fields of a tick that is in its ranges.
LEMMA TickType ==
  ASSUME TicksFit, NEW md \in Ticks
  PROVE  /\ md = [ticker |-> md.ticker, exchange |-> md.exchange, side |-> md.side,
                 condition |-> md.condition, time |-> md.time, reptime |-> md.reptime,
                 price |-> md.price, size |-> md.size]
         /\ md.ticker \in Tickers
         /\ md.exchange \in SUBSET (0 .. CHAR_SIZE - 2)
         /\ md.condition \in SUBSET (0 .. CHAR_SIZE - 2)
         /\ md.side \in {"B", "A", "T"}
         /\ md.time \in SUBSET (0 .. BUFFER_CAPACITY + TIME_HIGH - 1)
         /\ md.reptime \in SUBSET (0 .. BUFFER_CAPACITY + TIME_HIGH - 1)
         /\ md.price \in SUBSET (0 .. 2 * BUFFER_CAPACITY - 1)
         /\ md.size \in SUBSET (0 .. SHARE_SIZE - 1)
<1>1. DOMAIN SideCode = {"B", "A", "T"}
  BY DEF SideCode
<1>2. md \in [ticker : Tickers, exchange : SUBSET (0 .. CHAR_SIZE - 2), side : {"B", "A", "T"},
              condition : SUBSET (0 .. CHAR_SIZE - 2),
              time : SUBSET (0 .. BUFFER_CAPACITY + TIME_HIGH - 1),
              reptime : SUBSET (0 .. BUFFER_CAPACITY + TIME_HIGH - 1),
              price : SUBSET (0 .. 2 * BUFFER_CAPACITY - 1), size : SUBSET (0 .. SHARE_SIZE - 1)]
  BY <1>1 DEF TicksFit
<1> QED
  BY <1>2

\* The halves of a value of two words, and a character, fit their fields.
LEMMA HalvesFit ==
  ASSUME NEW n \in Nat, NEW v \in SUBSET (0 .. BUFFER_CAPACITY + n - 1)
  PROVE  /\ High(v) \in SUBSET (0 .. n - 1)
         /\ Low(v) \in SUBSET (0 .. BUFFER_CAPACITY - 1)
         /\ Join(High(v), Low(v)) = v
<1>1. BUFFER_CAPACITY \in Nat
  BY SizesAssumption
<1>2. High(v) \in SUBSET (0 .. n - 1)
  BY <1>1 DEF High
<1>3. Low(v) \in SUBSET (0 .. BUFFER_CAPACITY - 1)
  BY DEF Low, Bits!BitPositions
<1>4. ASSUME NEW b \in v PROVE b \in Join(High(v), Low(v))
  <2>1. CASE b >= BUFFER_CAPACITY
    <3>1. b - BUFFER_CAPACITY \in High(v) /\ (b - BUFFER_CAPACITY) + BUFFER_CAPACITY = b
      BY <1>1, <2>1 DEF High
    <3> QED
      BY <3>1 DEF Join
  <2>2. CASE b < BUFFER_CAPACITY
    <3>1. b \in Low(v)
      BY <1>1, <2>2 DEF Low, Bits!BitPositions
    <3> QED
      BY <3>1 DEF Join
  <2> QED
    BY <1>1, <2>1, <2>2
<1>5. ASSUME NEW b \in Join(High(v), Low(v)) PROVE b \in v
  <2>1. CASE b \in Low(v)
    BY <2>1 DEF Low
  <2>2. CASE \E h \in High(v) : b = h + BUFFER_CAPACITY
    <3>1. PICK c \in v : c >= BUFFER_CAPACITY /\ b = (c - BUFFER_CAPACITY) + BUFFER_CAPACITY
      BY <2>2 DEF High
    <3> QED
      BY <1>1, <3>1
  <2> QED
    BY <1>5, <2>1, <2>2 DEF Join
<1> QED
  BY <1>2, <1>3, <1>4, <1>5

\* A character without its top bit is packed as it is.
LEMMA CharFits ==
  ASSUME NEW c \in SUBSET (0 .. CHAR_SIZE - 2)
  PROVE  CharBits(c) = c /\ c \in SUBSET (0 .. CHAR_SIZE - 1)
BY SizesAssumption DEF CharBits

\* Every side has a code that fits its field and stands for that side only; no side
\* has the code 3.
LEMMA SideFits ==
  ASSUME NEW side \in {"B", "A", "T"}
  PROVE  /\ SideCode[side] \in SUBSET (0 .. SIDE_SIZE - 1)
         /\ SideToken(SideCode[side]) = side
         /\ SideCode[side] # {0, 1}
<1>1. SideCode.B = {} /\ SideCode.A = {0} /\ SideCode.T = {1} /\ DOMAIN SideCode = {"B", "A", "T"}
  BY DEF SideCode
<1>2. {} # {0} /\ {} # {1} /\ {0} # {1}
  <2>1. 0 \in {0} /\ 1 \in {1} /\ 0 \notin {1} /\ 0 \notin {} /\ 1 \notin {}
    OBVIOUS
  <2>2. {0} # {1}
    BY <2>1
  <2>3. {} # {0} /\ {} # {1}
    BY <2>1
  <2> QED
    BY <2>2, <2>3
<1>3. \A other \in DOMAIN SideCode : SideCode[other] = SideCode[side] => other = side
  BY <1>1, <1>2
<1>4. SideToken(SideCode[side]) = side
  BY <1>1, <1>3 DEF SideToken
<1>5. SideCode[side] \in SUBSET (0 .. SIDE_SIZE - 1)
  BY <1>1, SizesAssumption
<1>6. SideCode[side] # {0, 1}
  BY <1>1
<1> QED
  BY <1>4, <1>5, <1>6

\* Every value of a tick fits its field.
LEMMA ValuesFit ==
  ASSUME TicksFit, NEW md \in Ticks, NEW number \in 0 .. Power[TICKER_SIZE] - 1
  PROVE  \A i \in 1..11 : ValuesOf(md, number)[i] \in SUBSET (0 .. FieldSizes[i] - 1)
<1> DEFINE v == ValuesOf(md, number)
           C == BUFFER_CAPACITY
<1>1. NumberBits(number) \in SUBSET (0 .. TICKER_SIZE - 1)
  BY NumbersFit, SizesAssumption
<1>2. CharBits(md.exchange) \in SUBSET (0 .. CHAR_SIZE - 1)
      /\ CharBits(md.condition) \in SUBSET (0 .. CHAR_SIZE - 1)
  BY TickType, CharFits
<1>3. SideCode[md.side] \in SUBSET (0 .. SIDE_SIZE - 1)
  BY TickType, SideFits
<1>4. /\ High(md.time) \in SUBSET (0 .. TIME_HIGH - 1) /\ Low(md.time) \in SUBSET (0 .. C - 1)
      /\ High(md.reptime) \in SUBSET (0 .. TIME_HIGH - 1)
      /\ Low(md.reptime) \in SUBSET (0 .. C - 1)
  BY TickType, HalvesFit, SizesAssumption
<1>5. High(md.price) \in SUBSET (0 .. C - 1) /\ Low(md.price) \in SUBSET (0 .. C - 1)
  <2>1. C \in Nat /\ 2 * C = C + C
    BY SizesAssumption
  <2> QED
    BY <2>1, TickType, HalvesFit
<1>6. md.size \in SUBSET (0 .. SHARE_SIZE - 1)
  BY TickType
<1>7. /\ v[1] = NumberBits(number) /\ v[2] = CharBits(md.exchange) /\ v[3] = SideCode[md.side]
      /\ v[4] = CharBits(md.condition) /\ v[5] = High(md.time) /\ v[6] = Low(md.time)
      /\ v[7] = High(md.reptime) /\ v[8] = Low(md.reptime)
      /\ v[9] = High(md.price) /\ v[10] = Low(md.price) /\ v[11] = md.size
  BY DEF Values, ValuesOf
<1>8. /\ FieldSizes[1] = TICKER_SIZE /\ FieldSizes[2] = CHAR_SIZE /\ FieldSizes[3] = SIDE_SIZE
      /\ FieldSizes[4] = CHAR_SIZE /\ FieldSizes[5] = TIME_HIGH /\ FieldSizes[6] = C
      /\ FieldSizes[7] = TIME_HIGH /\ FieldSizes[8] = C
      /\ FieldSizes[9] = C /\ FieldSizes[10] = C /\ FieldSizes[11] = SHARE_SIZE
  BY DEF FieldSizes
<1> HIDE DEF v, C
<1>9. ASSUME NEW i \in 1..11 PROVE v[i] \in SUBSET (0 .. FieldSizes[i] - 1)
  <2>1. \/ i = 1 \/ i = 2 \/ i = 3 \/ i = 4 \/ i = 5 \/ i = 6
        \/ i = 7 \/ i = 8 \/ i = 9 \/ i = 10 \/ i = 11
    OBVIOUS
  <2> QED
    BY <1>1, <1>2, <1>3, <1>4, <1>5, <1>6, <1>7, <1>8, <2>1
<1> QED
  BY <1>9 DEF v

\* The fields of a tick give the tick back, if the lookup has its ticker.
LEMMA FieldsGiveTick ==
  ASSUME TicksFit, NEW md \in Ticks, NEW number, NEW lookup, NEW f,
         \A i \in 1..11 : f[i] = ValuesOf(md, number)[i],
         TickerOf(lookup, NumberBits(number)) = md.ticker
  PROVE  TickOf(lookup, f) = md
<1> DEFINE v == ValuesOf(md, number)
<1>1. /\ v[1] = NumberBits(number) /\ v[2] = CharBits(md.exchange) /\ v[3] = SideCode[md.side]
      /\ v[4] = CharBits(md.condition) /\ v[5] = High(md.time) /\ v[6] = Low(md.time)
      /\ v[7] = High(md.reptime) /\ v[8] = Low(md.reptime)
      /\ v[9] = High(md.price) /\ v[10] = Low(md.price) /\ v[11] = md.size
  BY DEF Values, ValuesOf
<1> HIDE DEF v
<1>2. /\ f[1] = v[1] /\ f[2] = v[2] /\ f[3] = v[3] /\ f[4] = v[4] /\ f[5] = v[5] /\ f[6] = v[6]
      /\ f[7] = v[7] /\ f[8] = v[8] /\ f[9] = v[9] /\ f[10] = v[10] /\ f[11] = v[11]
  BY DEF v
<1>3. f[2] = md.exchange /\ f[4] = md.condition
  BY <1>1, <1>2, TickType, CharFits
<1>4. SideToken(f[3]) = md.side
  BY <1>1, <1>2, TickType, SideFits
<1>5. Join(f[5], f[6]) = md.time /\ Join(f[7], f[8]) = md.reptime
  BY <1>1, <1>2, TickType, HalvesFit, SizesAssumption
<1>6. Join(f[9], f[10]) = md.price
  <2>1. BUFFER_CAPACITY \in Nat /\ 2 * BUFFER_CAPACITY = BUFFER_CAPACITY + BUFFER_CAPACITY
    BY SizesAssumption
  <2> QED
    BY <1>1, <1>2, <2>1, TickType, HalvesFit
<1>7. TickerOf(lookup, f[1]) = md.ticker /\ f[11] = md.size
  BY <1>1, <1>2
<1>8. TickOf(lookup, f) =
        [ticker |-> md.ticker, exchange |-> md.exchange, side |-> md.side,
         condition |-> md.condition, time |-> md.time, reptime |-> md.reptime,
         price |-> md.price, size |-> md.size]
  BY <1>3, <1>4, <1>5, <1>6, <1>7, Zenon DEF TickOf
<1>9. md = [ticker |-> md.ticker, exchange |-> md.exchange, side |-> md.side,
            condition |-> md.condition, time |-> md.time, reptime |-> md.reptime,
            price |-> md.price, size |-> md.size]
  BY TickType
<1> QED
  BY <1>8, <1>9

-----------------------------------------------------------------------------
(* The symbol table.                                                       *)

\* There are numbers enough for the tickers.
LEMMA NumbersAssumptions ==
  ASSUME TicksFit
  PROVE  Numbers!IndexAssumption /\ Numbers!SymbolsAssumption
<1>1. Power[INDEX_BITS] \in Nat \ {0}
  BY PowerSteps, SizesAssumption
<1>2. \A S : (Numbers!IsFiniteSet(S) <=> IsFiniteSet(S))
             /\ Numbers!Cardinality(S) = Cardinality(S)
  BY DEF Numbers!IsFiniteSet, IsFiniteSet, Numbers!Cardinality, Cardinality
<1>3. IsFiniteSet(Tickers) /\ Cardinality(Tickers) <= Power[TICKER_SIZE]
  BY DEF TicksFit
<1>4. Power[TICKER_SIZE] <= Power[INDEX_BITS] /\ Power[TICKER_SIZE] \in Nat
  BY PowerGrows, PowerSteps, SizesAssumption
<1>5. Cardinality(Tickers) \in Nat
  BY <1>3, FS_CardinalityType
<1> QED
  BY <1>1, <1>2, <1>3, <1>4, <1>5 DEF Numbers!IndexAssumption, Numbers!SymbolsAssumption

\* A number of the table fits the field of the ticker.
LEMMA NumberFits ==
  ASSUME TicksFit, Numbers!Numbered, NEW s \in DOMAIN table
  PROVE  /\ table[s] \in 0 .. Power[TICKER_SIZE] - 1
         /\ table[s] \in 0 .. Power[INDEX_BITS] - 1
         /\ table[s] \in 0 .. Cardinality(DOMAIN table) - 1
<1>1. DOMAIN table \subseteq Tickers /\ table[s] \in Nat /\ table[s] < Numbers!Count
  BY DEF Numbers!Numbered
<1>2. Numbers!Count = Cardinality(DOMAIN table)
  BY DEF Numbers!Count, Numbers!Cardinality, Cardinality
<1>3. IsFiniteSet(Tickers) /\ Cardinality(Tickers) <= Power[TICKER_SIZE]
  BY DEF TicksFit
<1>4. /\ Cardinality(DOMAIN table) <= Cardinality(Tickers)
      /\ Cardinality(DOMAIN table) \in Nat /\ Cardinality(Tickers) \in Nat
  BY <1>1, <1>3, FS_Subset, FS_CardinalityType
<1>5. /\ Power[TICKER_SIZE] <= Power[INDEX_BITS]
      /\ Power[TICKER_SIZE] \in Nat /\ Power[INDEX_BITS] \in Nat
  BY PowerGrows, PowerSteps, SizesAssumption
<1> QED
  BY <1>1, <1>2, <1>3, <1>4, <1>5

\* The table after a ticker is added.
LEMMA TableInsert ==
  ASSUME TicksFit, Numbers!Numbered, NEW s \in Tickers, Table!Insert(s)
  PROVE  /\ Numbers!Numbered'
         /\ \A t \in DOMAIN table : t \in DOMAIN table' /\ table'[t] = table[t]
         /\ s \in DOMAIN table'
         /\ table'[s] = Table!NumberOf(s)
<1>1. Numbers!Insert(s)
  BY DEF Numbers!Insert, Table!Insert
<1>2. Numbers!NumberOf(s) = Table!NumberOf(s)
  BY DEF Numbers!NumberOf, Table!NumberOf
<1>3. Numbers!IndexAssumption /\ Numbers!SymbolsAssumption
  BY NumbersAssumptions
<1>4. Numbers!Numbered'
  BY <1>1, <1>3, Numbers!InsertNumbered
<1> QED
  BY <1>1, <1>2, <1>3, <1>4, Numbers!InsertKeeps

\* The lookup table has every ticker at the position of its number.
LEMMA LookupFinds ==
  ASSUME TicksFit, Numbers!Numbered, NEW lookup \in Table!Lookups, NEW s \in DOMAIN table
  PROVE  TickerOf(lookup, NumberBits(table[s])) = s
<1> DEFINE N == Numbers!Count
           i == table[s] + 1
<1>1. Numbers!IndexAssumption /\ Numbers!SymbolsAssumption
  BY NumbersAssumptions
<1>2. lookup \in Numbers!Lookups
  BY DEF Numbers!Lookups, Table!Lookups, Numbers!Before, Table!Before,
         Numbers!IsInjective, Table!IsInjective,
         Numbers!Cardinality, Table!Cardinality
<1>3. N = Cardinality(DOMAIN table)
  BY DEF Numbers!Count, Numbers!Cardinality, Cardinality
<1>4. DOMAIN lookup = 1..N
  BY <1>2 DEF Numbers!Lookups, Numbers!Count
<1>5. table[s] \in 0 .. N - 1 /\ table[s] \in 0 .. Power[INDEX_BITS] - 1
  BY <1>3, NumberFits
<1>6. N \in Nat
  <2>1. DOMAIN table \subseteq Tickers
    BY DEF Numbers!Numbered
  <2> QED
    BY <1>1, <2>1, Numbers!CountType
<1> HIDE DEF N
<1>7. i \in 1..N /\ i - 1 = table[s]
  BY <1>5, <1>6
<1> HIDE DEF i
<1>8. \A k \in 1..N : lookup[k] \in DOMAIN table /\ table[lookup[k]] = k - 1
  BY <1>1, <1>2, Numbers!LookupPosition DEF N
<1>9. lookup[i] = s
  BY <1>7, <1>8 DEF Numbers!Numbered
<1>10. ASSUME NEW k \in 1..N, NumberBits(k - 1) = NumberBits(table[s]) PROVE k = i
  <2>1. lookup[k] \in DOMAIN table /\ table[lookup[k]] = k - 1
    BY <1>8
  <2>2. k - 1 \in 0 .. Power[INDEX_BITS] - 1
    BY <2>1, NumberFits
  <2>3. k - 1 = table[s]
    BY <1>5, <1>10, <2>2, NumbersDiffer
  <2> QED
    BY <1>6, <1>7, <2>3
<1>11. (CHOOSE k \in DOMAIN lookup : NumberBits(k - 1) = NumberBits(table[s])) = i
  BY <1>4, <1>7, <1>10
<1>12. \E k \in DOMAIN lookup : NumberBits(k - 1) = NumberBits(table[s])
  BY <1>4, <1>7
<1> QED
  BY <1>9, <1>11, <1>12 DEF TickerOf

-----------------------------------------------------------------------------
(* The bits of records.                                                    *)

\* The Write calls of a tick pack values that fit their fields.
LEMMA CallsFit ==
  ASSUME TicksFit, NEW md \in Ticks, NEW number \in 0 .. Power[TICKER_SIZE] - 1
  PROVE  CallsOf(md, number) \in Seq(Call)
<1> DEFINE c == CallsOf(md, number)
           call(i) == <<ValuesOf(md, number)[i], FieldSizes[i]>>
<1>1. Len(c) = 11 /\ DOMAIN c = 1..11 /\ \A i \in 1..11 : c[i] = call(i)
  BY Layout
<1>2. ASSUME NEW i \in 1..11 PROVE call(i) \in Call
  <2>1. FieldSizes[i] \in 1..BUFFER_CAPACITY
    BY FieldSizesType
  <2>2. ValuesOf(md, number)[i] \in SUBSET (0 .. FieldSizes[i] - 1)
    BY ValuesFit
  <2>3. ValuesOf(md, number)[i] \in SUBSET Nat
    BY <2>2
  <2> QED
    BY <2>1, <2>2, <2>3 DEF Call
<1>3. c = [i \in 1..11 |-> c[i]]
  BY Layout DEF CallsOf, Zip
<1> HIDE DEF c, call
<1> QED
  BY <1>1, <1>2, <1>3 DEF c

\* The bits of the fields of a record from the j-th on.
LEMMA CallsFrom ==
  ASSUME NEW calls \in Seq(Call), NEW n \in Nat, Len(calls) = n, NEW j \in 1..n
  PROVE  /\ SubSeq(calls, j, n) \in Seq(Call) /\ SubSeq(calls, j + 1, n) \in Seq(Call)
         /\ CallBits(SubSeq(calls, j, n)) =
              FieldBits(calls[j][1], calls[j][2]) \o CallBits(SubSeq(calls, j + 1, n))
<1> DEFINE s == SubSeq(calls, j, n)
<1>1. /\ s \in Seq(Call) /\ Len(s) = n - j + 1 /\ s[1] = calls[j]
      /\ SubSeq(calls, j + 1, n) \in Seq(Call)
  BY SubSeqProperties
<1>2. Tail(s) = SubSeq(calls, j + 1, n)
  <2>1. j \in 1..Len(calls) /\ n \in j..Len(calls)
    OBVIOUS
  <2> QED
    BY <2>1, HeadTailOfSubSeq
<1> HIDE DEF s
<1>3. s # << >>
  BY <1>1
<1> QED
  BY <1>1, <1>2, <1>3, CallBitsTail DEF s

\* A tick whose ticker has a number that fits, and a sequence of such ticks.
Fits(tb, md) == md \in Ticks /\ tb[md.ticker] \in 0 .. Power[TICKER_SIZE] - 1
Known(tb) == {md \in Ticks : Fits(tb, md)}

RecordIn(tb, md) == CallBits(CallsOf(md, tb[md.ticker]))
RecordsIn(tb, ts) == FlattenSeq([n \in DOMAIN ts |-> RecordIn(tb, ts[n])])

\* The bits of a tick are the bits of its calls.
LEMMA RecordType ==
  ASSUME TicksFit, NEW tb, NEW md \in Known(tb)
  PROVE  /\ CallsOf(md, tb[md.ticker]) \in Seq(Call)
         /\ RecordIn(tb, md) \in Seq(Bit)
BY CallsFit, BitsOfCalls DEF Known, Fits, RecordIn

\* A record is longer than a word.
LEMMA RecordLong ==
  ASSUME TicksFit, NEW tb, NEW md \in Known(tb)
  PROVE  Len(RecordIn(tb, md)) > BUFFER_CAPACITY
<1> DEFINE c == CallsOf(md, tb[md.ticker])
           L(j) == Len(CallBits(SubSeq(c, j, 11)))
<1>1. c \in Seq(Call) /\ Len(c) = 11 /\ \A i \in 1..11 : c[i][2] = FieldSizes[i]
  BY RecordType, Layout
<1>2. ASSUME NEW j \in 1..11
      PROVE  L(j) = FieldSizes[j] + L(j + 1) /\ L(j + 1) \in Nat
  <2>1. /\ SubSeq(c, j, 11) \in Seq(Call) /\ SubSeq(c, j + 1, 11) \in Seq(Call)
        /\ CallBits(SubSeq(c, j, 11)) =
             FieldBits(c[j][1], c[j][2]) \o CallBits(SubSeq(c, j + 1, 11))
    BY <1>1, CallsFrom
  <2>2. CallBits(SubSeq(c, j + 1, 11)) \in Seq(Bit)
    BY <2>1, BitsOfCalls
  <2>3. FieldSizes[j] \in Nat /\ FieldSizes[j] >= 1
    BY FieldSizesType, SizesAssumption
  <2>4. FieldBits(c[j][1], c[j][2]) \in Seq(Bit) /\ Len(FieldBits(c[j][1], c[j][2])) = FieldSizes[j]
    BY <1>1, <2>3, BitTypes
  <2> QED
    BY <2>1, <2>2, <2>4
<1>3. SubSeq(c, 1, 11) = c
  BY <1>1, SubSeqFull
<1>4. RecordIn(tb, md) = CallBits(SubSeq(c, 1, 11))
  BY <1>3 DEF RecordIn
<1> HIDE DEF L
<1>5. /\ FieldSizes[6] = BUFFER_CAPACITY
      /\ \A j \in 1..6 : FieldSizes[j] \in Nat /\ FieldSizes[j] >= 1
  BY FieldSizesType, SizesAssumption DEF FieldSizes
<1>6. /\ L(1) = FieldSizes[1] + L(2) /\ L(2) = FieldSizes[2] + L(3)
      /\ L(3) = FieldSizes[3] + L(4) /\ L(4) = FieldSizes[4] + L(5)
      /\ L(5) = FieldSizes[5] + L(6) /\ L(6) = FieldSizes[6] + L(7) /\ L(7) \in Nat
  <2>1. /\ L(1) = FieldSizes[1] + L(1 + 1) /\ L(2) = FieldSizes[2] + L(2 + 1)
        /\ L(3) = FieldSizes[3] + L(3 + 1) /\ L(4) = FieldSizes[4] + L(4 + 1)
        /\ L(5) = FieldSizes[5] + L(5 + 1) /\ L(6) = FieldSizes[6] + L(6 + 1)
        /\ L(6 + 1) \in Nat
    BY <1>2
  <2>2. 1 + 1 = 2 /\ 2 + 1 = 3 /\ 3 + 1 = 4 /\ 4 + 1 = 5 /\ 5 + 1 = 6 /\ 6 + 1 = 7
    OBVIOUS
  <2> QED
    BY <2>1, <2>2
<1>7. /\ FieldSizes[1] \in Nat /\ FieldSizes[1] >= 1 /\ FieldSizes[2] \in Nat
      /\ FieldSizes[3] \in Nat /\ FieldSizes[4] \in Nat /\ FieldSizes[5] \in Nat
      /\ BUFFER_CAPACITY \in Nat
  BY <1>5, SizesAssumption
<1>8. L(1) > BUFFER_CAPACITY
  BY <1>5, <1>6, <1>7
<1> QED
  BY <1>4, <1>8 DEF L

\* The records of some ticks.
Rows(tb, ts) == [n \in DOMAIN ts |-> RecordIn(tb, ts[n])]

\* The bits of some ticks are those of each, one after another.
LEMMA RecordsType ==
  ASSUME TicksFit, NEW tb, NEW ts \in Seq(Known(tb))
  PROVE  /\ Rows(tb, ts) \in BitSeqs
         /\ RecordsIn(tb, ts) = FlattenSeq(Rows(tb, ts))
         /\ RecordsIn(tb, ts) \in Seq(Bit)
<1> DEFINE n == Len(ts)
           g(i) == RecordIn(tb, ts[i])
<1>1. DOMAIN ts = 1..n /\ n \in Nat /\ \A i \in 1..n : ts[i] \in Known(tb)
  OBVIOUS
<1>2. \A i \in 1..n : g(i) \in Seq(Bit)
  BY <1>1, RecordType
<1>3. Rows(tb, ts) = [i \in 1..n |-> g(i)]
  BY <1>1 DEF Rows
<1> HIDE DEF n, g
<1>4. Rows(tb, ts) \in Seq(Seq(Bit))
  BY <1>1, <1>2, <1>3
<1>5. RecordsIn(tb, ts) = FlattenSeq(Rows(tb, ts))
  BY DEF RecordsIn, Rows
<1> QED
  BY <1>4, <1>5, FlattenType DEF BitSeqs

\* No ticks, no bits.
LEMMA NoRecords == \A tb : RecordsIn(tb, << >>) = << >>
<1>1. \A tb : Rows(tb, << >>) = << >>
  BY DEF Rows
<1> QED
  BY <1>1, FlattenEmpty DEF RecordsIn, Rows

\* A tick more puts its record behind those of the others.
LEMMA RecordsAppend ==
  ASSUME TicksFit, NEW tb, NEW ts \in Seq(Known(tb)), NEW md \in Known(tb)
  PROVE  RecordsIn(tb, Append(ts, md)) = RecordsIn(tb, ts) \o RecordIn(tb, md)
<1> DEFINE us == Append(ts, md)
           b == Rows(tb, ts)
           c == Rows(tb, us)
           x == RecordIn(tb, md)
<1>1. /\ us \in Seq(Known(tb)) /\ Len(us) = Len(ts) + 1 /\ Len(ts) \in Nat
      /\ us[Len(ts) + 1] = md /\ \A i \in 1..Len(ts) : us[i] = ts[i]
  BY AppendProperties
<1>2. b \in BitSeqs /\ c \in BitSeqs /\ x \in Seq(Bit)
  BY <1>1, RecordsType, RecordType
<1>3. Len(b) = Len(ts) /\ \A i \in 1..Len(ts) : b[i] = RecordIn(tb, ts[i])
  BY DEF Rows
<1>4. Len(c) = Len(us) /\ \A i \in 1..Len(us) : c[i] = RecordIn(tb, us[i])
  BY <1>1 DEF Rows
<1>5. RecordsIn(tb, ts) = FlattenSeq(b) /\ RecordsIn(tb, us) = FlattenSeq(c)
  BY <1>1, RecordsType
<1>6. /\ Append(b, x) \in BitSeqs /\ Len(Append(b, x)) = Len(b) + 1
      /\ Append(b, x)[Len(b) + 1] = x /\ \A i \in 1..Len(b) : Append(b, x)[i] = b[i]
  BY <1>2, AppendProperties DEF BitSeqs
<1>7. c[Len(ts) + 1] = x /\ \A i \in 1..Len(ts) : c[i] = b[i]
  <2>1. Len(ts) + 1 \in 1..Len(us) /\ \A i \in 1..Len(ts) : i \in 1..Len(us)
    BY <1>1
  <2> QED
    BY <1>1, <1>3, <1>4, <2>1
<1> HIDE DEF us, b, c, x
<1>8. \A i \in 1 .. Len(ts) + 1 : c[i] = Append(b, x)[i]
  <2>1. \A i \in 1 .. Len(ts) + 1 : i = Len(ts) + 1 \/ i \in 1..Len(ts)
    BY <1>1
  <2> QED
    BY <1>3, <1>6, <1>7, <2>1
<1>9. c = Append(b, x)
  BY <1>1, <1>2, <1>3, <1>4, <1>6, <1>8, SeqEqual DEF BitSeqs
<1>10. FlattenSeq(c) = FlattenSeq(b) \o x
  BY <1>2, <1>9, FlattenAppend
<1> QED
  BY <1>5, <1>10 DEF us, x

\* The records of the ticks from the k-th on.
LEMMA RecordsFrom ==
  ASSUME TicksFit, NEW tb, NEW ts \in Seq(Known(tb)), NEW k \in 1..Len(ts)
  PROVE  /\ SubSeq(ts, k + 1, Len(ts)) \in Seq(Known(tb))
         /\ RecordsIn(tb, SubSeq(ts, k, Len(ts))) =
              RecordIn(tb, ts[k]) \o RecordsIn(tb, SubSeq(ts, k + 1, Len(ts)))
<1> DEFINE n == Len(ts)
           us == SubSeq(ts, k, n)
           vs == SubSeq(ts, k + 1, n)
           b == Rows(tb, us)
           t == Rows(tb, vs)
<1>1. /\ us \in Seq(Known(tb)) /\ Len(us) = n - k + 1
      /\ \A i \in 1 .. n - k + 1 : us[i] = ts[k + i - 1]
  BY SubSeqProperties
<1>2. /\ vs \in Seq(Known(tb)) /\ Len(vs) = n - k
      /\ \A i \in 1 .. n - k : vs[i] = ts[k + i]
  <2> DEFINE m == k + 1
  <2>1. m \in Int /\ n \in Int /\ k \in 1..n /\ \A i \in m..n : ts[i] \in Known(tb)
    OBVIOUS
  <2>2. m - 1 = k /\ (m <= n <=> k < n)
    BY <2>1
  <2>3. /\ vs \in Seq(Known(tb)) /\ Len(vs) = IF m <= n THEN n - m + 1 ELSE 0
        /\ \A i \in 1 .. n - m + 1 : vs[i] = ts[m + i - 1]
    <3> HIDE DEF n
    <3>1. vs = SubSeq(ts, m, n)
      OBVIOUS
    <3> HIDE DEF vs, m
    <3> QED
      BY <2>1, <3>1, SubSeqProperties
  <2> HIDE DEF vs, m, n
  <2>4. n - m + 1 = n - k /\ (k >= n => n - k = 0)
    BY <2>1, <2>2
  <2>5. \A i \in 1 .. n - k : m + i - 1 = k + i
    BY <2>1, <2>2
  <2>6. Len(vs) = n - k
    BY <2>1, <2>2, <2>3, <2>4
  <2> QED
    BY <2>3, <2>4, <2>5, <2>6
<1>3. b \in BitSeqs /\ t \in BitSeqs
  BY <1>1, <1>2, RecordsType
<1>4. Len(b) = Len(us) /\ \A i \in 1..Len(us) : b[i] = RecordIn(tb, us[i])
  BY <1>1 DEF Rows
<1>5. Len(t) = Len(vs) /\ \A i \in 1..Len(vs) : t[i] = RecordIn(tb, vs[i])
  BY <1>2 DEF Rows
<1>6. RecordsIn(tb, us) = FlattenSeq(b) /\ RecordsIn(tb, vs) = FlattenSeq(t)
  BY <1>1, <1>2, RecordsType
<1>7. n \in Nat
  OBVIOUS
<1> HIDE DEF n, us, vs, b, t
<1>8. Len(b) # 0 /\ Len(t) = Len(b) - 1 /\ b[1] = RecordIn(tb, ts[k])
  <2>1. 1 \in 1..Len(us) /\ 1 \in 1 .. n - k + 1 /\ k + 1 - 1 = k
    BY <1>1, <1>7 DEF n
  <2> QED
    BY <1>1, <1>2, <1>4, <1>5, <1>7, <2>1
<1>9. ASSUME NEW i \in 1 .. Len(b) - 1 PROVE t[i] = b[i + 1]
  <2>1. /\ i \in 1..Len(vs) /\ i + 1 \in 1..Len(us)
        /\ i \in 1 .. n - k /\ i + 1 \in 1 .. n - k + 1 /\ k + (i + 1) - 1 = k + i
    BY <1>1, <1>2, <1>4, <1>5, <1>7
  <2>2. t[i] = RecordIn(tb, vs[i]) /\ vs[i] = ts[k + i]
    BY <1>2, <1>5, <2>1
  <2>3. b[i + 1] = RecordIn(tb, us[i + 1]) /\ us[i + 1] = ts[k + (i + 1) - 1]
    BY <1>1, <1>4, <2>1
  <2> QED
    BY <2>1, <2>2, <2>3
<1>10. FlattenSeq(b) = b[1] \o FlattenSeq(t)
  BY <1>3, <1>8, <1>9, FlattenFirst
<1> QED
  BY <1>2, <1>6, <1>8, <1>10 DEF n, us, vs

\* Adding to the table changes no record that is written.
LEMMA RecordsKept ==
  ASSUME NEW tb, NEW ub, NEW ts \in Seq(Known(tb)),
         \A i \in 1..Len(ts) : ub[ts[i].ticker] = tb[ts[i].ticker]
  PROVE  ts \in Seq(Known(ub)) /\ RecordsIn(ub, ts) = RecordsIn(tb, ts)
<1>1. DOMAIN ts = 1..Len(ts) /\ \A i \in 1..Len(ts) : ts[i] \in Known(tb)
  OBVIOUS
<1>2. \A i \in 1..Len(ts) : ts[i] \in Known(ub) /\ RecordIn(ub, ts[i]) = RecordIn(tb, ts[i])
  BY <1>1 DEF Known, Fits, RecordIn
<1>3. Rows(ub, ts) = Rows(tb, ts)
  BY <1>1, <1>2 DEF Rows
<1>4. ts \in Seq(Known(ub))
  BY <1>1, <1>2
<1> QED
  BY <1>3, <1>4 DEF RecordsIn, Rows

-----------------------------------------------------------------------------
(* Sequences of bits taken apart.                                          *)

\* Equal sequences have equal beginnings of the same length, and equal rests.
LEMMA Cancel ==
  ASSUME NEW a \in Seq(Bit), NEW b \in Seq(Bit), NEW x \in Seq(Bit), NEW y \in Seq(Bit),
         Len(a) = Len(b), a \o x = b \o y
  PROVE  a = b /\ x = y
<1>1. \A s, t \in Seq(Bit) : /\ SubSeq(s \o t, 1, Len(s)) = s
                             /\ SubSeq(s \o t, Len(s) + 1, Len(s \o t)) = t
  BY Packed!TakeFront, PackedAssumptions DEF Bit
<1>2. a = SubSeq(a \o x, 1, Len(a)) /\ x = SubSeq(a \o x, Len(a) + 1, Len(a \o x))
  BY <1>1
<1>3. b = SubSeq(b \o y, 1, Len(b)) /\ y = SubSeq(b \o y, Len(b) + 1, Len(b \o y))
  BY <1>1
<1> QED
  BY <1>2, <1>3

\* A Read of a field whose value the stream begins with fetches that value.
LEMMA ReadValue ==
  ASSUME Packed!Inv, NEW c \in Call, Bits!Read(c[2]), NEW rest \in Seq(Bit),
         Stream = FieldBits(c[1], c[2]) \o rest
  PROVE  /\ Packed!Inv' /\ mode = "READ_MODE" /\ mode' = mode
         /\ reg' = c[1]
         /\ Stream' = rest
<1> DEFINE n == c[2]
<1>1. n \in 1..BUFFER_CAPACITY /\ n \in Nat /\ c[1] \in SUBSET (0 .. n - 1)
  BY CallType
<1>2. /\ Packed!Inv' /\ mode = "READ_MODE" /\ mode' = mode
      /\ reg' \in SUBSET (0 .. n - 1)
      /\ Stream = FieldBits(reg', n) \o Stream'
  BY <1>1, ReadBits
<1>3. Stream' \in Seq(Bit)
  BY <1>2, StreamTypePrimed
<1>4. /\ FieldBits(reg', n) \in Seq(Bit) /\ FieldBits(c[1], n) \in Seq(Bit)
      /\ Len(FieldBits(reg', n)) = Len(FieldBits(c[1], n))
  BY <1>1, BitTypes
<1>5. FieldBits(reg', n) = FieldBits(c[1], n) /\ Stream' = rest
  <2> DEFINE a == FieldBits(reg', n)
             b == FieldBits(c[1], n)
             x == Stream'
  <2>1. /\ a \in Seq(Bit) /\ b \in Seq(Bit) /\ x \in Seq(Bit)
        /\ Len(a) = Len(b) /\ a \o x = b \o rest
    BY <1>2, <1>3, <1>4
  <2> HIDE DEF a, b, x
  <2>2. a = b /\ x = rest
    BY <2>1, Cancel
  <2> QED
    BY <2>2 DEF a, b, x
<1>6. \A v \in SUBSET (0 .. n - 1) : Packed!ValueOf(FieldBits(v, n)) = v
  BY <1>1, Packed!ValueBits, PackedAssumptions, SameBits
<1>7. reg' = c[1]
  BY <1>1, <1>2, <1>5, <1>6
<1> QED
  BY <1>2, <1>5, <1>7

\* Unread bits that are less than a word and all zeros are of an empty buffer.
LEMMA OnlyPadding ==
  ASSUME NEW p \in Seq(Word), NEW b \in Word, NEW size \in 0..BUFFER_CAPACITY,
         \A x \in b : x >= BUFFER_CAPACITY - size,
         NEW n \in 0 .. BUFFER_CAPACITY - 1,
         Bits!HighBits(b, size) \o PacketBits(p) = FieldBits({}, n)
  PROVE  p = << >> /\ b = {}
<1>1. /\ BUFFER_CAPACITY \in Nat \ {0} /\ size \in Nat /\ n \in Nat /\ n < BUFFER_CAPACITY
  BY SizesAssumption
<1>2. /\ Bits!HighBits(b, size) \in Seq(Bit) /\ Len(Bits!HighBits(b, size)) = size
      /\ FieldBits({}, n) \in Seq(Bit) /\ Len(FieldBits({}, n)) = n
      /\ PacketBits(p) \in Seq(Bit) /\ Len(PacketBits(p)) = BUFFER_CAPACITY * Len(p)
  <2>1. Bits!HighBits(b, size) \in Seq(Bit) /\ Len(Bits!HighBits(b, size)) = size
    BY <1>1, Packed!HighBitsBits, PackedAssumptions, SameBits DEF Bit
  <2> QED
    BY <1>1, <2>1, BitTypes
<1>3. size + BUFFER_CAPACITY * Len(p) = n
  BY <1>2
<1>4. p = << >>
  <2>1. Len(p) \in Nat
    OBVIOUS
  <2>2. Len(p) >= 1 => BUFFER_CAPACITY * Len(p) >= BUFFER_CAPACITY
    BY <1>1, <2>1
  <2>3. BUFFER_CAPACITY * Len(p) \in Nat
    BY <1>1, <2>1
  <2>4. Len(p) = 0
    BY <1>1, <1>3, <2>1, <2>2, <2>3
  <2> QED
    BY <2>4
<1>5. PacketBits(p) = << >>
  BY <1>4, Packed!NoPacketBits, PackedAssumptions, SameBits DEF PacketBits
<1>6. Bits!HighBits(b, size) = FieldBits({}, n) /\ size = n
  BY <1>2, <1>5, ConcatEmptySeq
<1>7. \A i \in 1..size : ~FieldBits({}, n)[i]
  BY <1>6 DEF FieldBits, Bits!Queue!FieldBits
<1>8. b \in Packed!Word
  BY SameBits DEF Word
<1>9. b # {} <=> \E i \in 1..size : Bits!HighBits(b, size)[i]
  BY <1>8, Packed!OnesAreData, PackedAssumptions, SameBits
<1> QED
  BY <1>4, <1>6, <1>7, <1>9

-----------------------------------------------------------------------------
(* The inductive invariant.                                                *)

\* s is r with less than a word of zeros appended.
Padded(s, r) == \E n \in 0 .. BUFFER_CAPACITY - 1 : s = r \o FieldBits({}, n)

\* The Write calls of the tick that is being read.
CallsOfNext ==
  LET md == ticks[Len(inflated) + 1] IN CallsOf(md, table[md.ticker])

\* The bits of what is not read yet: the rest of its fields, and the other records.
Unread ==
  CallBits(SubSeq(CallsOfNext, Len(fields) + 1, 11))
    \o RecordsIn(table, SubSeq(ticks, Len(inflated) + 2, Len(ticks)))

\* The parts of the program, each by itself.
PartsInv ==
  /\ Packed!Inv
  /\ Numbers!Numbered
  /\ file \in Seq(Word)
  /\ pending \in Seq(Call) /\ Len(pending) <= 11
  /\ fields \in Seq(Word) /\ Len(fields) < 11
  /\ ticks \in Seq(Known(table))
  /\ \A i \in 1..Len(ticks) : ticks[i].ticker \in DOMAIN table
  /\ inflated \in Seq(Ticks)
  /\ phase \in {"compress", "flushed", "saved", "inflate", "done"}
  /\ phase # "compress" \/ ticks = << >> => pending = << >>
  /\ phase \in {"compress", "flushed", "saved"} => fields = << >> /\ inflated = << >>

\* What is packed so far: the records, in whole words after the last one.
PackedInv ==
  /\ phase = "compress" =>
       /\ mode = "WRITE_MODE"
       /\ PacketBits(file) \o Stream \o CallBits(pending) = RecordsIn(table, ticks)
  /\ phase = "flushed" =>
       /\ mode = "WRITE_MODE" /\ buffer_size = BUFFER_CAPACITY
       /\ Padded(PacketBits(file) \o Stream, RecordsIn(table, ticks))
  /\ phase = "saved" => Padded(PacketBits(file), RecordsIn(table, ticks))

\* What is read so far is what was written, and the buffer has the rest of it.
UnpackedInv ==
  /\ phase = "inflate" =>
       /\ mode = "READ_MODE"
       /\ Len(inflated) < Len(ticks)
       /\ \A i \in 1..Len(inflated) : inflated[i] = ticks[i]
       /\ \A i \in 1..Len(fields) : fields[i] = CallsOfNext[i][1]
       /\ Padded(Stream, Unread)
  /\ phase = "done" => inflated = ticks

IInv == TicksFit /\ PartsInv /\ PackedInv /\ UnpackedInv

\* A step that leaves the bit buffer alone leaves its bits alone.
LEMMA WordsKept ==
  ASSUME Packed!Inv, UNCHANGED word_vars
  PROVE  Packed!Inv' /\ Stream' = Stream /\ mode' = mode /\ buffer_size' = buffer_size
<1>1. UNCHANGED <<packet, mode, buffer, buffer_size, reg>>
  BY DEF word_vars
<1>2. Packed!Inv'
  BY <1>1 DEF Packed!Inv, Packed!TypeOK, Packed!SpareBitsClear
<1>3. Stream' = Stream
  BY <1>1 DEF Stream, Bits!Stream
<1> QED
  BY <1>1, <1>2, <1>3

\* A step that leaves the table alone leaves its numbers alone.
LEMMA NumbersKept ==
  ASSUME Numbers!Numbered, UNCHANGED <<table, index>>
  PROVE  Numbers!Numbered'
BY DEF Numbers!Numbered, Numbers!Count

\* The number of any ticker of the table, after a step too.
LEMMA NumbersInRange ==
  Numbers!Numbered => (TicksFit => \A s \in DOMAIN table : table[s] \in 0 .. Power[TICKER_SIZE] - 1)
BY NumberFits

\* The same after a step.
LEMMA NumbersInRangePrimed ==
  (Numbers!Numbered => (TicksFit => \A s \in DOMAIN table : table[s] \in 0 .. Power[TICKER_SIZE] - 1))'
BY NumbersInRange, PTL

\* Nothing packed is no bits, and no bits add nothing.
LEMMA NoBits ==
  /\ PacketBits(<< >>) = << >> /\ CallBits(<< >>) = << >> /\ << >> \in Seq(Word)
  /\ \A s \in Seq(Bit) : s \o << >> = s /\ << >> \o s = s
<1>1. PacketBits(<< >>) = << >>
  BY Packed!NoPacketBits, PackedAssumptions, SameBits DEF PacketBits
<1> QED
  BY <1>1, NoCallBits, ConcatEmptySeq

\* A flushed buffer has its bits in the packet.
LEMMA StreamInPacket ==
  ASSUME packet \in Seq(Word), mode = "WRITE_MODE", buffer_size = BUFFER_CAPACITY
  PROVE  Stream = PacketBits(packet)
<1>1. Stream = PacketBits(packet) \o Bits!HighBits(buffer, BUFFER_CAPACITY - BUFFER_CAPACITY)
  BY DEF Stream, Bits!Stream, PacketBits
<1> QED
  BY <1>1, FlushedStream

\* The words of the packet and of the buffer.
LEMMA PacketType ==
  ASSUME Packed!Inv
  PROVE  packet \in Seq(Word) /\ buffer \in Word /\ buffer_size \in 0..BUFFER_CAPACITY
BY SameBits DEF Packed!Inv, Packed!TypeOK, Word

\* The invariant holds at the start.
LEMMA InitIInv == TicksFit /\ Init => IInv
<1> SUFFICES ASSUME TicksFit, Init PROVE IInv
  OBVIOUS
<1>1. Packed!Inv
  <2>1. Packed!Init
    BY SameOperations DEF Init
  <2> QED
    BY <2>1, Packed!InitInv, PackedAssumptions
<1>2. Numbers!Numbered
  <2>1. DOMAIN table = {} /\ index = 0 /\ table = [s \in {} |-> 0]
    BY DEF Init, Table!NewTable, Table!EmptyTable
  <2>2. Numbers!Count = 0
    BY <2>1, FS_EmptySet DEF Numbers!Count, Numbers!Cardinality, Cardinality
  <2>3. 0 % Power[INDEX_BITS] = 0
    <3>1. Power[INDEX_BITS] \in Nat \ {0}
      BY PowerSteps, SizesAssumption
    <3> QED
      BY <3>1
  <2> QED
    BY <2>1, <2>2, <2>3 DEF Numbers!Numbered
<1>3. PartsInv
  BY <1>1, <1>2 DEF Init, PartsInv
<1>4. PacketBits(file) \o Stream \o CallBits(pending) = RecordsIn(table, ticks)
  <2>1. Stream = PacketBits(packet)
    BY <1>1, PacketType, StreamInPacket DEF Init, Bits!Init
  <2>2. packet = << >> /\ file = << >> /\ pending = << >> /\ ticks = << >>
    BY DEF Init, Bits!Init
  <2>3. << >> \o << >> \o << >> = << >>
    OBVIOUS
  <2> QED
    BY <2>1, <2>2, <2>3, NoBits, NoRecords
<1>5. mode = "WRITE_MODE" /\ phase = "compress"
  BY DEF Init, Bits!Init
<1> QED
  BY <1>3, <1>4, <1>5 DEF IInv, PackedInv, UnpackedInv

\* The records, with those of the ticks of the table as it was, and one more.
LEMMA RecordAdded ==
  ASSUME IInv, NEW md \in Ticks, Table!Insert(md.ticker), ticks' = Append(ticks, md)
  PROVE  /\ Numbers!Numbered'
         /\ ticks' \in Seq(Known(table'))
         /\ \A i \in 1..Len(ticks') : ticks'[i].ticker \in DOMAIN table'
         /\ md \in Known(table')
         /\ table'[md.ticker] = Table!NumberOf(md.ticker)
         /\ RecordsIn(table', ticks') = RecordsIn(table, ticks) \o RecordIn(table', md)
<1> USE DEF IInv
<1>1. TicksFit /\ PartsInv /\ md.ticker \in Tickers
  BY DEF Tickers
<1>2. Numbers!Numbered /\ ticks \in Seq(Known(table))
      /\ \A i \in 1..Len(ticks) : ticks[i].ticker \in DOMAIN table
  BY <1>1 DEF PartsInv
<1>3. /\ Numbers!Numbered'
      /\ \A t \in DOMAIN table : t \in DOMAIN table' /\ table'[t] = table[t]
      /\ md.ticker \in DOMAIN table'
      /\ table'[md.ticker] = Table!NumberOf(md.ticker)
  BY <1>1, <1>2, TableInsert
<1>4. table'[md.ticker] \in 0 .. Power[TICKER_SIZE] - 1
  <2>1. TicksFit'
    BY <1>1 DEF TicksFit, Tickers
  <2> QED
    BY <1>3, <2>1, NumbersInRangePrimed
<1>5. md \in Known(table')
  BY <1>4 DEF Known, Fits
<1>6. ticks \in Seq(Known(table')) /\ RecordsIn(table', ticks) = RecordsIn(table, ticks)
  BY <1>2, <1>3, RecordsKept
<1>7. /\ ticks' \in Seq(Known(table')) /\ Len(ticks') = Len(ticks) + 1
      /\ ticks'[Len(ticks) + 1] = md /\ \A i \in 1..Len(ticks) : ticks'[i] = ticks[i]
  BY <1>5, <1>6, AppendProperties
<1>8. \A i \in 1..Len(ticks') : ticks'[i].ticker \in DOMAIN table'
  <2>1. Len(ticks) \in Nat
    BY <1>2
  <2>2. ASSUME NEW i \in 1..Len(ticks') PROVE i \in 1..Len(ticks) \/ i = Len(ticks) + 1
    BY <1>7, <2>1
  <2> QED
    BY <1>2, <1>3, <1>7, <2>2
<1>9. RecordsIn(table', ticks') = RecordsIn(table', ticks) \o RecordIn(table', md)
  BY <1>1, <1>5, <1>6, RecordsAppend
<1> QED
  BY <1>3, <1>5, <1>6, <1>7, <1>8, <1>9

\* Compress queues the calls of its tick, whose bits are the new record.
LEMMA CompressIInv ==
  ASSUME IInv, NEW md \in Ticks, Compress(md)
  PROVE  IInv'
<1>1. /\ phase = "compress" /\ phase' = "compress" /\ pending = << >>
      /\ Table!Insert(md.ticker)
      /\ pending' = CallsOf(md, Table!NumberOf(md.ticker))
      /\ ticks' = Append(ticks, md)
      /\ UNCHANGED <<word_vars, file, fields, inflated>>
  <2>1. md.side \in DOMAIN SideCode
    BY TickType DEF IInv, SideCode
  <2>2. SideCodes(md.side) = {SideCode[md.side]}
    BY <2>1 DEF SideCodes
  <2> QED
    BY <2>2 DEF Compress, CallsOf, ValuesOf
<1>2. TicksFit /\ PartsInv /\ PackedInv
  BY DEF IInv
<1>3. /\ Numbers!Numbered'
      /\ ticks' \in Seq(Known(table'))
      /\ \A i \in 1..Len(ticks') : ticks'[i].ticker \in DOMAIN table'
      /\ md \in Known(table')
      /\ table'[md.ticker] = Table!NumberOf(md.ticker)
      /\ RecordsIn(table', ticks') = RecordsIn(table, ticks) \o RecordIn(table', md)
  BY <1>1, RecordAdded
<1>4. Packed!Inv' /\ Stream' = Stream /\ mode' = mode
  BY <1>1, <1>2, WordsKept DEF PartsInv
<1>5. pending' \in Seq(Call) /\ Len(pending') = 11 /\ CallBits(pending') = RecordIn(table', md)
  BY <1>1, <1>2, <1>3, RecordType, Layout DEF RecordIn
<1>6. PartsInv'
  <2>1. ticks \in Seq(Known(table)) /\ ticks' \in Seq(Known(table'))
    BY <1>2, <1>3 DEF PartsInv
  <2>2. Len(ticks') = Len(ticks) + 1 /\ Len(ticks) \in Nat
    BY <1>1, <2>1
  <2>3. ticks' # << >>
    BY <2>2
  <2>4. /\ file' \in Seq(Word)
        /\ fields' \in Seq(Word) /\ Len(fields') < 11 /\ fields' = << >>
        /\ inflated' \in Seq(Ticks) /\ inflated' = << >>
    BY <1>1, <1>2 DEF PartsInv
  <2>5. pending' \in Seq(Call) /\ Len(pending') <= 11
    BY <1>5
  <2>6. /\ phase' \in {"compress", "flushed", "saved", "inflate", "done"}
        /\ ~(phase' # "compress" \/ ticks' = << >>)
    BY <1>1, <2>3
  <2>7. \A i \in 1..Len(ticks') : ticks'[i].ticker \in DOMAIN table'
    BY <1>3
  <2> QED
    BY <1>3, <1>4, <2>1, <2>4, <2>5, <2>6, <2>7, Zenon DEF PartsInv
<1>7. PacketBits(file') \o Stream' \o CallBits(pending') = RecordsIn(table', ticks')
  <2> DEFINE f == PacketBits(file)
             r == RecordIn(table', md)
  <2>1. f \in Seq(Bit) /\ Stream \in Seq(Bit)
    BY <1>2, BitTypes, StreamType DEF PartsInv
  <2>2. f \o Stream \o CallBits(<< >>) = RecordsIn(table, ticks) /\ mode = "WRITE_MODE"
    BY <1>1, <1>2 DEF PackedInv
  <2>3. f \o Stream \in Seq(Bit)
    BY <2>1, ConcatProperties
  <2>4. f \o Stream = RecordsIn(table, ticks)
    BY <2>2, <2>3, NoBits
  <2>5. file' = file
    BY <1>1
  <2> QED
    BY <1>3, <1>4, <1>5, <2>4, <2>5
<1>8. mode' = "WRITE_MODE"
  BY <1>1, <1>2, <1>4 DEF PackedInv
<1>9. PackedInv' /\ UnpackedInv'
  BY <1>1, <1>7, <1>8 DEF PackedInv, UnpackedInv
<1>10. TicksFit'
  BY <1>2 DEF TicksFit, Tickers
<1> QED
  BY <1>6, <1>9, <1>10 DEF IInv

\* The assertion on the side never fails: every tick has one of the three.
LEMMA SideAsserted ==
  ASSUME IInv
  PROVE  ~AssertSide
<1>1. SUFFICES ASSUME AssertSide PROVE FALSE
  OBVIOUS
<1>2. TicksFit /\ ticks \in Seq(Ticks)
  BY DEF IInv, PartsInv, Known
<1>3. ticks # << >>
  <2>1. Len(pending) = 9
    BY <1>1 DEF AssertSide, NumFields, FieldSizes
  <2>2. ticks = << >> => pending = << >>
    BY DEF IInv, PartsInv
  <2> QED
    BY <2>1, <2>2
<1>4. Last(ticks) \in Ticks
  BY <1>2, <1>3 DEF Last
<1>5. Last(ticks).side \in DOMAIN SideCode
  BY <1>2, <1>4, TickType DEF SideCode
<1> QED
  BY <1>1, <1>5 DEF AssertSide

\* Write moves the bits of the first call that waits into the buffer.
LEMMA WriteFieldIInv ==
  ASSUME IInv, WriteField
  PROVE  IInv'
<1>1. /\ pending # << >>
      /\ Bits!Write(pending[1][1], pending[1][2])
      /\ pending' = Tail(pending)
      /\ UNCHANGED <<table, index, file, fields, ticks, inflated, phase>>
  BY DEF WriteField
<1>2. TicksFit /\ PartsInv /\ PackedInv
  BY DEF IInv
<1>3. phase = "compress"
  BY <1>1, <1>2 DEF PartsInv
<1>4. /\ pending \in Seq(Call) /\ pending[1] \in Call /\ pending' \in Seq(Call)
      /\ Len(pending') <= 11
  <2>1. pending \in Seq(Call) /\ Len(pending) <= 11
    BY <1>2 DEF PartsInv
  <2> QED
    BY <1>1, <2>1
<1>5. /\ Packed!Inv'
      /\ mode' = mode
      /\ Stream' = Stream \o FieldBits(pending[1][1], pending[1][2])
  BY <1>1, <1>2, <1>4, CallType, WriteBits DEF PartsInv
<1>6. Numbers!Numbered'
  BY <1>1, <1>2, NumbersKept DEF PartsInv
<1>7. PartsInv'
  BY <1>1, <1>2, <1>3, <1>4, <1>5, <1>6 DEF PartsInv
<1>8. PacketBits(file') \o Stream' \o CallBits(pending') = RecordsIn(table', ticks')
  <2> DEFINE f == PacketBits(file)
             b == FieldBits(pending[1][1], pending[1][2])
             c == CallBits(Tail(pending))
             s == Stream
  <2>1. f \in Seq(Bit) /\ s \in Seq(Bit) /\ b \in Seq(Bit) /\ c \in Seq(Bit)
    BY <1>1, <1>2, <1>4, BitTypes, StreamType, CallType, BitsOfCalls DEF PartsInv
  <2>2. (f \o s) \o CallBits(pending) = RecordsIn(table, ticks)
    BY <1>2, <1>3 DEF PackedInv
  <2>3. CallBits(pending) = b \o c
    BY <1>1, <1>4, CallBitsTail
  <2>4. Stream' = s \o b /\ CallBits(pending') = c /\ PacketBits(file') = f
        /\ RecordsIn(table', ticks') = RecordsIn(table, ticks)
    BY <1>1, <1>5
  <2> HIDE DEF f, s, b, c
  <2>5. (f \o s) \o (b \o c) = ((f \o s) \o b) \o c
    <3>1. f \o s \in Seq(Bit)
      BY <2>1, ConcatProperties
    <3> QED
      BY <2>1, <3>1, Associative
  <2>6. (f \o s) \o b = f \o (s \o b)
    BY <2>1, Associative
  <2> QED
    BY <2>2, <2>3, <2>4, <2>5, <2>6
<1>9. mode' = "WRITE_MODE"
  BY <1>2, <1>3, <1>5 DEF PackedInv
<1>10. PackedInv' /\ UnpackedInv'
  BY <1>1, <1>3, <1>8, <1>9 DEF PackedInv, UnpackedInv
<1>11. TicksFit'
  BY <1>2 DEF TicksFit, Tickers
<1> QED
  BY <1>7, <1>10, <1>11 DEF IInv

\* The words of the packet go behind those of the file, and the bits stay in order.
LEMMA Streamed ==
  ASSUME Packed!Inv, file \in Seq(Word), mode = "WRITE_MODE",
         file' = file \o packet, packet' = << >>,
         UNCHANGED <<mode, buffer, buffer_size, reg>>
  PROVE  /\ Packed!Inv' /\ file' \in Seq(Word)
         /\ PacketBits(file') \o Stream' = PacketBits(file) \o Stream
<1>1. packet \in Seq(Word) /\ buffer \in Word
  BY PacketType
<1>2. Packed!Inv'
  BY DEF Packed!Inv, Packed!TypeOK, Packed!SpareBitsClear
<1>3. file' \in Seq(Word)
  BY <1>1, ConcatProperties
<1> DEFINE h == Bits!HighBits(buffer, BUFFER_CAPACITY - buffer_size)
           f == PacketBits(file)
           p == PacketBits(packet)
<1>4. Stream = p \o h
  BY DEF Stream, Bits!Stream, PacketBits
<1>5. Stream' = PacketBits(<< >>) \o h
  BY DEF Stream, Bits!Stream, PacketBits
<1>6. PacketBits(file') = f \o p
  BY <1>1, PacketBitsConcat
<1>7. f \in Seq(Bit) /\ p \in Seq(Bit) /\ h \in Seq(Bit)
  <2>1. BUFFER_CAPACITY - buffer_size \in Nat
    BY PacketType, SizesAssumption
  <2>2. h \in Seq(Bit)
    BY <2>1, Packed!HighBitsBits, PackedAssumptions, SameBits DEF Bit
  <2> QED
    BY <1>1, <2>2, BitTypes
<1> HIDE DEF f, p, h
<1>8. (f \o p) \o h = f \o (p \o h)
  BY <1>7, Associative
<1>9. Stream' = h
  BY <1>5, <1>7, NoBits
<1> QED
  BY <1>2, <1>3, <1>4, <1>6, <1>8, <1>9 DEF f, p, h

\* Streaming moves words from the packet to the file.
LEMMA WriteStreamIInv ==
  ASSUME IInv, WriteStream
  PROVE  IInv'
<1>1. /\ phase = "compress" /\ pending = << >>
      /\ file' = file \o packet /\ packet' = << >>
      /\ UNCHANGED <<mode, buffer, buffer_size, reg, table, index, pending, fields,
                     ticks, inflated, phase>>
  BY DEF WriteStream
<1>2. TicksFit /\ PartsInv /\ PackedInv
  BY DEF IInv
<1>3. mode = "WRITE_MODE"
      /\ PacketBits(file) \o Stream \o CallBits(pending) = RecordsIn(table, ticks)
  BY <1>1, <1>2 DEF PackedInv
<1>4. /\ Packed!Inv' /\ file' \in Seq(Word)
      /\ PacketBits(file') \o Stream' = PacketBits(file) \o Stream
  BY <1>1, <1>2, <1>3, Streamed DEF PartsInv
<1>5. Numbers!Numbered'
  BY <1>1, <1>2, NumbersKept DEF PartsInv
<1>6. PartsInv'
  BY <1>1, <1>2, <1>4, <1>5 DEF PartsInv
<1>7. PackedInv' /\ UnpackedInv'
  BY <1>1, <1>3, <1>4 DEF PackedInv, UnpackedInv
<1>8. TicksFit'
  BY <1>2 DEF TicksFit, Tickers
<1> QED
  BY <1>6, <1>7, <1>8 DEF IInv

\* The flush at the end of the input pads the last record.
LEMMA CompressEofIInv ==
  ASSUME IInv, CompressEof
  PROVE  IInv'
<1>1. /\ phase = "compress" /\ pending = << >> /\ phase' = "flushed"
      /\ IF buffer_size = BUFFER_CAPACITY THEN UNCHANGED word_vars ELSE Bits!Flush
      /\ UNCHANGED <<table, index, pending, file, fields, ticks, inflated>>
  BY DEF CompressEof
<1>2. TicksFit /\ PartsInv /\ PackedInv
  BY DEF IInv
<1>3. mode = "WRITE_MODE"
      /\ PacketBits(file) \o Stream \o CallBits(pending) = RecordsIn(table, ticks)
  BY <1>1, <1>2 DEF PackedInv
<1>4. /\ Packed!Inv' /\ mode' = mode /\ buffer_size' = BUFFER_CAPACITY
      /\ \E n \in 0 .. BUFFER_CAPACITY - 1 : Stream' = Stream \o FieldBits({}, n)
  BY <1>1, <1>2, <1>3, FlushBits DEF PartsInv
<1>5. Numbers!Numbered'
  BY <1>1, <1>2, NumbersKept DEF PartsInv
<1>6. PartsInv'
  BY <1>1, <1>2, <1>4, <1>5 DEF PartsInv
<1>7. Padded(PacketBits(file') \o Stream', RecordsIn(table', ticks'))
  <2>1. PICK n \in 0 .. BUFFER_CAPACITY - 1 : Stream' = Stream \o FieldBits({}, n)
    BY <1>4
  <2> DEFINE f == PacketBits(file)
             s == Stream
             z == FieldBits({}, n)
  <2>2. f \in Seq(Bit) /\ s \in Seq(Bit) /\ z \in Seq(Bit)
    <3>1. Packed!Inv /\ file \in Seq(Word)
      BY <1>2 DEF PartsInv
    <3>2. n \in Nat
      BY SizesAssumption
    <3> QED
      BY <3>1, <3>2, BitTypes, StreamType
  <2>3. f \o s = RecordsIn(table, ticks)
    <3>1. f \o s \in Seq(Bit)
      BY <2>2, ConcatProperties
    <3>2. f \o s \o CallBits(<< >>) = RecordsIn(table, ticks)
      BY <1>1, <1>3
    <3> QED
      BY <3>1, <3>2, NoBits
  <2>4. f \o (s \o z) = (f \o s) \o z
    BY <2>2, Associative
  <2>5. PacketBits(file') = f /\ RecordsIn(table', ticks') = RecordsIn(table, ticks)
    BY <1>1
  <2>6. PacketBits(file') \o Stream' = RecordsIn(table', ticks') \o FieldBits({}, n)
    BY <2>1, <2>3, <2>4, <2>5
  <2> QED
    BY <2>6 DEF Padded
<1>8. PackedInv' /\ UnpackedInv'
  BY <1>1, <1>3, <1>4, <1>7 DEF PackedInv, UnpackedInv
<1>9. TicksFit'
  BY <1>2 DEF TicksFit, Tickers
<1> QED
  BY <1>6, <1>8, <1>9 DEF IInv

\* Closing the stream leaves nothing in the packet.
LEMMA CloseWriteStreamIInv ==
  ASSUME IInv, CloseWriteStream
  PROVE  IInv'
<1>1. /\ phase = "flushed" /\ phase' = "saved"
      /\ file' = file \o packet /\ packet' = << >>
      /\ UNCHANGED <<mode, buffer, buffer_size, reg, table, index, pending, fields,
                     ticks, inflated>>
  BY DEF CloseWriteStream
<1>2. TicksFit /\ PartsInv /\ PackedInv
  BY DEF IInv
<1>3. /\ mode = "WRITE_MODE" /\ buffer_size = BUFFER_CAPACITY
      /\ Padded(PacketBits(file) \o Stream, RecordsIn(table, ticks))
  BY <1>1, <1>2 DEF PackedInv
<1>4. /\ Packed!Inv' /\ file' \in Seq(Word)
      /\ PacketBits(file') \o Stream' = PacketBits(file) \o Stream
  BY <1>1, <1>2, <1>3, Streamed DEF PartsInv
<1>5. Numbers!Numbered'
  BY <1>1, <1>2, NumbersKept DEF PartsInv
<1>6. PartsInv'
  BY <1>1, <1>2, <1>4, <1>5 DEF PartsInv
<1>7. Padded(PacketBits(file'), RecordsIn(table', ticks'))
  <2>1. packet \in Seq(Word)
    BY <1>2, PacketType DEF PartsInv
  <2>2. PacketBits(file') = PacketBits(file) \o Stream
    BY <1>1, <1>2, <1>3, <2>1, StreamInPacket, PacketBitsConcat DEF PartsInv
  <2>3. RecordsIn(table', ticks') = RecordsIn(table, ticks)
    BY <1>1
  <2> QED
    BY <1>3, <2>2, <2>3
<1>8. PackedInv' /\ UnpackedInv'
  BY <1>1, <1>7 DEF PackedInv, UnpackedInv
<1>9. TicksFit'
  BY <1>2 DEF TicksFit, Tickers
<1> QED
  BY <1>6, <1>8, <1>9 DEF IInv

\* Save writes all words, as none was streamed.
LEMMA SaveIInv ==
  ASSUME IInv, Save
  PROVE  IInv'
<1>1. /\ phase = "flushed" /\ phase' = "saved" /\ file = << >> /\ file' = packet
      /\ UNCHANGED <<word_vars, table, index, pending, fields, ticks, inflated>>
  BY DEF Save
<1>2. TicksFit /\ PartsInv /\ PackedInv
  BY DEF IInv
<1>3. /\ mode = "WRITE_MODE" /\ buffer_size = BUFFER_CAPACITY
      /\ Padded(PacketBits(file) \o Stream, RecordsIn(table, ticks))
  BY <1>1, <1>2 DEF PackedInv
<1>4. Packed!Inv'
  BY <1>1, <1>2, WordsKept DEF PartsInv
<1>5. Numbers!Numbered'
  BY <1>1, <1>2, NumbersKept DEF PartsInv
<1>6. packet \in Seq(Word)
  BY <1>2, PacketType DEF PartsInv
<1>7. PartsInv'
  BY <1>1, <1>2, <1>4, <1>5, <1>6 DEF PartsInv
<1>8. Padded(PacketBits(file'), RecordsIn(table', ticks'))
  <2>1. PacketBits(packet) \in Seq(Bit)
    BY <1>6, BitTypes
  <2>2. PacketBits(file) \o Stream = PacketBits(packet)
    BY <1>1, <1>3, <1>6, <2>1, StreamInPacket, NoBits
  <2>3. PacketBits(file') = PacketBits(packet)
        /\ RecordsIn(table', ticks') = RecordsIn(table, ticks)
    BY <1>1
  <2> QED
    BY <1>3, <2>2, <2>3
<1>9. PackedInv' /\ UnpackedInv'
  BY <1>1, <1>8 DEF PackedInv, UnpackedInv
<1>10. TicksFit'
  BY <1>2 DEF TicksFit, Tickers
<1> QED
  BY <1>7, <1>9, <1>10 DEF IInv

\* The bits of the records from the k-th on begin with those of all its calls.
LEMMA RecordOpened ==
  ASSUME TicksFit, NEW tb, NEW ts \in Seq(Known(tb)), NEW k \in 1..Len(ts)
  PROVE  RecordsIn(tb, SubSeq(ts, k, Len(ts))) =
           CallBits(SubSeq(CallsOf(ts[k], tb[ts[k].ticker]), 1, 11))
             \o RecordsIn(tb, SubSeq(ts, k + 1, Len(ts)))
<1> DEFINE c == CallsOf(ts[k], tb[ts[k].ticker])
<1>1. ts[k] \in Known(tb)
  OBVIOUS
<1>2. c \in Seq(Call) /\ Len(c) = 11
  BY <1>1, RecordType, Layout
<1>3. SubSeq(c, 1, 11) = c
  BY <1>2, SubSeqFull
<1> QED
  BY <1>3, RecordsFrom DEF RecordIn

\* A word and more of bits is more than the padding.
LEMMA NotPadding ==
  ASSUME NEW s \in Seq(Bit), Len(s) >= BUFFER_CAPACITY, Padded(s, << >>)
  PROVE  FALSE
<1>1. PICK n \in 0 .. BUFFER_CAPACITY - 1 : s = << >> \o FieldBits({}, n)
  BY DEF Padded
<1>2. n \in Nat /\ n < BUFFER_CAPACITY /\ BUFFER_CAPACITY \in Nat
  BY SizesAssumption
<1>3. FieldBits({}, n) \in Seq(Bit) /\ Len(FieldBits({}, n)) = n
  BY <1>2, BitTypes
<1>4. s = FieldBits({}, n)
  BY <1>1, <1>3, NoBits
<1> QED
  BY <1>2, <1>3, <1>4

\* Load has the bits of the file before it, and if it has any a tick was written.
LEMMA LoadIInv ==
  ASSUME IInv, Load
  PROVE  IInv'
<1>1. /\ phase = "saved" /\ phase' = "inflate" /\ file # << >>
      /\ mode' = "READ_MODE" /\ buffer' = Head(file) /\ packet' = Tail(file)
      /\ buffer_size' = BUFFER_CAPACITY
      /\ UNCHANGED <<reg, table, index, pending, file, fields, ticks, inflated>>
  BY DEF Load
<1>2. TicksFit /\ PartsInv /\ PackedInv
  BY DEF IInv
<1>3. /\ file \in Seq(Word) /\ ticks \in Seq(Known(table))
      /\ fields = << >> /\ inflated = << >> /\ pending = << >>
      /\ Padded(PacketBits(file), RecordsIn(table, ticks))
  BY <1>1, <1>2 DEF PartsInv, PackedInv
<1>4. /\ Head(file) \in Word /\ Tail(file) \in Seq(Word)
      /\ PacketBits(file) = Bits!HighBits(Head(file), BUFFER_CAPACITY) \o PacketBits(Tail(file))
  <2>1. Head(file) \in Word /\ Tail(file) \in Seq(Word)
    BY <1>1, <1>3
  <2>2. file \in Seq(Packed!Word)
    BY <1>3, SameBits DEF Word
  <2>3. Packed!PacketBits(file) =
          Packed!HighBits(Head(file), BUFFER_CAPACITY) \o Packed!PacketBits(Tail(file))
    BY <1>1, <2>2, Packed!PacketBitsTail, PackedAssumptions
  <2> QED
    BY <2>1, <2>3, SameBits DEF PacketBits
<1>5. Packed!Inv'
  <2>1. /\ packet' \in Seq(Packed!Word) /\ buffer' \in Packed!Word
        /\ buffer_size' \in 0..BUFFER_CAPACITY /\ reg' \in Packed!Word
        /\ mode' \in Packed!Modes
    BY <1>1, <1>2, <1>4, SameBits, SizesAssumption
    DEF PartsInv, Packed!Inv, Packed!TypeOK, Packed!Modes, Word
  <2>2. \A b \in buffer' : b >= BUFFER_CAPACITY - BUFFER_CAPACITY
    BY <2>1, SizesAssumption DEF Packed!Word, Packed!BitPositions
  <2> QED
    BY <1>1, <2>1, <2>2 DEF Packed!Inv, Packed!TypeOK, Packed!SpareBitsClear
<1>6. Stream' = PacketBits(file)
  BY <1>1, <1>4 DEF Stream, Bits!Stream, PacketBits
<1>7. Numbers!Numbered'
  BY <1>1, <1>2, NumbersKept DEF PartsInv
<1>8. PartsInv'
  BY <1>1, <1>2, <1>3, <1>5, <1>7 DEF PartsInv
<1>9. Len(ticks) \in Nat /\ Len(ticks) # 0
  <2>1. ASSUME ticks = << >> PROVE FALSE
    <3>1. PacketBits(file) \in Seq(Bit) /\ Len(PacketBits(file)) = BUFFER_CAPACITY * Len(file)
      BY <1>3, BitTypes
    <3>2. BUFFER_CAPACITY * Len(file) >= BUFFER_CAPACITY
      <4>1. Len(file) \in Nat /\ Len(file) >= 1
        BY <1>1, <1>3
      <4> QED
        BY <4>1, SizesAssumption
    <3>3. Padded(PacketBits(file), << >>)
      BY <1>3, <2>1, NoRecords
    <3> QED
      BY <3>1, <3>2, <3>3, NotPadding
  <2> QED
    BY <1>3, <2>1
<1>10. Unread' = RecordsIn(table, ticks)
  <2> DEFINE n == Len(ticks)
             c == CallsOf(ticks[1], table[ticks[1].ticker])
  <2>1. 1 \in 1..n /\ n \in Nat
    BY <1>9
  <2>2. SubSeq(ticks, 1, n) = ticks
    BY <1>3, SubSeqFull
  <2>3. RecordsIn(table, ticks) =
          CallBits(SubSeq(c, 1, 11)) \o RecordsIn(table, SubSeq(ticks, 1 + 1, n))
    BY <1>2, <1>3, <2>1, <2>2, RecordOpened
  <2>4. CallsOfNext' = c
    BY <1>1, <1>3 DEF CallsOfNext
  <2>5. Unread' = CallBits(SubSeq(c, 0 + 1, 11)) \o RecordsIn(table, SubSeq(ticks, 0 + 2, n))
    BY <1>1, <1>3, <2>4 DEF Unread
  <2> QED
    BY <2>3, <2>5
<1>11. UnpackedInv'
  <2>1. Padded(Stream', Unread')
    BY <1>3, <1>6, <1>10
  <2>2. fields' = << >> /\ inflated' = << >> /\ ticks' = ticks
    BY <1>1, <1>3
  <2>3. 0 < Len(ticks)
    BY <1>9
  <2> QED
    BY <1>1, <2>1, <2>2, <2>3 DEF UnpackedInv
<1>12. PackedInv'
  BY <1>1 DEF PackedInv
<1>13. TicksFit'
  BY <1>2 DEF TicksFit, Tickers
<1> QED
  BY <1>8, <1>11, <1>12, <1>13 DEF IInv

\* The records after the one that is being read.
Following == RecordsIn(table, SubSeq(ticks, Len(inflated) + 2, Len(ticks)))

\* The index of the next field.
LEMMA FieldCount ==
  \A n \in Nat : /\ n < 11 => n \in 0..10 /\ n + 1 \in 1..11
                 /\ n + 1 = 11 => n = 10
OBVIOUS

\* While the file is read there is a tick that is read next, and it has its calls.
LEMMA NextTick ==
  ASSUME IInv, phase = "inflate"
  PROVE  /\ Len(inflated) \in Nat /\ Len(ticks) \in Nat
         /\ Len(fields) \in 0..10 /\ Len(fields) + 1 \in 1..11
         /\ Len(inflated) + 1 \in 1..Len(ticks)
         /\ ticks[Len(inflated) + 1] \in Known(table)
         /\ ticks[Len(inflated) + 1] \in Ticks
         /\ ticks[Len(inflated) + 1].ticker \in DOMAIN table
         /\ CallsOfNext \in Seq(Call) /\ Len(CallsOfNext) = 11
         /\ \A i \in 1..11 :
              CallsOfNext[i] = <<ValuesOf(ticks[Len(inflated) + 1],
                                        table[ticks[Len(inflated) + 1].ticker])[i], FieldSizes[i]>>
         /\ Following \in Seq(Bit)
<1> DEFINE n == Len(ticks)
           k == Len(inflated) + 1
<1>1. TicksFit /\ PartsInv /\ UnpackedInv
  BY DEF IInv
<1>2. /\ ticks \in Seq(Known(table)) /\ inflated \in Seq(Ticks) /\ fields \in Seq(Word)
      /\ Len(fields) < 11 /\ \A i \in 1..Len(ticks) : ticks[i].ticker \in DOMAIN table
  BY <1>1 DEF PartsInv
<1>3. Len(inflated) < Len(ticks)
  BY <1>1 DEF UnpackedInv
<1>4. /\ Len(inflated) \in Nat /\ n \in Nat /\ k \in 1..n
      /\ Len(fields) \in 0..10 /\ Len(fields) + 1 \in 1..11
  <2>1. Len(inflated) \in Nat /\ n \in Nat
    BY <1>2
  <2>2. Len(fields) \in Nat /\ Len(fields) < 11
    BY <1>2
  <2>3. Len(fields) \in 0..10 /\ Len(fields) + 1 \in 1..11
    BY <2>2, FieldCount
  <2> HIDE DEF n
  <2>4. k \in 1..n
    BY <1>3, <2>1 DEF n
  <2> QED
    BY <2>1, <2>3, <2>4
<1>5. ticks[k] \in Known(table) /\ ticks[k] \in Ticks /\ ticks[k].ticker \in DOMAIN table
  BY <1>2, <1>4 DEF Known
<1>6. CallsOfNext = CallsOf(ticks[k], table[ticks[k].ticker])
  BY DEF CallsOfNext
<1>7. /\ CallsOfNext \in Seq(Call) /\ Len(CallsOfNext) = 11
      /\ \A i \in 1..11 :
           CallsOfNext[i] = <<ValuesOf(ticks[k], table[ticks[k].ticker])[i], FieldSizes[i]>>
  <2>1. CallsOfNext \in Seq(Call)
    BY <1>1, <1>5, <1>6, RecordType
  <2> DEFINE md == ticks[k]
             number == table[ticks[k].ticker]
  <2>2. CallsOfNext = CallsOf(md, number)
    BY <1>6
  <2> HIDE DEF md, number
  <2>3. /\ Len(CallsOfNext) = 11
        /\ \A i \in 1..11 : CallsOfNext[i] = <<ValuesOf(md, number)[i], FieldSizes[i]>>
    BY <2>2, Layout
  <2> QED
    BY <2>1, <2>3 DEF md, number
<1>8. Following \in Seq(Bit)
  <2>1. SubSeq(ticks, k + 1, n) \in Seq(Known(table))
    BY <1>1, <1>2, <1>4, RecordsFrom
  <2>2. k + 1 = Len(inflated) + 2
    BY <1>4
  <2> QED
    BY <1>1, <2>1, <2>2, RecordsType DEF Following
<1> QED
  BY <1>4, <1>5, <1>7, <1>8

\* A Read of the next field fetches its value and leaves the fields behind it.
LEMMA ReadNext ==
  ASSUME IInv, phase = "inflate", Bits!Read(FieldSizes[Len(fields) + 1])
  PROVE  /\ Packed!Inv' /\ mode' = "READ_MODE" /\ reg' \in Word
         /\ reg' = CallsOfNext[Len(fields) + 1][1]
         /\ Padded(Stream', CallBits(SubSeq(CallsOfNext, (Len(fields) + 1) + 1, 11)) \o Following)
<1> DEFINE c == CallsOfNext
           j == Len(fields) + 1
           b == FieldBits(c[j][1], c[j][2])
           cb == CallBits(SubSeq(c, j + 1, 11))
           r == Following
<1>1. Packed!Inv /\ Padded(Stream, Unread) /\ mode = "READ_MODE"
  BY DEF IInv, PartsInv, UnpackedInv
<1>2. j \in 1..11 /\ c \in Seq(Call) /\ Len(c) = 11 /\ r \in Seq(Bit)
  <2>1. /\ Len(fields) + 1 \in 1..11 /\ CallsOfNext \in Seq(Call) /\ Len(CallsOfNext) = 11
        /\ Following \in Seq(Bit)
    BY NextTick
  <2>2. j \in 1..11
    BY <2>1
  <2> QED
    BY <2>1, <2>2
<1>3. c[j] \in Call /\ c[j][2] = FieldSizes[j]
  <2>0. \A i \in 1..11 : \E v : CallsOfNext[i] = <<v, FieldSizes[i]>>
    BY NextTick, Zenon
  <2>1. \A i \in 1..11 : CallsOfNext[i][2] = FieldSizes[i]
    BY <2>0
  <2> HIDE DEF c, j, r
  <2>2. c[j] \in Call
    <3>1. j \in 1..Len(c) /\ c \in Seq(Call)
      BY <1>2
    <3> QED
      BY <3>1
  <2>3. c[j][2] = FieldSizes[j]
    BY <1>2, <2>1 DEF c
  <2> QED
    BY <2>2, <2>3
<1>4. Bits!Read(c[j][2])
  BY <1>3
<1>5. /\ SubSeq(c, j + 1, 11) \in Seq(Call)
      /\ CallBits(SubSeq(c, j, 11)) = b \o cb
  BY <1>2, CallsFrom
<1>6. b \in Seq(Bit) /\ cb \in Seq(Bit)
  BY <1>3, <1>5, CallType, BitTypes, BitsOfCalls
<1>7. PICK n \in 0 .. BUFFER_CAPACITY - 1 : Stream = Unread \o FieldBits({}, n)
  BY <1>1 DEF Padded
<1> DEFINE z == FieldBits({}, n)
           rest == (cb \o r) \o z
<1>8. z \in Seq(Bit)
  BY BitTypes
<1>9. Unread = (b \o cb) \o r
  BY <1>5 DEF Unread, Following
<1>10. cb \o r \in Seq(Bit) /\ rest \in Seq(Bit)
  BY <1>2, <1>6, <1>8, ConcatProperties
<1>11. Stream = b \o rest
  <2> HIDE DEF b, cb, r, z
  <2>1. (b \o cb) \o r = b \o (cb \o r)
    BY <1>2, <1>6, Associative
  <2>2. (b \o (cb \o r)) \o z = b \o ((cb \o r) \o z)
    BY <1>6, <1>8, <1>10, Associative
  <2> QED
    BY <1>7, <1>9, <2>1, <2>2 DEF z
<1>12. /\ Packed!Inv' /\ mode' = mode
       /\ reg' = c[j][1]
       /\ Stream' = rest
  <2> DEFINE call == c[j]
  <2>1. call \in Call /\ Bits!Read(call[2]) /\ Stream = FieldBits(call[1], call[2]) \o rest
    BY <1>3, <1>4, <1>11
  <2> HIDE DEF call, rest
  <2>2. Packed!Inv' /\ mode' = mode /\ reg' = call[1] /\ Stream' = rest
    BY <1>1, <1>10, <2>1, ReadValue
  <2> QED
    BY <2>2 DEF call
<1>13. reg' \in Word
  BY <1>12, SameBits DEF Packed!Inv, Packed!TypeOK, Word
<1>14. Padded(Stream', cb \o r)
  BY <1>12 DEF Padded
<1> QED
  BY <1>1, <1>12, <1>13, <1>14

\* A Read that leaves fields of its record to be read.
LEMMA ReadInside ==
  ASSUME IInv, phase = "inflate", Bits!Read(FieldSizes[Len(fields) + 1]),
         Len(fields) + 1 < 11, fields' = Append(fields, reg'),
         UNCHANGED <<table, index, pending, file, ticks, inflated, phase>>
  PROVE  IInv'
<1>1. TicksFit /\ PartsInv /\ UnpackedInv
  BY DEF IInv
<1>2. /\ Packed!Inv' /\ mode' = "READ_MODE" /\ reg' \in Word
      /\ reg' = CallsOfNext[Len(fields) + 1][1]
      /\ Padded(Stream', CallBits(SubSeq(CallsOfNext, (Len(fields) + 1) + 1, 11)) \o Following)
  BY ReadNext
<1>3. fields \in Seq(Word) /\ Len(fields) \in Nat
  BY <1>1 DEF PartsInv
<1>4. /\ fields' \in Seq(Word) /\ Len(fields') = Len(fields) + 1
      /\ fields'[Len(fields) + 1] = reg'
      /\ \A i \in 1..Len(fields) : fields'[i] = fields[i]
  BY <1>2, <1>3, AppendProperties
<1>5. CallsOfNext' = CallsOfNext
  BY DEF CallsOfNext
<1>6. Numbers!Numbered'
  BY <1>1, NumbersKept DEF PartsInv
<1>7. PartsInv'
  BY <1>1, <1>2, <1>4, <1>6 DEF PartsInv
<1>8. \A i \in 1..Len(fields') : fields'[i] = CallsOfNext'[i][1]
  <2>1. \A i \in 1..Len(fields) : fields[i] = CallsOfNext[i][1]
    BY <1>1 DEF UnpackedInv
  <2>2. ASSUME NEW i \in 1..Len(fields') PROVE i \in 1..Len(fields) \/ i = Len(fields) + 1
    BY <1>3, <1>4
  <2> QED
    BY <1>2, <1>4, <1>5, <2>1, <2>2
<1>9. Unread' = CallBits(SubSeq(CallsOfNext, (Len(fields) + 1) + 1, 11)) \o Following
  BY <1>4, <1>5 DEF Unread, Following
<1>10. UnpackedInv'
  BY <1>1, <1>2, <1>8, <1>9 DEF UnpackedInv
<1>11. PackedInv'
  BY DEF PackedInv
<1>12. TicksFit'
  BY <1>1 DEF TicksFit, Tickers
<1> QED
  BY <1>7, <1>10, <1>11, <1>12 DEF IInv

\* A buffer opened for reading, after a step.
LEMMA OpenedPrimed ==
  ASSUME Packed!Inv', mode' = "READ_MODE"
  PROVE  /\ packet' \in Seq(Word) /\ buffer' \in Word /\ buffer_size' \in 0..BUFFER_CAPACITY
         /\ \A b \in buffer' : b >= BUFFER_CAPACITY - buffer_size'
         /\ Stream' = Bits!HighBits(buffer', buffer_size') \o PacketBits(packet')
<1>1. packet' \in Seq(Word) /\ buffer' \in Word /\ buffer_size' \in 0..BUFFER_CAPACITY
  BY SameBits DEF Packed!Inv, Packed!TypeOK, Word
<1>2. \A b \in buffer' : b >= BUFFER_CAPACITY - buffer_size'
  BY DEF Packed!Inv, Packed!SpareBitsClear
<1>3. Stream' = Bits!HighBits(buffer', buffer_size') \o PacketBits(packet')
  BY DEF Stream, Bits!Stream, PacketBits
<1> QED
  BY <1>1, <1>2, <1>3

\* Read says that there is no more when only the padding is left.
LEMMA NoMore ==
  ASSUME Packed!Inv', mode' = "READ_MODE", Padded(Stream', << >>)
  PROVE  ~Bits!More'
<1>1. PICK n \in 0 .. BUFFER_CAPACITY - 1 : Stream' = << >> \o FieldBits({}, n)
  BY DEF Padded
<1>2. FieldBits({}, n) \in Seq(Bit)
  BY BitTypes
<1>3. Stream' = FieldBits({}, n)
  BY <1>1, <1>2, NoBits
<1>4. packet' = << >> /\ buffer' = {}
  <2> DEFINE p == packet'
             b == buffer'
             size == buffer_size'
  <2>1. /\ p \in Seq(Word) /\ b \in Word /\ size \in 0..BUFFER_CAPACITY
        /\ \A x \in b : x >= BUFFER_CAPACITY - size
        /\ Bits!HighBits(b, size) \o PacketBits(p) = FieldBits({}, n)
    BY <1>3, OpenedPrimed
  <2> HIDE DEF p, b, size
  <2>2. p = << >> /\ b = {}
    BY <2>1, OnlyPadding
  <2> QED
    BY <2>2 DEF p, b
<1> QED
  BY <1>4 DEF Bits!More

\* And that there is more when a record is left.
LEMMA MoreLeft ==
  ASSUME Packed!Inv', mode' = "READ_MODE", NEW r \in Seq(Bit), Len(r) > BUFFER_CAPACITY,
         Padded(Stream', r)
  PROVE  Bits!More'
<1>1. SUFFICES ASSUME packet' = << >> PROVE FALSE
  BY DEF Bits!More
<1>2. PICK n \in 0 .. BUFFER_CAPACITY - 1 : Stream' = r \o FieldBits({}, n)
  BY DEF Padded
<1>3. n \in Nat /\ BUFFER_CAPACITY \in Nat
  BY SizesAssumption
<1>4. FieldBits({}, n) \in Seq(Bit) /\ Len(FieldBits({}, n)) = n
  BY <1>3, BitTypes
<1>5. Len(Stream') = Len(r) + n
  <2> DEFINE z == FieldBits({}, n)
  <2>1. z \in Seq(Bit) /\ Len(z) = n /\ Stream' = r \o z
    BY <1>2, <1>4
  <2> HIDE DEF z
  <2>2. Len(r \o z) = Len(r) + Len(z)
    BY <2>1
  <2> QED
    BY <2>1, <2>2
<1> DEFINE size == buffer_size'
           h == Bits!HighBits(buffer', size)
<1>6. size \in 0..BUFFER_CAPACITY /\ size \in Nat
  BY OpenedPrimed
<1>7. h \in Seq(Bit) /\ Len(h) = size
  BY <1>6, Packed!HighBitsBits, PackedAssumptions, SameBits DEF Bit
<1>8. Stream' = h
  BY <1>1, <1>7, OpenedPrimed, NoBits
<1> HIDE DEF h, size
<1>9. Len(r) \in Nat
  OBVIOUS
<1> QED
  BY <1>3, <1>5, <1>6, <1>7, <1>8, <1>9

\* The fields of a whole record are the tick it was written from.
LEMMA TickRead ==
  ASSUME IInv, phase = "inflate", Bits!Read(FieldSizes[Len(fields) + 1]),
         Len(fields) + 1 = 11, NEW lookup \in Table!Lookups
  PROVE  TickOf(lookup, Append(fields, reg')) = ticks[Len(inflated) + 1]
<1> DEFINE md == ticks[Len(inflated) + 1]
           v == ValuesOf(md, table[md.ticker])
           f == Append(fields, reg')
<1>1. TicksFit /\ Numbers!Numbered /\ fields \in Seq(Word)
      /\ \A i \in 1..Len(fields) : fields[i] = CallsOfNext[i][1]
  BY DEF IInv, PartsInv, UnpackedInv
<1>2. md \in Ticks /\ md.ticker \in DOMAIN table /\ \A i \in 1..11 : CallsOfNext[i][1] = v[i]
  <2>1. \A i \in 1..11 : CallsOfNext[i] = <<v[i], FieldSizes[i]>>
    BY NextTick
  <2>2. md \in Ticks /\ md.ticker \in DOMAIN table
    BY NextTick
  <2> HIDE DEF v, md
  <2> QED
    BY <2>1, <2>2
<1>3. reg' = CallsOfNext[Len(fields) + 1][1] /\ reg' \in Word
  BY ReadNext
<1> HIDE DEF md, v
<1>4. f[Len(fields) + 1] = reg' /\ \A i \in 1..Len(fields) : f[i] = fields[i]
  BY <1>1, <1>3, AppendProperties
<1> HIDE DEF f
<1>5. Len(fields) = 10
  <2>1. Len(fields) \in Nat
    BY <1>1
  <2> QED
    BY <2>1, FieldCount
<1>6. \A i \in 1..10 : f[i] = v[i]
  BY <1>1, <1>2, <1>4, <1>5
<1>7. f[11] = v[11]
  BY <1>2, <1>3, <1>4
<1>8. \A i \in 1..11 : f[i] = v[i]
  <2>1. \A i \in 1..11 : i \in 1..10 \/ i = 11
    OBVIOUS
  <2> QED
    BY <1>6, <1>7, <2>1
<1>9. TickerOf(lookup, NumberBits(table[md.ticker])) = md.ticker
  BY <1>1, <1>2, LookupFinds
<1>10. TickOf(lookup, f) = md
  BY <1>1, <1>2, <1>8, <1>9, FieldsGiveTick DEF v
<1> QED
  BY <1>10 DEF f, md

\* A Read that completes a record.
LEMMA ReadLast ==
  ASSUME IInv, phase = "inflate", Bits!Read(FieldSizes[Len(fields) + 1]),
         Len(fields) + 1 = 11, fields' = << >>, NEW lookup \in Table!Lookups,
         inflated' = Append(inflated, TickOf(lookup, Append(fields, reg'))),
         phase' = IF Bits!More' THEN "inflate" ELSE "done",
         UNCHANGED <<table, index, pending, file, ticks>>
  PROVE  IInv'
<1> DEFINE k == Len(inflated)
           n == Len(ticks)
           md == ticks[k + 1]
<1>1. TicksFit /\ PartsInv /\ UnpackedInv
  BY DEF IInv
<1>2. /\ Packed!Inv' /\ mode' = "READ_MODE"
      /\ Padded(Stream', CallBits(SubSeq(CallsOfNext, (Len(fields) + 1) + 1, 11)) \o Following)
  BY ReadNext
<1>3. /\ k \in Nat /\ n \in Nat /\ k + 1 \in 1..n /\ md \in Ticks
      /\ CallsOfNext \in Seq(Call) /\ Following \in Seq(Bit)
  BY NextTick
<1>4. inflated \in Seq(Ticks) /\ ticks \in Seq(Known(table))
      /\ \A i \in 1..k : inflated[i] = ticks[i]
  BY <1>1 DEF PartsInv, UnpackedInv
<1>5. inflated' = Append(inflated, md)
  BY TickRead
<1>6. /\ inflated' \in Seq(Ticks) /\ Len(inflated') = k + 1
      /\ inflated'[k + 1] = md /\ \A i \in 1..k : inflated'[i] = inflated[i]
  BY <1>3, <1>4, <1>5, AppendProperties
<1> HIDE DEF md
<1>7. \A i \in 1..Len(inflated') : inflated'[i] = ticks[i]
  <2>1. \A i \in 1 .. k + 1 : i \in 1..k \/ i = k + 1
    BY <1>3
  <2> HIDE DEF k
  <2> QED
    BY <1>4, <1>6, <2>1 DEF md
<1>8. Padded(Stream', Following)
  <2>1. (Len(fields) + 1) + 1 = 12
    OBVIOUS
  <2>2. CallBits(SubSeq(CallsOfNext, 12, 11)) = << >>
    <3>1. SubSeq(CallsOfNext, 12, 11) = << >>
      BY SubSeqEmpty
    <3> QED
      BY <3>1, NoBits
  <2>3. << >> \o Following = Following
    BY <1>3, NoBits
  <2> QED
    BY <1>2, <2>1, <2>2, <2>3
<1>9. Numbers!Numbered'
  BY <1>1, NumbersKept DEF PartsInv
<1>10. PartsInv'
  <2>1. << >> \in Seq(Word) /\ Len(<< >>) = 0
    OBVIOUS
  <2>2. phase' \in {"inflate", "done"}
    OBVIOUS
  <2> QED
    BY <1>1, <1>2, <1>6, <1>9, <2>1, <2>2 DEF PartsInv
<1>11. TicksFit'
  BY <1>1 DEF TicksFit, Tickers
<1>12. PackedInv'
  BY DEF PackedInv
<1>13. CASE k + 1 = n
  <2>1. Following = << >>
    <3>1. k + 2 > n
      BY <1>3, <1>13
    <3>2. SubSeq(ticks, k + 2, n) = << >>
      BY <1>3, <3>1, SubSeqEmpty
    <3> QED
      BY <3>2, NoRecords DEF Following
  <2>2. phase' = "done"
    BY <1>2, <1>8, <2>1, NoMore
  <2>3. inflated' = ticks'
    <3>1. ticks \in Seq(Ticks)
      BY <1>4 DEF Known
    <3>2. Len(inflated') = Len(ticks)
      BY <1>6, <1>13
    <3>3. inflated' = ticks
      BY <1>6, <1>7, <3>1, <3>2, SeqEqual
    <3> QED
      BY <3>3
  <2> QED
    BY <1>10, <1>11, <1>12, <2>2, <2>3 DEF IInv, UnpackedInv
<1>14. CASE k + 1 # n
  <2> DEFINE m == k + 2
             c == CallsOf(ticks[m], table[ticks[m].ticker])
  <2>1. m \in 1..n /\ (k + 1) + 1 = m
    BY <1>3, <1>14
  <2> HIDE DEF k, n, m
  <2>2. ticks[m] \in Known(table)
    BY <1>4, <2>1 DEF n
  <2>3. Following = RecordIn(table, ticks[m]) \o RecordsIn(table, SubSeq(ticks, m + 1, n))
        /\ SubSeq(ticks, m + 1, n) \in Seq(Known(table))
    BY <1>1, <1>4, <2>1, RecordsFrom DEF Following, k, m, n
  <2>4. Len(Following) > BUFFER_CAPACITY
    <3> DEFINE x == RecordIn(table, ticks[m])
               y == RecordsIn(table, SubSeq(ticks, m + 1, n))
    <3>1. x \in Seq(Bit) /\ y \in Seq(Bit) /\ Len(x) > BUFFER_CAPACITY
      BY <1>1, <2>2, <2>3, RecordType, RecordsType, RecordLong
    <3>2. Following = x \o y
      BY <2>3
    <3> HIDE DEF x, y
    <3>3. Len(x \o y) = Len(x) + Len(y) /\ Len(x) \in Nat /\ Len(y) \in Nat
      BY <3>1
    <3> QED
      BY <3>1, <3>2, <3>3, SizesAssumption
  <2>5. phase' = "inflate"
    BY <1>2, <1>3, <1>8, <2>4, MoreLeft
  <2>6. Unread' = Following
    <3>1. Following = CallBits(SubSeq(c, 1, 11)) \o RecordsIn(table, SubSeq(ticks, m + 1, n))
      BY <1>1, <1>4, <2>1, RecordOpened DEF Following, k, m, n
    <3>2. Len(inflated') + 1 = m /\ Len(inflated') + 2 = m + 1
      BY <1>3, <1>6 DEF m, k
    <3>3. CallsOfNext' = c
      BY <3>2 DEF CallsOfNext
    <3>4. Len(fields') + 1 = 1
      OBVIOUS
    <3> HIDE DEF c
    <3>5. Unread' = CallBits(SubSeq(c, 1, 11)) \o RecordsIn(table, SubSeq(ticks, m + 1, n))
      BY <3>2, <3>3, <3>4 DEF Unread, n
    <3> QED
      BY <3>1, <3>5
  <2>7. Len(inflated') < Len(ticks')
    BY <1>3, <1>6, <1>14 DEF k, n
  <2>8. UnpackedInv'
    BY <1>2, <1>7, <1>8, <2>5, <2>6, <2>7 DEF UnpackedInv
  <2> QED
    BY <1>10, <1>11, <1>12, <2>8 DEF IInv
<1> QED
  BY <1>13, <1>14

\* Every Read leaves the records that are unread in the buffer.
LEMMA ReadFieldIInv ==
  ASSUME IInv, ReadField
  PROVE  IInv'
<1>1. /\ phase = "inflate"
      /\ Bits!Read(FieldSizes[Len(fields) + 1])
      /\ UNCHANGED <<table, index, pending, file, ticks>>
  BY DEF ReadField
<1>2. Len(fields) \in Nat /\ Len(fields) < 11
  BY DEF IInv, PartsInv
<1>3. NumFields = 11 /\ Len(Append(fields, reg')) = Len(fields) + 1
  <2>1. NumFields = 11
    BY DEF NumFields, FieldSizes
  <2>2. fields \in Seq(Word)
    BY DEF IInv, PartsInv
  <2> QED
    BY <2>1, <2>2
<1>4. CASE Len(fields) + 1 < 11
  <2>1. fields' = Append(fields, reg') /\ UNCHANGED <<inflated, phase>>
    BY <1>3, <1>4 DEF ReadField
  <2> QED
    BY <1>1, <1>4, <2>1, ReadInside
<1>5. CASE ~(Len(fields) + 1 < 11)
  <2>1. Len(fields) + 1 = 11
    BY <1>2, <1>5
  <2>2. /\ fields' = << >>
        /\ \E lookup \in Table!Lookups : inflated' = Append(inflated, TickOf(lookup, Append(fields, reg')))
        /\ phase' = IF Bits!More' THEN "inflate" ELSE "done"
    BY <1>3, <1>5 DEF ReadField
  <2> QED
    BY <1>1, <2>1, <2>2, ReadLast
<1> QED
  BY <1>4, <1>5

\* Every step preserves the invariant.
LEMMA NextIInv == IInv /\ [Next]_vars => IInv'
<1> SUFFICES ASSUME IInv, [Next]_vars PROVE IInv'
  OBVIOUS
<1>1. ASSUME NEW md \in Ticks, Compress(md) PROVE IInv'
  BY <1>1, CompressIInv
<1>2. CASE WriteField
  BY <1>2, WriteFieldIInv
<1>3. CASE WriteStream
  BY <1>3, WriteStreamIInv
<1>4. CASE CompressEof
  BY <1>4, CompressEofIInv
<1>5. CASE CloseWriteStream
  BY <1>5, CloseWriteStreamIInv
<1>6. CASE Save
  BY <1>6, SaveIInv
<1>7. CASE Load
  BY <1>7, LoadIInv
<1>8. CASE ReadField
  BY <1>8, ReadFieldIInv
<1>9. CASE UNCHANGED vars
  <2>1. UNCHANGED word_vars
        /\ UNCHANGED <<table, index, pending, file, fields, ticks, inflated, phase>>
    BY <1>9 DEF vars
  <2>2. TicksFit /\ PartsInv /\ PackedInv /\ UnpackedInv
    BY DEF IInv
  <2>3. Packed!Inv' /\ Stream' = Stream /\ mode' = mode /\ buffer_size' = buffer_size
    BY <2>1, <2>2, WordsKept DEF PartsInv
  <2>4. Numbers!Numbered'
    BY <2>1, <2>2, NumbersKept DEF PartsInv
  <2>5. PartsInv'
    BY <2>1, <2>2, <2>3, <2>4 DEF PartsInv
  <2>6. PackedInv'
    BY <2>1, <2>2, <2>3 DEF PackedInv
  <2>7. CallsOfNext' = CallsOfNext
    BY <2>1 DEF CallsOfNext
  <2>8. Unread' = Unread
    BY <2>1, <2>7 DEF Unread
  <2>9. UnpackedInv'
    BY <2>1, <2>2, <2>3, <2>7, <2>8 DEF UnpackedInv
  <2>10. TicksFit'
    BY <2>2 DEF TicksFit, Tickers
  <2> QED
    BY <2>5, <2>6, <2>9, <2>10 DEF IInv
<1>10. CASE Finished
  BY <1>9, <1>10 DEF Finished
<1> QED
  BY <1>1, <1>2, <1>3, <1>4, <1>5, <1>6, <1>7, <1>8, <1>9, <1>10, SideAsserted DEF Next

\* IInv holds whenever the ticks fit: what the writes packed is what the reads will find.
THEOREM InvHolds == TicksFit /\ Spec => []IInv
<1>1. TicksFit /\ Init => IInv
  BY InitIInv
<1>2. IInv /\ [Next]_vars => IInv'
  BY NextIInv
<1> QED
  BY <1>1, <1>2, PTL DEF Spec

\* The bit buffer, the numbers of the symbol table and the fields of a record stay in
\* range whatever ticks Compress is given, as long as they fit their fields.
THEOREM TypeCorrect == TicksFit /\ Spec => []TypeOK
<1>1. IInv => TypeOK
  <2> SUFFICES ASSUME IInv PROVE TypeOK
    OBVIOUS
  <2>1. PartsInv /\ TicksFit
    BY DEF IInv
  <2>2. Bits!TypeOK
    BY <2>1, SameStream DEF PartsInv, Packed!Inv
  <2>3. DOMAIN table \subseteq Tickers /\ index = Numbers!Count % Power[INDEX_BITS]
    BY <2>1 DEF PartsInv, Numbers!Numbered
  <2>4. index \in 0 .. Power[INDEX_BITS] - 1
    <3>1. Power[INDEX_BITS] \in Nat \ {0}
      BY PowerSteps, SizesAssumption
    <3>2. Numbers!Count \in Nat
      BY <2>1, <2>3, NumbersAssumptions, Numbers!CountType
    <3> QED
      BY <2>3, <3>1, <3>2
  <2>5. NumFields = 11
    BY DEF NumFields, FieldSizes
  <2>6. ticks \in Seq(Ticks)
    BY <2>1 DEF PartsInv, Known
  <2>7. phase \in Phases
    BY <2>1 DEF PartsInv, Phases
  <2>8. Len(pending) <= NumFields /\ Len(fields) < NumFields
    BY <2>1, <2>5 DEF PartsInv
  <2>9. file \in Seq(Bits!Word) /\ fields \in Seq(Bits!Word)
    BY <2>1 DEF PartsInv, Word
  <2> QED
    BY <2>2, <2>3, <2>4, <2>6, <2>7, <2>8, <2>9 DEF TypeOK, Tickers
<1> QED
  BY <1>1, InvHolds, PTL

\* The records the properties speak of.
LEMMA SameRecords == Records = RecordsIn(table, ticks)
<1>1. \A md : RecordOf(md) = RecordIn(table, md)
  BY DEF RecordOf, RecordIn, CallsOf, ValuesOf
<1> QED
  BY <1>1 DEF Records, RecordsIn

\* However WriteStream's writes fall between the ticks, the file, the packet and the
\* buffer hold the records one after the other, and the file that CloseWriteStream or
\* Save leaves has less than a word of zeros behind them.
THEOREM RecordsStayContiguous == TicksFit /\ Spec => []RecordsContiguous
<1>1. IInv => RecordsContiguous
  <2> SUFFICES ASSUME IInv PROVE RecordsContiguous
    OBVIOUS
  <2>1. PackedInv
    BY DEF IInv
  <2>2. phase = "compress" =>
          Bits!PacketBits(file) \o Bits!Stream \o CallBits(pending) = Records
    BY <2>1, SameRecords DEF PackedInv, PacketBits, Stream
  <2>3. phase = "saved" =>
          \E n \in 0 .. BUFFER_CAPACITY - 1 :
            Bits!PacketBits(file) = Records \o Bits!Queue!FieldBits({}, n)
    BY <2>1, SameRecords DEF PackedInv, Padded, PacketBits, FieldBits
  <2> QED
    BY <2>2, <2>3 DEF RecordsContiguous
<1> QED
  BY <1>1, InvHolds, PTL

\* Of a file of ticks whose sides are B, A or T, as the assertion of Compress has it, and
\* whose values fit, ReadTicker's number is one of the table and ReadSide's code one of
\* the three tokens: neither lookup of InflateFile is out of range.
THEOREM LookupsStayInRange == TicksFit /\ Spec => []LookupsInRange
<1>1. IInv => LookupsInRange
  <2> SUFFICES ASSUME IInv, phase = "inflate" PROVE
          /\ Len(fields) >= 1 =>
               \E n \in 0 .. Cardinality(DOMAIN table) - 1 : NumberBits(n) = fields[1]
          /\ Len(fields) >= 3 => fields[3] # {0, 1}
    BY DEF LookupsInRange
  <2> DEFINE md == ticks[Len(inflated) + 1]
             v == ValuesOf(md, table[md.ticker])
  <2>1. TicksFit /\ Numbers!Numbered /\ fields \in Seq(Word)
        /\ \A i \in 1..Len(fields) : fields[i] = CallsOfNext[i][1]
    BY DEF IInv, PartsInv, UnpackedInv
  <2>2. /\ md \in Ticks /\ md.ticker \in DOMAIN table
        /\ \A i \in 1..11 : CallsOfNext[i] = <<v[i], FieldSizes[i]>>
        /\ Len(fields) \in 0..10
    BY NextTick
  <2>3. v[1] = NumberBits(table[md.ticker]) /\ v[3] = SideCode[md.side]
    BY DEF Values, ValuesOf
  <2> HIDE DEF md, v
  <2>4. CallsOfNext[1][1] = v[1] /\ CallsOfNext[3][1] = v[3]
    BY <2>2
  <2>5. Len(fields) \in Nat
    BY <2>1
  <2>6. ASSUME Len(fields) >= 1
        PROVE  \E n \in 0 .. Cardinality(DOMAIN table) - 1 : NumberBits(n) = fields[1]
    <3>1. 1 \in 1..Len(fields)
      BY <2>5, <2>6
    <3>2. fields[1] = NumberBits(table[md.ticker])
      BY <2>1, <2>3, <2>4, <3>1
    <3>3. table[md.ticker] \in 0 .. Cardinality(DOMAIN table) - 1
      BY <2>1, <2>2, NumberFits
    <3> QED
      BY <3>2, <3>3
  <2>7. ASSUME Len(fields) >= 3 PROVE fields[3] # {0, 1}
    <3>1. 3 \in 1..Len(fields)
      BY <2>5, <2>7
    <3>2. fields[3] = SideCode[md.side]
      BY <2>1, <2>3, <2>4, <3>1
    <3> QED
      BY <2>1, <2>2, <3>2, TickType, SideFits
  <2> QED
    BY <2>6, <2>7
<1> QED
  BY <1>1, InvHolds, PTL

\* Load and the Read operations give back every tick Compress packed, field for field and
\* in order, and Read's "there is more" ends the reading at the last of them: the padding
\* is not taken for a record, nor a record of zeros for padding.
THEOREM RoundTripHolds == TicksFit /\ Spec => []RoundTrip
<1>1. IInv => RoundTrip
  <2> SUFFICES ASSUME IInv PROVE RoundTrip
    OBVIOUS
  <2>1. PartsInv /\ UnpackedInv
    BY DEF IInv
  <2>2. ticks \in Seq(Ticks) /\ inflated \in Seq(Ticks)
    BY <2>1 DEF PartsInv, Known
  <2>3. ASSUME Len(inflated) <= Len(ticks), \A i \in 1..Len(inflated) : inflated[i] = ticks[i]
        PROVE  IsPrefix(inflated, ticks)
    <3> DEFINE n == Len(inflated)
               a == SubSeq(inflated, 1, n)
               b == SubSeq(ticks, 1, n)
    <3>1. n \in Nat /\ n <= Len(ticks) /\ Len(ticks) \in Nat
      BY <2>2, <2>3
    <3>2. \A i \in 1..n : inflated[i] \in Ticks /\ ticks[i] \in Ticks
      BY <2>2, <3>1
    <3>3. a = [i \in 1..n |-> inflated[i]] /\ b = [i \in 1..n |-> ticks[i]]
      <4> HIDE DEF n
      <4>1. \A i \in 1..n : 1 + i - 1 = i
        BY <3>1
      <4>2. a = [i \in 1..n |-> inflated[1 + i - 1]] /\ b = [i \in 1..n |-> ticks[1 + i - 1]]
        BY <3>1
      <4> QED
        BY <4>1, <4>2
    <3>4. a = b
      BY <2>3, <3>3
    <3> QED
      BY <2>3, <3>4 DEF IsPrefix
  <2>4. CASE phase = "inflate"
    BY <2>1, <2>2, <2>3, <2>4 DEF UnpackedInv, RoundTrip
  <2>5. CASE phase = "done"
    BY <2>1, <2>2, <2>3, <2>5 DEF UnpackedInv, RoundTrip
  <2>6. CASE phase \in {"compress", "flushed", "saved"}
    <3>1. Len(inflated) = 0 /\ Len(ticks) \in Nat
      BY <2>1, <2>2, <2>6 DEF PartsInv
    <3>2. IsPrefix(inflated, ticks)
      BY <2>3, <3>1
    <3> QED
      BY <2>6, <3>2 DEF RoundTrip
  <2> QED
    BY <2>1, <2>4, <2>5, <2>6 DEF PartsInv
<1> QED
  BY <1>1, InvHolds, PTL

-----------------------------------------------------------------------------
(* The bits of strings.                                                    *)

\* The Write calls of a string.
StringCalls(chars, size) ==
  Zip(StringValues(chars, size), [n \in 1..size |-> CHAR_SIZE])

\* A padded string has its size, and characters that fit their fields.
LEMMA PaddedChars ==
  ASSUME StringsFit, NEW chars \in Strings, NEW size \in Nat, size >= Len(chars)
  PROVE  /\ Len(PaddedString(chars, size)) = size
         /\ \A i \in 1..size :
              /\ PaddedString(chars, size)[i] \in SUBSET (0 .. CHAR_SIZE - 1)
              /\ StringValues(chars, size)[i] = PaddedString(chars, size)[i]
<1> DEFINE pad == size - Len(chars)
           C == SUBSET (0 .. CHAR_SIZE - 1)
           p == PaddedString(chars, size)
<1>1. chars \in Seq(SUBSET (0 .. CHAR_SIZE - 2)) /\ CHAR_SIZE \in Nat /\ CHAR_SIZE >= 6
  BY SizesAssumption DEF StringsFit
<1>2. Len(chars) \in Nat /\ pad \in Nat /\ \A i \in 1..Len(chars) : chars[i] \in SUBSET (0 .. CHAR_SIZE - 2)
  BY <1>1
<1>3. \A i \in 1..Len(chars) : CharBits(chars[i]) = chars[i] /\ chars[i] \in C
  BY <1>2, CharFits
<1>4. {5} \in C
  BY <1>1
<1>5. Len(Spaces(pad)) = pad /\ \A i \in 1..pad : Spaces(pad)[i] = {5}
  BY <1>2 DEF Spaces
<1>6. Spaces(pad) \in Seq(SUBSET Nat) /\ chars \in Seq(SUBSET Nat)
  <2>1. \A i \in 1..Len(chars) : chars[i] \in SUBSET Nat
    BY <1>2
  <2> QED
    BY <1>1, <1>2, <2>1 DEF Spaces
<1>7. /\ Len(p) = pad + Len(chars)
      /\ \A i \in 1 .. pad + Len(chars) :
           p[i] = IF i <= pad THEN Spaces(pad)[i] ELSE chars[i - pad]
  BY <1>5, <1>6, ConcatProperties DEF PaddedString
<1>8. pad + Len(chars) = size
  BY <1>2
<1>9. ASSUME NEW i \in 1..size
      PROVE  p[i] \in C /\ StringValues(chars, size)[i] = p[i]
  <2>1. StringValues(chars, size)[i] = IF i <= pad THEN {5} ELSE CharBits(chars[i - pad])
    BY DEF StringValues
  <2>2. CASE i <= pad
    <3>1. i \in 1..pad
      BY <1>2, <2>2
    <3> QED
      BY <1>4, <1>5, <1>7, <1>8, <2>1, <2>2, <3>1
  <2>3. CASE ~(i <= pad)
    <3>1. i - pad \in 1..Len(chars)
      BY <1>2, <1>8, <2>3
    <3> QED
      BY <1>3, <1>7, <1>8, <2>1, <2>3, <3>1
  <2> QED
    BY <2>2, <2>3
<1> QED
  BY <1>7, <1>8, <1>9

\* The Write calls of a string write its padded characters, a field each.
LEMMA StringCallsType ==
  ASSUME StringsFit, NEW chars \in Strings, NEW size \in Nat, size >= Len(chars)
  PROVE  /\ StringCalls(chars, size) \in Seq(Call)
         /\ Len(StringCalls(chars, size)) = size
         /\ \A i \in 1..size :
              StringCalls(chars, size)[i] = <<PaddedString(chars, size)[i], CHAR_SIZE>>
<1> DEFINE c == StringCalls(chars, size)
           p == PaddedString(chars, size)
<1>1. Len(StringValues(chars, size)) = size
  BY DEF StringValues
<1>2. Len([n \in 1..size |-> CHAR_SIZE]) = size
  OBVIOUS
<1>3. c = [i \in 1..size |-> <<StringValues(chars, size)[i], [n \in 1..size |-> CHAR_SIZE][i]>>]
  BY <1>1, <1>2 DEF StringCalls, Zip
<1>4. \A i \in 1..size : c[i] = <<p[i], CHAR_SIZE>>
  BY <1>3, PaddedChars
<1>5. \A i \in 1..size : c[i] \in Call
  <2>1. \A i \in 1..size : p[i] \in SUBSET (0 .. CHAR_SIZE - 1)
    BY PaddedChars
  <2>2. CHAR_SIZE \in 1..BUFFER_CAPACITY
    BY SizesAssumption
  <2> HIDE DEF p
  <2>3. ASSUME NEW i \in 1..size PROVE <<p[i], CHAR_SIZE>> \in Call
    <3>1. p[i] \subseteq 0 .. CHAR_SIZE - 1
      BY <2>1
    <3>2. p[i] \in SUBSET Nat
      BY <3>1
    <3>3. <<p[i], CHAR_SIZE>> \in (SUBSET Nat) \X (1..BUFFER_CAPACITY)
      BY <2>2, <3>2
    <3> QED
      BY <3>1, <3>3 DEF Call
  <2> QED
    BY <1>4, <2>3
<1>6. c = [i \in 1..size |-> c[i]]
  BY <1>3
<1>7. Len(c) = size
  BY <1>3
<1> HIDE DEF c
<1> QED
  BY <1>4, <1>5, <1>6, <1>7 DEF c

\* The bits of some strings, each by its Write calls.
RowBits(rs) == [n \in DOMAIN rs |-> CallBits(rs[n])]
BitsOfRows(rs) == FlattenSeq(RowBits(rs))

\* They are bits.
LEMMA RowsType ==
  ASSUME NEW rs \in Seq(Seq(Call))
  PROVE  /\ RowBits(rs) \in BitSeqs /\ Len(RowBits(rs)) = Len(rs)
         /\ \A i \in 1..Len(rs) : RowBits(rs)[i] = CallBits(rs[i])
         /\ BitsOfRows(rs) \in Seq(Bit)
<1> DEFINE n == Len(rs)
           g(i) == CallBits(rs[i])
<1>1. DOMAIN rs = 1..n /\ n \in Nat /\ \A i \in 1..n : rs[i] \in Seq(Call)
  OBVIOUS
<1>2. \A i \in 1..n : g(i) \in Seq(Bit)
  BY <1>1, BitsOfCalls
<1>3. RowBits(rs) = [i \in 1..n |-> g(i)]
  BY <1>1 DEF RowBits
<1>4. Len(RowBits(rs)) = n
  BY <1>1, <1>3
<1> HIDE DEF n, g
<1>5. RowBits(rs) \in Seq(Seq(Bit))
  BY <1>1, <1>2, <1>3
<1>6. \A i \in 1..n : RowBits(rs)[i] = g(i)
  BY <1>3
<1> QED
  BY <1>4, <1>5, <1>6, FlattenType DEF BitsOfRows, BitSeqs, n, g

\* No strings, no bits.
LEMMA NoRows == BitsOfRows(<< >>) = << >>
<1>1. RowBits(<< >>) = << >>
  BY DEF RowBits
<1> QED
  BY <1>1, FlattenEmpty DEF BitsOfRows

\* A string more puts its bits behind those of the others.
LEMMA RowsAppend ==
  ASSUME NEW rs \in Seq(Seq(Call)), NEW c \in Seq(Call)
  PROVE  /\ Append(rs, c) \in Seq(Seq(Call))
         /\ BitsOfRows(Append(rs, c)) = BitsOfRows(rs) \o CallBits(c)
<1> DEFINE us == Append(rs, c)
           n == Len(rs)
           x == CallBits(c)
           b == RowBits(rs)
           d == RowBits(us)
<1>1. /\ us \in Seq(Seq(Call)) /\ Len(us) = n + 1 /\ n \in Nat
      /\ us[n + 1] = c /\ \A i \in 1..n : us[i] = rs[i]
  BY AppendProperties
<1>2. x \in Seq(Bit)
  BY BitsOfCalls
<1>3. b \in BitSeqs /\ Len(b) = n /\ \A i \in 1..n : b[i] = CallBits(rs[i])
  BY RowsType
<1>4. d \in BitSeqs /\ Len(d) = n + 1 /\ \A i \in 1 .. n + 1 : d[i] = CallBits(us[i])
  BY <1>1, RowsType
<1>5. /\ Append(b, x) \in BitSeqs /\ Len(Append(b, x)) = n + 1
      /\ Append(b, x)[n + 1] = x /\ \A i \in 1..n : Append(b, x)[i] = b[i]
  BY <1>2, <1>3, AppendProperties DEF BitSeqs
<1> HIDE DEF us, b, d, n
<1>6. ASSUME NEW i \in 1 .. n + 1 PROVE d[i] = Append(b, x)[i]
  <2>1. CASE i = n + 1
    BY <1>1, <1>4, <1>5, <2>1
  <2>2. CASE i # n + 1
    <3>1. i \in 1..n
      BY <1>1, <2>2
    <3> QED
      BY <1>1, <1>3, <1>4, <1>5, <3>1
  <2> QED
    BY <2>1, <2>2
<1> HIDE DEF x
<1>7. d = Append(b, x)
  BY <1>1, <1>4, <1>5, <1>6, SeqEqual DEF BitSeqs
<1>8. FlattenSeq(d) = FlattenSeq(b) \o x
  BY <1>2, <1>3, <1>7, FlattenAppend
<1> QED
  BY <1>1, <1>8 DEF BitsOfRows, us, b, d, x

\* The bits of the first string come before those of the others.
LEMMA RowsTail ==
  ASSUME NEW rs \in Seq(Seq(Call)), rs # << >>
  PROVE  BitsOfRows(rs) = CallBits(rs[1]) \o BitsOfRows(Tail(rs))
<1> DEFINE b == RowBits(rs)
           t == RowBits(Tail(rs))
<1>1. /\ Tail(rs) \in Seq(Seq(Call)) /\ Len(rs) \in Nat \ {0}
      /\ Len(Tail(rs)) = Len(rs) - 1
      /\ \A i \in 1 .. Len(rs) - 1 : Tail(rs)[i] = rs[i + 1]
  BY HeadTailProperties
<1>2. b \in BitSeqs /\ Len(b) = Len(rs) /\ \A i \in 1..Len(rs) : b[i] = CallBits(rs[i])
  BY RowsType
<1>3. t \in BitSeqs /\ Len(t) = Len(rs) - 1
      /\ \A i \in 1 .. Len(rs) - 1 : t[i] = CallBits(Tail(rs)[i])
  BY <1>1, RowsType
<1> HIDE DEF b, t
<1>4. ASSUME NEW i \in 1 .. Len(rs) - 1 PROVE t[i] = b[i + 1]
  <2>1. i + 1 \in 1..Len(rs)
    BY <1>1
  <2> QED
    BY <1>1, <1>2, <1>3, <2>1
<1>5. FlattenSeq(b) = b[1] \o FlattenSeq(t)
  BY <1>1, <1>2, <1>3, <1>4, FlattenFirst
<1>6. b[1] = CallBits(rs[1])
  BY <1>1, <1>2
<1> QED
  BY <1>5, <1>6 DEF BitsOfRows, b, t

\* The same, of the strings from the k-th on.
LEMMA RowsFrom ==
  ASSUME NEW rs \in Seq(Seq(Call)), NEW k \in 1..Len(rs)
  PROVE  /\ SubSeq(rs, k + 1, Len(rs)) \in Seq(Seq(Call))
         /\ BitsOfRows(SubSeq(rs, k, Len(rs))) =
              CallBits(SubSeq(rs[k], 1, Len(rs[k]))) \o BitsOfRows(SubSeq(rs, k + 1, Len(rs)))
<1> DEFINE n == Len(rs)
           s == SubSeq(rs, k, n)
<1>1. /\ s \in Seq(Seq(Call)) /\ Len(s) = n - k + 1 /\ s[1] = rs[k]
      /\ SubSeq(rs, k + 1, n) \in Seq(Seq(Call))
  BY SubSeqProperties
<1>2. Tail(s) = SubSeq(rs, k + 1, n)
  <2>1. k \in 1..Len(rs) /\ n \in k..Len(rs)
    OBVIOUS
  <2> QED
    BY <2>1, HeadTailOfSubSeq
<1>3. SubSeq(rs[k], 1, Len(rs[k])) = rs[k]
  <2>1. rs[k] \in Seq(Call)
    OBVIOUS
  <2> QED
    BY <2>1, SubSeqFull
<1> HIDE DEF s
<1>4. s # << >>
  BY <1>1
<1> QED
  BY <1>1, <1>2, <1>3, <1>4, RowsTail DEF s

-----------------------------------------------------------------------------
(* Where a reader of the strings is.                                       *)

\* The bits of the strings from character f + 1 of the k-th on.
UnreadFrom(rs, k, f) ==
  IF k > Len(rs) THEN << >>
  ELSE CallBits(SubSeq(rs[k], f + 1, Len(rs[k]))) \o BitsOfRows(SubSeq(rs, k + 1, Len(rs)))

\* Before the first character everything is unread, and that of no strings is nothing.
LEMMA UnreadAtStart ==
  ASSUME NEW rs \in Seq(Seq(Call)), NEW k \in 1 .. Len(rs) + 1
  PROVE  UnreadFrom(rs, k, 0) = BitsOfRows(SubSeq(rs, k, Len(rs)))
<1>1. CASE k = Len(rs) + 1
  <2>1. SubSeq(rs, k, Len(rs)) = << >>
    BY <1>1, SubSeqEmpty
  <2>2. k > Len(rs)
    BY <1>1
  <2> QED
    BY <2>1, <2>2, NoRows DEF UnreadFrom
<1>2. CASE k # Len(rs) + 1
  <2>1. k \in 1..Len(rs) /\ ~(k > Len(rs))
    BY <1>2
  <2>2. UnreadFrom(rs, k, 0) =
          CallBits(SubSeq(rs[k], 0 + 1, Len(rs[k]))) \o BitsOfRows(SubSeq(rs, k + 1, Len(rs)))
    BY <2>1 DEF UnreadFrom
  <2>3. 0 + 1 = 1
    OBVIOUS
  <2> QED
    BY <2>1, <2>2, <2>3, RowsFrom
<1> QED
  BY <1>1, <1>2

\* The position behind character f + 1 of the k-th string.
UnreadAfter(rs, k, f) ==
  IF f + 1 < Len(rs[k]) THEN UnreadFrom(rs, k, f + 1) ELSE UnreadFrom(rs, k + 1, 0)

\* What is unread begins with the next character, and the others follow.
LEMMA NextChar ==
  ASSUME NEW rs \in Seq(Seq(Call)), NEW k \in 1..Len(rs), NEW f \in Nat, f < Len(rs[k])
  PROVE  /\ rs[k][f + 1] \in Call
         /\ UnreadAfter(rs, k, f) \in Seq(Bit)
         /\ UnreadFrom(rs, k, f) =
              FieldBits(rs[k][f + 1][1], rs[k][f + 1][2]) \o UnreadAfter(rs, k, f)
<1> DEFINE row == rs[k]
           n == Len(rs)
           m == Len(row)
           j == f + 1
           x == FieldBits(row[j][1], row[j][2])
           y == CallBits(SubSeq(row, j + 1, m))
           z == BitsOfRows(SubSeq(rs, k + 1, n))
<1>1. row \in Seq(Call) /\ m \in Nat /\ j \in 1..m /\ row[j] \in Call
  <2>1. row \in Seq(Call)
    OBVIOUS
  <2>2. m \in Nat
    BY <2>1
  <2>3. j \in 1..m
    BY <2>2
  <2> HIDE DEF row, j
  <2> QED
    BY <2>1, <2>2, <2>3
<1>2. /\ SubSeq(row, j + 1, m) \in Seq(Call)
      /\ CallBits(SubSeq(row, j, m)) = x \o y
  <2> HIDE DEF row, j
  <2> QED
    BY <1>1, CallsFrom
<1>3. SubSeq(rs, k + 1, n) \in Seq(Seq(Call))
  BY RowsFrom
<1>4. x \in Seq(Bit) /\ y \in Seq(Bit) /\ z \in Seq(Bit)
  <2>1. x \in Seq(Bit)
    BY <1>1, CallType, BitTypes
  <2>2. y \in Seq(Bit)
    BY <1>2, BitsOfCalls
  <2>3. z \in Seq(Bit)
    BY <1>3, RowsType
  <2> QED
    BY <2>1, <2>2, <2>3
<1>5. UnreadFrom(rs, k, f) = (x \o y) \o z
  <2>1. ~(k > n)
    OBVIOUS
  <2> QED
    BY <1>2, <2>1 DEF UnreadFrom
<1>6. UnreadAfter(rs, k, f) = y \o z
  <2>1. CASE j < m
    <3>1. ~(k > n)
      OBVIOUS
    <3> QED
      BY <2>1, <3>1 DEF UnreadAfter, UnreadFrom
  <2>2. CASE ~(j < m)
    <3>1. SubSeq(row, j + 1, m) = << >>
      <4> HIDE DEF row, j
      <4> QED
        BY <1>1, <2>2, SubSeqEmpty
    <3>2. y = << >>
      BY <3>1, NoBits
    <3>3. k + 1 \in 1 .. n + 1
      OBVIOUS
    <3>4. UnreadFrom(rs, k + 1, 0) = z
      BY <3>3, UnreadAtStart
    <3>5. UnreadAfter(rs, k, f) = z
      BY <2>2, <3>4 DEF UnreadAfter
    <3> HIDE DEF y, z
    <3> QED
      BY <1>4, <3>2, <3>5, NoBits
  <2> QED
    BY <2>1, <2>2
<1> HIDE DEF x, y, z
<1>7. (x \o y) \o z = x \o (y \o z) /\ y \o z \in Seq(Bit)
  BY <1>4, Associative, ConcatProperties
<1> QED
  BY <1>1, <1>5, <1>6, <1>7 DEF x

-----------------------------------------------------------------------------
(* The inductive invariant.                                                *)

StringPhases == {"strings", "strings_flushed", "strings_read"}

\* The calls of every string written.
StringRows == [n \in 1..Len(strings) |-> StringCalls(strings[n], sizes[n])]

\* What holds of the strings at any time.
StringParts ==
  /\ StringsFit
  /\ ticks \in Seq(Ticks)
  /\ strings \in Seq(Strings) /\ sizes \in Seq(Nat) /\ Len(sizes) = Len(strings)
  /\ \A n \in 1..Len(strings) : sizes[n] >= Len(strings[n])
  /\ phase \in StringPhases => Packed!Inv

\* A buffer used for ticks has no strings, and one used for nothing is empty.
NotForStrings ==
  /\ phase \notin StringPhases => strings = << >> /\ sizes = << >> /\ got = << >>
  /\ phase = "compress" /\ ticks = << >> => Bits!Init /\ pending = << >> /\ fields = << >>

\* Written, the strings are in the stream and in the calls to come, in their order.
StringsWritten ==
  /\ phase \in {"strings", "strings_flushed"} =>
       mode = "WRITE_MODE" /\ fields = << >> /\ got = << >>
  /\ phase = "strings" =>
       /\ pending \in Seq(Call)
       /\ Stream \o CallBits(pending) = BitsOfRows(StringRows)
  /\ phase = "strings_flushed" =>
       /\ pending = << >> /\ buffer_size = BUFFER_CAPACITY
       /\ Padded(Stream, BitsOfRows(StringRows))

\* Of the string that is read there are the first characters, the last of them first.
PartlyRead(chars, size) ==
  /\ Len(fields) < size
  /\ \A i \in 1..Len(fields) : fields[i] = PaddedString(chars, size)[Len(fields) - i + 1]

StringsReadBack ==
  phase = "strings_read" =>
    /\ pending = << >>
    /\ got \in Seq(Seq(SUBSET Nat)) /\ fields \in Seq(SUBSET Nat)
    /\ Len(got) <= Len(strings)
    /\ \A n \in 1..Len(got) : got[n] = Reverse(PaddedString(strings[n], sizes[n]))
    /\ IF Len(got) = Len(strings)
       THEN fields = << >>
       ELSE PartlyRead(strings[Len(got) + 1], sizes[Len(got) + 1])
    /\ Padded(Stream, UnreadFrom(StringRows, Len(got) + 1, Len(fields)))

StringsInv == StringParts /\ NotForStrings /\ StringsWritten /\ StringsReadBack

\* The calls of all strings pack values that fit their fields.
LEMMA StringRowsType ==
  ASSUME StringParts
  PROVE  /\ StringRows \in Seq(Seq(Call)) /\ Len(StringRows) = Len(strings)
         /\ \A n \in 1..Len(strings) :
              /\ strings[n] \in Strings /\ sizes[n] \in Nat /\ sizes[n] >= Len(strings[n])
              /\ StringRows[n] = StringCalls(strings[n], sizes[n])
              /\ Len(StringRows[n]) = sizes[n]
              /\ \A i \in 1..sizes[n] :
                   StringRows[n][i] = <<PaddedString(strings[n], sizes[n])[i], CHAR_SIZE>>
<1> DEFINE m == Len(strings)
           c(n) == StringCalls(strings[n], sizes[n])
<1>1. m \in Nat /\ \A n \in 1..m : /\ strings[n] \in Strings /\ sizes[n] \in Nat
                                   /\ sizes[n] >= Len(strings[n])
  BY DEF StringParts
<1>2. \A n \in 1..m : /\ c(n) \in Seq(Call) /\ Len(c(n)) = sizes[n]
                      /\ \A i \in 1..sizes[n] :
                           c(n)[i] = <<PaddedString(strings[n], sizes[n])[i], CHAR_SIZE>>
  BY <1>1, StringCallsType DEF StringParts
<1>3. StringRows = [n \in 1..m |-> c(n)]
  BY DEF StringRows
<1> HIDE DEF c
<1>4. StringRows \in Seq(Seq(Call)) /\ Len(StringRows) = m
  BY <1>1, <1>2, <1>3
<1>5. \A n \in 1..m : StringRows[n] = c(n)
  BY <1>3
<1> QED
  BY <1>1, <1>2, <1>4, <1>5 DEF c

\* An empty buffer has no bits and obeys its invariant.
LEMMA EmptyBuffer ==
  ASSUME Bits!Init
  PROVE  Packed!Inv /\ mode = "WRITE_MODE" /\ Stream = << >>
<1>1. Packed!Inv
  BY SameOperations, Packed!InitInv, PackedAssumptions
<1>2. packet \in Seq(Word) /\ mode = "WRITE_MODE" /\ buffer_size = BUFFER_CAPACITY
      /\ packet = << >>
  BY <1>1, PacketType DEF Bits!Init
<1> QED
  BY <1>1, <1>2, StreamInPacket, NoBits

\* The invariant holds at the start.
LEMMA InitStringsInv == StringsFit /\ SInit => StringsInv
<1> SUFFICES ASSUME StringsFit, SInit PROVE StringsInv
  OBVIOUS
<1>1. /\ Bits!Init /\ pending = << >> /\ fields = << >> /\ ticks = << >> /\ phase = "compress"
      /\ strings = << >> /\ sizes = << >> /\ got = << >>
  BY DEF SInit, Init
<1>2. phase \notin StringPhases
  BY <1>1 DEF StringPhases
<1>3. StringParts
  BY <1>1, <1>2 DEF StringParts
<1>4. NotForStrings
  BY <1>1 DEF NotForStrings
<1>5. StringsWritten /\ StringsReadBack
  BY <1>1 DEF StringsWritten, StringsReadBack
<1> QED
  BY <1>3, <1>4, <1>5 DEF StringsInv

\* A string more puts its calls behind those of the others.
LEMMA WriteStringInv ==
  ASSUME StringsInv, NEW chars \in Strings, NEW pad \in 0..MaxPad,
         WriteString(chars, Len(chars) + pad)
  PROVE  StringsInv'
<1> DEFINE size == Len(chars) + pad
           c == StringCalls(chars, size)
<1>1. /\ phase = "strings" \/ (phase = "compress" /\ ticks = << >>)
      /\ pending = << >> /\ pending' = c
      /\ strings' = Append(strings, chars) /\ sizes' = Append(sizes, size)
      /\ phase' = "strings"
      /\ UNCHANGED <<word_vars, table, index, file, fields, ticks, inflated, got>>
  BY DEF WriteString, StringCalls
<1>2. StringParts /\ NotForStrings /\ StringsWritten
  BY DEF StringsInv
<1>3. size \in Nat /\ size >= Len(chars)
  <2>1. Len(chars) \in Nat
    BY <1>2 DEF StringParts, StringsFit
  <2>2. pad \in Nat
    BY StringsAssumption
  <2> QED
    BY <2>1, <2>2
<1> HIDE DEF size
<1>4. c \in Seq(Call)
  BY <1>2, <1>3, StringCallsType DEF StringParts
<1>5. Packed!Inv /\ mode = "WRITE_MODE" /\ fields = << >> /\ got = << >>
      /\ Stream = BitsOfRows(StringRows)
  <2>1. CASE phase = "strings"
    <3>1. Packed!Inv /\ mode = "WRITE_MODE" /\ fields = << >> /\ got = << >>
      BY <1>2, <2>1 DEF StringParts, StringsWritten, StringPhases
    <3>2. Stream \o CallBits(<< >>) = BitsOfRows(StringRows)
      BY <1>1, <1>2, <2>1 DEF StringsWritten
    <3>3. Stream \in Seq(Bit)
      BY <3>1, StreamType
    <3> QED
      BY <3>1, <3>2, <3>3, NoBits
  <2>2. CASE phase = "compress" /\ ticks = << >>
    <3>1. Bits!Init /\ fields = << >> /\ strings = << >> /\ got = << >>
      BY <1>2, <2>2 DEF NotForStrings, StringPhases
    <3>2. StringRows = << >>
      BY <3>1 DEF StringRows
    <3> QED
      BY <3>1, <3>2, EmptyBuffer, NoRows
  <2> QED
    BY <1>1, <2>1, <2>2
<1>6. Packed!Inv' /\ mode' = "WRITE_MODE" /\ Stream' = Stream
  <2>1. UNCHANGED <<packet, mode, buffer, buffer_size, reg>>
    BY <1>1 DEF word_vars
  <2> QED
    BY <1>5, <2>1 DEF Packed!Inv, Packed!TypeOK, Packed!SpareBitsClear, Stream, Bits!Stream
<1>7. StringRows \in Seq(Seq(Call)) /\ Len(StringRows) = Len(strings)
      /\ \A n \in 1..Len(strings) : StringRows[n] = StringCalls(strings[n], sizes[n])
  BY <1>2, StringRowsType
<1>8. /\ strings \in Seq(Strings) /\ sizes \in Seq(Nat) /\ Len(sizes) = Len(strings)
      /\ \A n \in 1..Len(strings) : sizes[n] >= Len(strings[n])
  BY <1>2 DEF StringParts
<1>9. /\ strings' \in Seq(Strings) /\ sizes' \in Seq(Nat)
      /\ Len(strings') = Len(strings) + 1 /\ Len(sizes') = Len(strings) + 1
      /\ strings'[Len(strings) + 1] = chars /\ sizes'[Len(strings) + 1] = size
      /\ \A n \in 1..Len(strings) : strings'[n] = strings[n] /\ sizes'[n] = sizes[n]
  BY <1>1, <1>3, <1>8, AppendProperties
<1>10. \A n \in 1..Len(strings') : n = Len(strings) + 1 \/ n \in 1..Len(strings)
  BY <1>8, <1>9
<1>11. StringParts'
  <2>1. \A n \in 1..Len(strings') : sizes'[n] >= Len(strings'[n])
    BY <1>3, <1>8, <1>9, <1>10
  <2>2. StringsFit'
    BY <1>2 DEF StringParts, StringsFit
  <2> QED
    BY <1>1, <1>2, <1>6, <1>8, <1>9, <2>1, <2>2 DEF StringParts
<1>12. StringRows' = Append(StringRows, c)
  <2> DEFINE r == StringRows
             m == Len(strings)
  <2>1. r \in Seq(Seq(Call)) /\ Len(r) = m /\ m \in Nat
    BY <1>7, <1>8
  <2>2. StringRows' = [n \in 1 .. m + 1 |-> StringCalls(strings'[n], sizes'[n])]
    BY <1>9 DEF StringRows
  <2>3. /\ Append(r, c) \in Seq(Seq(Call)) /\ Len(Append(r, c)) = m + 1
        /\ Append(r, c)[m + 1] = c /\ \A n \in 1..m : Append(r, c)[n] = r[n]
    BY <1>4, <2>1, AppendProperties
  <2>4. ASSUME NEW n \in 1 .. m + 1
        PROVE  Append(r, c)[n] = StringCalls(strings'[n], sizes'[n])
    <3>1. CASE n = m + 1
      BY <1>9, <2>3, <3>1
    <3>2. CASE n # m + 1
      <4>1. n \in 1..m
        BY <2>1, <3>2
      <4> QED
        BY <1>7, <1>9, <2>3, <4>1
    <3> QED
      BY <3>1, <3>2
  <2>5. Append(r, c) = [n \in 1 .. m + 1 |-> Append(r, c)[n]]
    <3> DEFINE t == Append(r, c)
    <3>1. t \in Seq(Seq(Call)) /\ Len(t) = m + 1
      BY <2>3
    <3> HIDE DEF t
    <3>2. DOMAIN t = 1 .. m + 1 /\ t = [n \in DOMAIN t |-> t[n]]
      BY <3>1
    <3>3. t = [n \in 1 .. m + 1 |-> t[n]]
      BY <3>2
    <3> QED
      BY <3>3 DEF t
  <2> HIDE DEF r, c
  <2>6. Append(r, c) = [n \in 1 .. m + 1 |-> StringCalls(strings'[n], sizes'[n])]
    BY <2>4, <2>5
  <2> QED
    BY <2>2, <2>6 DEF r
<1>13. Stream' \o CallBits(pending') = BitsOfRows(StringRows')
  BY <1>1, <1>4, <1>5, <1>6, <1>7, <1>12, RowsAppend
<1>14. StringsWritten'
  BY <1>1, <1>4, <1>5, <1>6, <1>13 DEF StringsWritten
<1>15. NotForStrings' /\ StringsReadBack'
  BY <1>1 DEF NotForStrings, StringsReadBack, StringPhases
<1> QED
  BY <1>11, <1>14, <1>15 DEF StringsInv

\* A character goes from the calls to the stream.
LEMMA WriteCharInv ==
  ASSUME StringsInv, phase \in StringPhases, WriteField, UNCHANGED string_vars
  PROVE  StringsInv'
<1>1. /\ pending # << >>
      /\ Bits!Write(pending[1][1], pending[1][2])
      /\ pending' = Tail(pending)
      /\ UNCHANGED <<table, index, file, fields, ticks, inflated, phase>>
      /\ UNCHANGED <<strings, sizes, got>>
  BY DEF WriteField, string_vars
<1>2. StringParts /\ NotForStrings /\ StringsWritten /\ StringsReadBack
  BY DEF StringsInv
<1>3. phase = "strings"
  BY <1>1, <1>2 DEF StringPhases, StringsWritten, StringsReadBack
<1>4. /\ Packed!Inv /\ pending \in Seq(Call)
      /\ mode = "WRITE_MODE" /\ fields = << >> /\ got = << >>
      /\ Stream \o CallBits(pending) = BitsOfRows(StringRows)
  BY <1>2, <1>3 DEF StringParts, StringsWritten
<1>5. pending[1] \in Call /\ pending' \in Seq(Call)
  BY <1>1, <1>4
<1>6. /\ Packed!Inv' /\ mode' = mode
      /\ Stream' = Stream \o FieldBits(pending[1][1], pending[1][2])
  BY <1>1, <1>4, <1>5, CallType, WriteBits
<1>7. Stream' \o CallBits(pending') = BitsOfRows(StringRows')
  <2> DEFINE b == FieldBits(pending[1][1], pending[1][2])
             c == CallBits(Tail(pending))
             s == Stream
  <2>1. s \in Seq(Bit) /\ b \in Seq(Bit) /\ c \in Seq(Bit)
    BY <1>1, <1>4, <1>5, BitTypes, StreamType, CallType, BitsOfCalls
  <2>2. s \o CallBits(pending) = BitsOfRows(StringRows) /\ CallBits(pending) = b \o c
    BY <1>1, <1>4, CallBitsTail
  <2>3. Stream' = s \o b /\ CallBits(pending') = c /\ StringRows' = StringRows
    BY <1>1, <1>6 DEF StringRows
  <2> HIDE DEF s, b, c
  <2>4. s \o (b \o c) = (s \o b) \o c
    BY <2>1, Associative
  <2> QED
    BY <2>2, <2>3, <2>4
<1>8. StringsFit'
  BY <1>2 DEF StringParts, StringsFit
<1>9. StringParts'
  BY <1>1, <1>2, <1>6, <1>8 DEF StringParts
<1>10. NotForStrings' /\ StringsReadBack'
  BY <1>1, <1>3 DEF NotForStrings, StringsReadBack, StringPhases
<1>11. StringsWritten'
  BY <1>1, <1>3, <1>4, <1>5, <1>6, <1>7 DEF StringsWritten
<1> QED
  BY <1>9, <1>10, <1>11 DEF StringsInv

\* Flushing puts less than a word of zeros behind the strings.
LEMMA FlushStringsInv ==
  ASSUME StringsInv, FlushStrings
  PROVE  StringsInv'
<1>1. /\ phase = "strings" /\ phase' = "strings_flushed" /\ pending = << >>
      /\ IF buffer_size = BUFFER_CAPACITY THEN UNCHANGED word_vars ELSE Bits!Flush
      /\ UNCHANGED <<table, index, pending, file, fields, ticks, inflated>>
      /\ UNCHANGED <<strings, sizes, got>>
  BY DEF FlushStrings, string_vars
<1>2. StringParts /\ StringsWritten
  BY DEF StringsInv
<1>3. /\ Packed!Inv /\ mode = "WRITE_MODE" /\ fields = << >> /\ got = << >>
      /\ Stream \o CallBits(<< >>) = BitsOfRows(StringRows)
  BY <1>1, <1>2 DEF StringParts, StringsWritten, StringPhases
<1>4. /\ Packed!Inv' /\ mode' = mode /\ buffer_size' = BUFFER_CAPACITY
      /\ \E n \in 0 .. BUFFER_CAPACITY - 1 : Stream' = Stream \o FieldBits({}, n)
  BY <1>1, <1>3, FlushBits
<1>5. Stream = BitsOfRows(StringRows) /\ StringRows' = StringRows
  BY <1>1, <1>3, StreamType, NoBits DEF StringRows
<1>6. Padded(Stream', BitsOfRows(StringRows'))
  BY <1>4, <1>5 DEF Padded
<1>7. StringsFit'
  BY <1>2 DEF StringParts, StringsFit
<1>8. StringParts'
  BY <1>1, <1>2, <1>4, <1>7 DEF StringParts
<1>9. NotForStrings' /\ StringsReadBack'
  BY <1>1 DEF NotForStrings, StringsReadBack, StringPhases
<1>10. StringsWritten'
  BY <1>1, <1>3, <1>4, <1>6 DEF StringsWritten
<1> QED
  BY <1>8, <1>9, <1>10 DEF StringsInv

\* Opened for reading, the buffer has all strings unread.
LEMMA SetReadModeStringsInv ==
  ASSUME StringsInv, SetReadMode
  PROVE  StringsInv'
<1>1. /\ phase = "strings_flushed" /\ phase' = "strings_read"
      /\ Bits!SetReadMode
      /\ UNCHANGED <<table, index, pending, file, fields, ticks, inflated>>
      /\ UNCHANGED <<strings, sizes, got>>
  BY DEF SetReadMode, string_vars
<1>2. StringParts /\ StringsWritten
  BY DEF StringsInv
<1>3. /\ Packed!Inv /\ mode = "WRITE_MODE" /\ fields = << >> /\ got = << >>
      /\ pending = << >> /\ buffer_size = BUFFER_CAPACITY
      /\ Padded(Stream, BitsOfRows(StringRows))
  BY <1>1, <1>2 DEF StringParts, StringsWritten, StringPhases
<1>4. Packed!SetReadMode /\ Packed!Flushed
  BY <1>1, <1>3 DEF Packed!SetReadMode, Bits!SetReadMode, Packed!Flushed
<1>5. Packed!Inv' /\ Packed!Stream' = Packed!Stream
  BY <1>3, <1>4, Packed!SetReadModeInv, Packed!SetReadModeKeeps, PackedAssumptions
<1>6. Stream' = Stream /\ StringRows' = StringRows
  BY <1>1, <1>5, SameStream, SamePrimed DEF Stream, StringRows
<1>7. UnreadFrom(StringRows, 1, 0) = BitsOfRows(StringRows)
  <2>1. StringRows \in Seq(Seq(Call)) /\ Len(StringRows) \in Nat
    BY <1>2, StringRowsType
  <2>2. 1 \in 1 .. Len(StringRows) + 1
    BY <2>1
  <2>3. SubSeq(StringRows, 1, Len(StringRows)) = StringRows
    BY <2>1, SubSeqFull
  <2> QED
    BY <2>1, <2>2, <2>3, UnreadAtStart
<1>8. Padded(Stream', UnreadFrom(StringRows', Len(got') + 1, Len(fields')))
  <2>1. Len(got') + 1 = 1 /\ Len(fields') = 0
    BY <1>1, <1>3
  <2> QED
    BY <1>3, <1>6, <1>7, <2>1
<1>9. StringsReadBack'
  <2>1. Len(got') = 0 /\ Len(fields') = 0 /\ Len(strings') \in Nat
    BY <1>1, <1>2, <1>3 DEF StringParts
  <2>2. /\ pending' = << >> /\ got' = << >> /\ fields' = << >>
        /\ got' \in Seq(Seq(SUBSET Nat)) /\ fields' \in Seq(SUBSET Nat)
    BY <1>1, <1>3
  <2>3. ASSUME Len(got') # Len(strings')
        PROVE  PartlyRead(strings[Len(got) + 1], sizes[Len(got) + 1])'
    <3>1. Len(got) + 1 = 1 /\ 1 \in 1..Len(strings)
      BY <1>1, <1>3, <2>1, <2>3
    <3>2. 0 < sizes[1]
      <4>1. strings[1] \in Strings /\ sizes[1] \in Nat /\ sizes[1] >= Len(strings[1])
        BY <1>2, <3>1 DEF StringParts
      <4>2. Len(strings[1]) \in Nat \ {0}
        BY <1>2, <4>1 DEF StringParts, StringsFit
      <4> QED
        BY <4>1, <4>2
    <3>3. Len(fields') = 0 /\ sizes' = sizes /\ got' = got
      BY <1>1, <2>1
    <3> QED
      BY <3>1, <3>2, <3>3 DEF PartlyRead
  <2> QED
    BY <1>8, <2>1, <2>2, <2>3 DEF StringsReadBack
<1>10. StringsFit'
  BY <1>2 DEF StringParts, StringsFit
<1>11. StringParts'
  BY <1>1, <1>2, <1>5, <1>10 DEF StringParts
<1>12. NotForStrings' /\ StringsWritten'
  BY <1>1 DEF NotForStrings, StringsWritten, StringPhases
<1> QED
  BY <1>9, <1>11, <1>12 DEF StringsInv

\* The character that is put in front is the next one of the string.
LEMMA CharInFront ==
  ASSUME NEW p, NEW f \in Seq(SUBSET Nat), NEW c \in SUBSET Nat,
         \A i \in 1..Len(f) : f[i] = p[Len(f) - i + 1], c = p[Len(f) + 1]
  PROVE  /\ <<c>> \o f \in Seq(SUBSET Nat) /\ Len(<<c>> \o f) = Len(f) + 1
         /\ \A i \in 1 .. Len(f) + 1 : (<<c>> \o f)[i] = p[Len(f) + 1 - i + 1]
<1> DEFINE s == <<c>> \o f
           m == Len(f)
<1>1. /\ s \in Seq(SUBSET Nat) /\ Len(s) = m + 1 /\ m \in Nat
      /\ \A i \in 1 .. m + 1 : s[i] = IF i <= 1 THEN c ELSE f[i - 1]
  OBVIOUS
<1>2. ASSUME NEW i \in 1 .. m + 1 PROVE s[i] = p[m + 1 - i + 1]
  <2>1. CASE i = 1
    <3>1. m + 1 - i + 1 = m + 1
      BY <1>1, <2>1
    <3> QED
      BY <1>1, <2>1, <3>1
  <2>2. CASE i # 1
    <3>1. i - 1 \in 1..m /\ m - (i - 1) + 1 = m + 1 - i + 1 /\ ~(i <= 1)
      BY <1>1, <2>2
    <3> QED
      BY <1>1, <3>1
  <2> QED
    BY <2>1, <2>2
<1> QED
  BY <1>1, <1>2

\* ReadString fetches the next character of the string whose turn it is.
LEMMA CharRead ==
  ASSUME StringsInv, ReadChar
  PROVE  LET k == Len(got) + 1 IN
         /\ k \in 1..Len(strings) /\ Len(strings[k]) \in Nat \ {0}
         /\ sizes[k] \in Nat /\ sizes[k] >= Len(strings[k])
         /\ Len(fields) \in Nat /\ Len(fields) < sizes[k]
         /\ fields \in Seq(SUBSET Nat) /\ reg' \in SUBSET Nat
         /\ reg' = PaddedString(strings[k], sizes[k])[Len(fields) + 1]
         /\ Len(StringRows[k]) = sizes[k]
         /\ Packed!Inv'
         /\ Padded(Stream', UnreadAfter(StringRows, k, Len(fields)))
<1> DEFINE k == Len(got) + 1
           f == Len(fields)
           rs == StringRows
<1>1. phase = "strings_read" /\ Len(got) < Len(sizes) /\ Bits!Read(CHAR_SIZE)
  BY DEF ReadChar
<1>2. StringParts /\ StringsReadBack
  BY DEF StringsInv
<1>3. /\ got \in Seq(Seq(SUBSET Nat)) /\ fields \in Seq(SUBSET Nat)
      /\ Len(got) # Len(strings) => PartlyRead(strings[k], sizes[k])
      /\ Padded(Stream, UnreadFrom(rs, k, f))
      /\ Packed!Inv
  BY <1>1, <1>2 DEF StringsReadBack, StringParts, StringPhases
<1>4. k \in 1..Len(strings) /\ f \in Nat
  BY <1>1, <1>2, <1>3 DEF StringParts
<1>5. f < sizes[k]
  BY <1>1, <1>2, <1>3 DEF PartlyRead, StringParts
<1>6. /\ rs \in Seq(Seq(Call)) /\ Len(rs) = Len(strings) /\ Len(rs[k]) = sizes[k]
      /\ strings[k] \in Strings /\ sizes[k] \in Nat /\ sizes[k] >= Len(strings[k])
      /\ rs[k][f + 1] = <<PaddedString(strings[k], sizes[k])[f + 1], CHAR_SIZE>>
  <2>1. f + 1 \in 1..sizes[k]
    <3>1. sizes[k] \in Nat
      BY <1>2, <1>4, StringRowsType
    <3> HIDE DEF f
    <3> QED
      BY <1>4, <1>5, <3>1
  <2> HIDE DEF k, f
  <2> QED
    BY <1>2, <1>4, <2>1, StringRowsType
<1>7. Len(strings[k]) \in Nat \ {0}
  BY <1>2, <1>6 DEF StringParts, StringsFit
<1> DEFINE c == rs[k][f + 1]
           u == UnreadAfter(rs, k, f)
<1>8. /\ c \in Call /\ u \in Seq(Bit)
      /\ UnreadFrom(rs, k, f) = FieldBits(c[1], c[2]) \o u
  <2> HIDE DEF k, f, rs
  <2> QED
    BY <1>4, <1>5, <1>6, NextChar
<1>9. PICK n \in 0 .. BUFFER_CAPACITY - 1 : Stream = UnreadFrom(rs, k, f) \o FieldBits({}, n)
  BY <1>3 DEF Padded
<1> DEFINE z == FieldBits({}, n)
           x == FieldBits(c[1], c[2])
<1>10. z \in Seq(Bit) /\ x \in Seq(Bit)
  <2>1. n \in Nat
    BY SizesAssumption
  <2> HIDE DEF c
  <2> QED
    BY <1>8, <2>1, CallType, BitTypes
<1>11. Stream = x \o (u \o z) /\ u \o z \in Seq(Bit)
  <2>1. Stream = (x \o u) \o z
    BY <1>8, <1>9
  <2> HIDE DEF x, u, z
  <2> QED
    BY <1>8, <1>10, <2>1, Associative, ConcatProperties
<1>12. c[1] = PaddedString(strings[k], sizes[k])[f + 1] /\ c[2] = CHAR_SIZE
  BY <1>6
<1>13. Packed!Inv' /\ reg' = c[1] /\ Stream' = u \o z
  <2> HIDE DEF c, u, z
  <2> QED
    BY <1>1, <1>3, <1>8, <1>11, <1>12, ReadValue
<1>14. c[1] \in SUBSET Nat
  <2> HIDE DEF c
  <2> QED
    BY <1>8 DEF Call
<1>15. Padded(Stream', u)
  BY <1>13 DEF Padded
<1> HIDE DEF c, u
<1> QED
  BY <1>3, <1>4, <1>5, <1>6, <1>7, <1>12, <1>13, <1>14, <1>15 DEF u

\* Reading a character leaves the strings read so far reversed but intact.
LEMMA ReadCharInv ==
  ASSUME StringsInv, ReadChar
  PROVE  StringsInv'
<1> DEFINE k == Len(got) + 1
           m == Len(fields)
           p == PaddedString(strings[k], sizes[k])
           s == <<reg'>> \o fields
<1>1. /\ phase = "strings_read"
      /\ IF Len(s) < sizes[k]
         THEN fields' = s /\ got' = got
         ELSE fields' = << >> /\ got' = Append(got, s)
      /\ UNCHANGED <<table, index, pending, file, ticks, inflated, phase, strings, sizes>>
  BY DEF ReadChar
<1>2. StringParts /\ StringsReadBack
  BY DEF StringsInv
<1>3. /\ got \in Seq(Seq(SUBSET Nat)) /\ fields \in Seq(SUBSET Nat) /\ pending = << >>
      /\ \A n \in 1..Len(got) : got[n] = Reverse(PaddedString(strings[n], sizes[n]))
      /\ Len(got) # Len(strings) => PartlyRead(strings[k], sizes[k])
  BY <1>1, <1>2 DEF StringsReadBack
<1>4. /\ k \in 1..Len(strings) /\ Len(strings[k]) \in Nat \ {0}
      /\ sizes[k] \in Nat /\ sizes[k] >= Len(strings[k])
      /\ m \in Nat /\ m < sizes[k] /\ reg' \in SUBSET Nat
      /\ reg' = p[m + 1] /\ Len(StringRows[k]) = sizes[k]
      /\ Packed!Inv'
      /\ Padded(Stream', UnreadAfter(StringRows, k, m))
  BY CharRead
<1>5. Len(got) \in Nat /\ Len(got) # Len(strings) /\ k = Len(got) + 1
  BY <1>3, <1>4
<1>6. /\ s \in Seq(SUBSET Nat) /\ Len(s) = m + 1
      /\ \A i \in 1 .. m + 1 : s[i] = p[m + 1 - i + 1]
  <2>1. \A i \in 1..m : fields[i] = p[m - i + 1]
    BY <1>3, <1>5 DEF PartlyRead
  <2> HIDE DEF p
  <2> QED
    BY <1>3, <1>4, <2>1, CharInFront
<1>7. StringRows' = StringRows
  BY <1>1 DEF StringRows
<1>8. StringRows \in Seq(Seq(Call)) /\ Len(StringRows) = Len(strings) /\ Len(strings) \in Nat
  BY <1>2, StringRowsType DEF StringParts
<1>9. StringsFit'
  BY <1>2 DEF StringParts, StringsFit
<1>10. StringParts'
  BY <1>1, <1>2, <1>4, <1>9 DEF StringParts
<1>11. NotForStrings' /\ StringsWritten'
  BY <1>1 DEF NotForStrings, StringsWritten, StringPhases
<1>12. CASE m + 1 < sizes[k]
  <2>1. fields' = s /\ got' = got
    BY <1>1, <1>6, <1>12
  <2>2. UnreadAfter(StringRows, k, m) = UnreadFrom(StringRows, k, m + 1)
    BY <1>4, <1>12 DEF UnreadAfter
  <2>3. Padded(Stream', UnreadFrom(StringRows', Len(got') + 1, Len(fields')))
    BY <1>4, <1>6, <1>7, <2>1, <2>2
  <2>4. PartlyRead(strings[k], sizes[k])'
    <3>1. Len(fields') = m + 1 /\ \A i \in 1..Len(fields') : fields'[i] = p[Len(fields') - i + 1]
      BY <1>6, <2>1
    <3> QED
      BY <1>1, <1>12, <2>1, <3>1 DEF PartlyRead
  <2>5. StringsReadBack'
    BY <1>1, <1>3, <1>5, <1>6, <1>8, <1>4, <2>1, <2>3, <2>4 DEF StringsReadBack
  <2> QED
    BY <1>10, <1>11, <2>5 DEF StringsInv
<1>13. CASE ~(m + 1 < sizes[k])
  <2>1. fields' = << >> /\ got' = Append(got, s) /\ m + 1 = sizes[k]
    BY <1>1, <1>4, <1>6, <1>13
  <2>2. UnreadAfter(StringRows, k, m) = UnreadFrom(StringRows, k + 1, 0)
    BY <1>4, <1>13 DEF UnreadAfter
  <2>3. /\ got' \in Seq(Seq(SUBSET Nat)) /\ Len(got') = k
        /\ got'[k] = s /\ \A n \in 1..Len(got) : got'[n] = got[n]
    BY <1>3, <1>5, <1>6, <2>1, AppendProperties
  <2>4. Padded(Stream', UnreadFrom(StringRows', Len(got') + 1, Len(fields')))
    <3>1. Len(fields') = 0
      BY <2>1
    <3> QED
      BY <1>4, <1>7, <2>2, <2>3, <3>1
  <2>5. s = Reverse(p)
    <3>1. Len(p) = sizes[k]
      <4>1. StringsFit /\ strings[k] \in Strings
        BY <1>2, <1>4 DEF StringParts
      <4> QED
        BY <1>4, <4>1, PaddedChars
    <3>2. Len(s) = sizes[k] /\ \A i \in 1..sizes[k] : s[i] = p[(sizes[k] - i) + 1]
      BY <1>6, <2>1
    <3>3. s = [i \in 1..sizes[k] |-> s[i]]
      <4> HIDE DEF s
      <4> QED
        BY <1>6, <3>2
    <3> HIDE DEF s, p
    <3> QED
      BY <3>1, <3>2, <3>3 DEF Reverse
  <2>6. \A n \in 1..Len(got') : got'[n] = Reverse(PaddedString(strings[n], sizes[n]))
    <3>1. \A n \in 1..Len(got') : n = k \/ n \in 1..Len(got)
      BY <1>5, <2>3
    <3> QED
      BY <1>3, <2>3, <2>5, <3>1
  <2>7. ASSUME Len(got') # Len(strings')
        PROVE  PartlyRead(strings[Len(got) + 1], sizes[Len(got) + 1])'
    <3>1. k + 1 \in 1..Len(strings)
      BY <1>1, <1>4, <1>8, <2>3, <2>7
    <3>2. strings[k + 1] \in Strings /\ sizes[k + 1] \in Nat
          /\ sizes[k + 1] >= Len(strings[k + 1])
      BY <1>2, <3>1, StringRowsType
    <3>3. Len(strings[k + 1]) \in Nat \ {0}
      BY <1>2, <3>2 DEF StringParts, StringsFit
    <3>4. Len(fields') = 0 /\ 0 < sizes[k + 1]
      BY <2>1, <3>2, <3>3
    <3> QED
      BY <1>1, <2>3, <3>4 DEF PartlyRead
  <2>8. Len(got') <= Len(strings') /\ fields' \in Seq(SUBSET Nat)
    BY <1>1, <1>4, <1>8, <2>1, <2>3
  <2>9. StringsReadBack'
    BY <1>1, <1>3, <2>1, <2>3, <2>4, <2>6, <2>7, <2>8 DEF StringsReadBack
  <2> QED
    BY <1>10, <1>11, <2>9 DEF StringsInv
<1> QED
  BY <1>12, <1>13

\* Packing and unpacking ticks never makes an unused buffer one with something in it.
LEMMA TickStepInv ==
  ASSUME StringsInv, phase \notin StringPhases, Next, UNCHANGED string_vars
  PROVE  StringsInv'
<1>1. UNCHANGED <<strings, sizes, got>>
  BY DEF string_vars
<1>2. StringParts /\ NotForStrings
  BY DEF StringsInv
<1>3. /\ phase' \notin StringPhases
      /\ ticks' \in Seq(Ticks)
      /\ phase' = "compress" /\ ticks' = << >> =>
           (Bits!Init /\ pending = << >> /\ fields = << >>)'
  <2>1. ASSUME NEW md \in Ticks, Compress(md)
        PROVE  ticks' \in Seq(Ticks) /\ ticks' # << >> /\ phase' = phase
    <3>1. ticks' = Append(ticks, md) /\ phase' = phase /\ ticks \in Seq(Ticks)
      BY <1>2, <2>1 DEF Compress, StringParts
    <3> QED
      BY <3>1
  <2>2. CASE WriteField
    <3>1. pending # << >> /\ UNCHANGED <<ticks, phase>>
      BY <2>2 DEF WriteField
    <3> QED
      BY <1>2, <3>1 DEF StringParts, NotForStrings
  <2>3. CASE WriteStream
    <3>1. /\ packet' = << >>
          /\ UNCHANGED <<mode, buffer, buffer_size, reg, pending, fields, ticks, phase>>
      BY <2>3 DEF WriteStream
    <3> QED
      BY <1>2, <3>1 DEF StringParts, NotForStrings, Bits!Init
  <2>4. CASE AssertSide \/ CompressEof \/ CloseWriteStream \/ Save \/ Load
    <3>1. phase' \in {"aborted", "flushed", "saved", "inflate"} /\ ticks' = ticks
      BY <2>4 DEF AssertSide, CompressEof, CloseWriteStream, Save, Load
    <3> QED
      BY <1>2, <3>1 DEF StringParts, StringPhases
  <2>5. CASE ReadField
    <3>1. phase' \in {"inflate", "done"} /\ ticks' = ticks
      BY <2>5 DEF ReadField
    <3> QED
      BY <1>2, <3>1 DEF StringParts, StringPhases
  <2>6. CASE Finished
    <3>1. phase \in {"done", "aborted", "saved"} /\ phase' = phase /\ ticks' = ticks
      BY <2>6 DEF Finished, vars
    <3> QED
      BY <1>2, <3>1 DEF StringParts, StringPhases
  <2> QED
    BY <2>1, <2>2, <2>3, <2>4, <2>5, <2>6 DEF Next
<1>4. StringsFit'
  BY <1>2 DEF StringParts, StringsFit
<1>5. StringParts'
  BY <1>1, <1>2, <1>3, <1>4 DEF StringParts
<1>6. NotForStrings'
  BY <1>1, <1>2, <1>3 DEF NotForStrings
<1>7. StringsWritten' /\ StringsReadBack'
  BY <1>3 DEF StringsWritten, StringsReadBack, StringPhases
<1> QED
  BY <1>5, <1>6, <1>7 DEF StringsInv

\* Of those steps a buffer used for strings takes only the writing of a character.
LEMMA StringStepInv ==
  ASSUME StringsInv, phase \in StringPhases, Next, UNCHANGED string_vars
  PROVE  StringsInv'
<1>1. phase \notin {"compress", "aborted", "flushed", "saved", "inflate", "done"}
  BY DEF StringPhases
<1>2. WriteField
  BY <1>1 DEF Next, Compress, AssertSide, WriteStream, CompressEof, CloseWriteStream, Save, Load,
              ReadField, Finished
<1> QED
  BY <1>2, WriteCharInv

\* A step that changes nothing keeps the invariant.
LEMMA StutterStringsInv ==
  ASSUME StringsInv, UNCHANGED svars
  PROVE  StringsInv'
<1>1. UNCHANGED <<packet, mode, buffer, buffer_size, reg, table, index, pending, file,
                  fields, ticks, inflated, phase, strings, sizes, got>>
  BY DEF svars, vars, word_vars, string_vars
<1>2. StringParts /\ NotForStrings /\ StringsWritten /\ StringsReadBack
  BY DEF StringsInv
<1>3. StringsFit'
  BY <1>2 DEF StringParts, StringsFit
<1>4. Packed!Inv' = Packed!Inv
  BY <1>1 DEF Packed!Inv, Packed!TypeOK, Packed!SpareBitsClear
<1>5. StringParts'
  BY <1>1, <1>2, <1>3, <1>4 DEF StringParts
<1>6. NotForStrings'
  BY <1>1, <1>2 DEF NotForStrings, Bits!Init
<1>7. Stream' = Stream /\ StringRows' = StringRows
  BY <1>1 DEF Stream, Bits!Stream, StringRows
<1>8. StringsWritten'
  BY <1>1, <1>2, <1>7 DEF StringsWritten
<1>9. StringsReadBack'
  BY <1>1, <1>2, <1>7 DEF StringsReadBack, PartlyRead
<1> QED
  BY <1>5, <1>6, <1>8, <1>9 DEF StringsInv

\* Every step keeps the invariant.
LEMMA NextStringsInv == StringsInv /\ [SNext]_svars => StringsInv'
<1> SUFFICES ASSUME StringsInv, [SNext]_svars PROVE StringsInv'
  OBVIOUS
<1>1. CASE Next /\ UNCHANGED string_vars
  BY <1>1, TickStepInv, StringStepInv
<1>2. ASSUME NEW chars \in Strings, NEW pad \in 0..MaxPad,
             WriteString(chars, Len(chars) + pad)
      PROVE  StringsInv'
  BY <1>2, WriteStringInv
<1>3. CASE FlushStrings
  BY <1>3, FlushStringsInv
<1>4. CASE SetReadMode
  BY <1>4, SetReadModeStringsInv
<1>5. CASE ReadChar
  BY <1>5, ReadCharInv
<1>6. CASE AllRead \/ UNCHANGED svars
  BY <1>6, StutterStringsInv DEF AllRead
<1> QED
  BY <1>1, <1>2, <1>3, <1>4, <1>5, <1>6 DEF SNext

-----------------------------------------------------------------------------
(* The theorem.                                                            *)

\* Whatever strings are packed into whatever fields, and however they fall across the
\* words, ReadString gives each back with its own characters and its padding, in the
\* opposite order, and takes none of another string or of the zeros at the end.
THEOREM ReversedButIntactHolds == StringsFit /\ SSpec => []ReversedButIntact
<1>1. StringsInv => ReversedButIntact
  <2> SUFFICES ASSUME StringsInv, NEW n \in DOMAIN got
               PROVE  got[n] = Reverse(PaddedString(strings[n], sizes[n]))
    BY DEF ReversedButIntact
  <2>1. CASE phase = "strings_read"
    <3>1. got \in Seq(Seq(SUBSET Nat))
      BY <2>1 DEF StringsInv, StringsReadBack
    <3>2. n \in 1..Len(got)
      BY <3>1
    <3> QED
      BY <2>1, <3>2 DEF StringsInv, StringsReadBack
  <2>2. CASE phase # "strings_read"
    <3>1. got = << >>
      BY <2>2 DEF StringsInv, NotForStrings, StringsWritten, StringPhases
    <3> QED
      BY <3>1
  <2> QED
    BY <2>1, <2>2
<1>2. StringsFit /\ SInit => StringsInv
  BY InitStringsInv
<1>3. StringsInv /\ [SNext]_svars => StringsInv'
  BY NextStringsInv
<1> QED
  BY <1>1, <1>2, <1>3, PTL DEF SSpec
=============================================================================
