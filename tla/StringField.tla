---------------------------- MODULE StringField ----------------------------
(***************************************************************************)
(* WriteString and ReadString of BatBuffer: strings packed one after        *)
(* another, in fields of a given count of characters, and read back.  A     *)
(* buffer is used for strings, as the tests do, or for ticks (BatBuffer).   *)
(***************************************************************************)
EXTENDS BatBuffer

CONSTANTS
  Strings,      \* the strings, sequences of characters
  MaxPad,       \* bound: spaces added to a string
  MaxStrings    \* bound: strings written

ASSUME StringsAssumption == MaxPad \in Nat /\ MaxStrings \in Nat

VARIABLES
  strings,      \* the strings written
  sizes,        \* and the counts of characters they were packed into
  got           \* the strings read

string_vars == <<strings, sizes, got>>
svars == <<vars, string_vars>>

SInit ==
  /\ Init
  /\ strings = << >>
  /\ sizes = << >>
  /\ got = << >>

WriteString(chars, size) ==
  /\ phase = "strings" \/ (phase = "compress" /\ ticks = << >>)
  /\ pending = << >>
  /\ Len(strings) < MaxStrings
  /\ pending' = Zip(StringValues(chars, size), [n \in 1..size |-> CHAR_SIZE])
  /\ strings' = Append(strings, chars)
  /\ sizes' = Append(sizes, size)
  /\ phase' = "strings"
  /\ UNCHANGED <<word_vars, table, index, file, fields, ticks, inflated, got>>

FlushStrings ==
  /\ phase = "strings"
  /\ pending = << >>
  /\ IF buffer_size = BUFFER_CAPACITY THEN UNCHANGED word_vars ELSE Bits!Flush
  /\ phase' = "strings_flushed"
  /\ UNCHANGED <<table, index, pending, file, fields, ticks, inflated, string_vars>>

SetReadMode ==
  /\ phase = "strings_flushed"
  /\ Bits!SetReadMode
  /\ phase' = "strings_read"
  /\ UNCHANGED <<table, index, pending, file, fields, ticks, inflated, string_vars>>

\* ReadString puts each character in front of those it has.
ReadChar ==
  /\ phase = "strings_read"
  /\ Len(got) < Len(sizes)
  /\ Bits!Read(CHAR_SIZE)
  /\ LET s == <<reg'>> \o fields IN
     IF Len(s) < sizes[Len(got) + 1]
     THEN fields' = s /\ got' = got
     ELSE fields' = << >> /\ got' = Append(got, s)
  /\ UNCHANGED <<table, index, pending, file, ticks, inflated, phase, strings, sizes>>

AllRead == phase = "strings_read" /\ Len(got) = Len(sizes) /\ UNCHANGED svars

SNext ==
  \/ Next /\ UNCHANGED string_vars
  \/ \E chars \in Strings : \E pad \in 0..MaxPad : WriteString(chars, Len(chars) + pad)
  \/ FlushStrings
  \/ SetReadMode
  \/ ReadChar
  \/ AllRead

SSpec == SInit /\ [][SNext]_svars

-----------------------------------------------------------------------------
(* What the callers promise.                                               *)

\* A string has a character, each is ASCII, and a field of one holds a space.
StringsFit ==
  /\ Strings \subseteq Seq(SUBSET (0 .. CHAR_SIZE - 2)) \ {<< >>}
  /\ CHAR_SIZE >= 6

-----------------------------------------------------------------------------
(* Properties.                                                             *)

Spaces(n) == [i \in 1..n |-> {5}]

PaddedString(chars, size) == Spaces(size - Len(chars)) \o chars

\* Strings come back in the order they were written and with their own characters, but
\* each the wrong way round, with its padding behind it: only a string of one character,
\* as ReadExchance and ReadCondition read, is the same.
ReversedButIntact ==
  \A n \in DOMAIN got : got[n] = Reverse(PaddedString(strings[n], sizes[n]))
=============================================================================
