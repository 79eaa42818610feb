---------------------------- MODULE MCBatBuffer ----------------------------
EXTENDS MCMaxShares

\* A tick of zeros, one with every bit of its fields set that the fields' ranges
\* allow (characters are ASCII), and one with the edges of the halves set.
ZeroTick == Tick("max", {}, "B", {}, {}, {}, {}, {})
FullTick == Tick("top", 0..6, "T", 0..6, 0..36, 0..36, 0..63, 0..19)
EdgeTick == Tick("top", {6}, "A", {0}, {36, 31}, {32, 0}, {63, 32, 31, 0}, {19, 0})

ValidTicks == {ZeroTick, FullTick, EdgeTick}

ASSUME TicksFit

\* "q", "Hi" and "Hey": together they end at every byte of a word.
ShortStrings ==
  {<<{0, 4, 5, 6}>>, <<{3, 6}, {0, 3, 5, 6}>>, <<{3, 6}, {0, 2, 5, 6}, {0, 3, 4, 5, 6}>>}

ASSUME StringsFit
=============================================================================
