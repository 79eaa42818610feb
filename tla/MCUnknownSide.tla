--------------------------- MODULE MCUnknownSide ---------------------------
EXTENDS MCMaxShares

\* Sizes small enough for a word boundary to fall on every field of a record: one with
\* the edges of its fields set, and two whose side is none of the three, with an
\* exchange of zeros, so that every bit that lands on it shows, and of ones.
KnownSide   == Tick("max", {0, 2}, "A", {1}, {0, 8}, {7}, {0, 15}, {3})
UnknownSide == Tick("top", {}, "X", {2}, {8}, {0}, {8}, {0})
OtherSide   == Tick("top", {0, 1, 2}, "X", {}, {}, {}, {}, {})

SomeSidesUnknown == {KnownSide, UnknownSide, OtherSide}
=============================================================================
