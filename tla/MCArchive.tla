----------------------------- MODULE MCArchive -----------------------------
EXTENDS Archive

TickerSymmetry == Permutations(Symbols)
=============================================================================
