---------------------------- MODULE MCTableFile ----------------------------
EXTENDS TableFile, TLC

\* The tickers are interchangeable.
TickerSymmetry == Permutations(Symbols)
=============================================================================
