---------------------------- MODULE MCMaxShares ----------------------------
EXTENDS StringField

Tick(ticker, exchange, side, condition, time, reptime, price, size) ==
  [ticker |-> ticker, exchange |-> exchange, side |-> side, condition |-> condition,
   time |-> time, reptime |-> reptime, price |-> price, size |-> size]

\* 2^20 shares, the most the README assumes.
MaxSharesTicks == {Tick("max", {}, "B", {}, {}, {}, {}, {20})}
=============================================================================
