---------------------------- MODULE MCPriceText ----------------------------
\* Short texts and a precision of two digits: a text may have more digits than are
\* printed, zeros at the end, or a value printed in the scientific notation.
EXTENDS PriceText
=============================================================================
