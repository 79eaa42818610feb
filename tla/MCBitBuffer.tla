---------------------------- MODULE MCBitBuffer ----------------------------
EXTENDS BitBuffer

AllWidths == 1..BUFFER_CAPACITY
=============================================================================
