--------------------------- MODULE MCDataChannel ---------------------------
EXTENDS DataChannel
=============================================================================
