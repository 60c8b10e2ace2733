----------------------------- MODULE MCIosPeer -----------------------------
EXTENDS IosPeer, TLC
=============================================================================
