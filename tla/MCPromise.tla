----------------------------- MODULE MCPromise -----------------------------
EXTENDS Promise
=============================================================================
