--------------------------- MODULE MCCombinators ---------------------------
EXTENDS Combinators
CONSTANTS p1, p2

\* No argument, the same twice, two.
ArgumentsOf == {<<>>, <<p1, p1>>, <<p1, p2>>}
=============================================================================
