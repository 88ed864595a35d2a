--------------------------- MODULE MCResultFetch ---------------------------
\* A long result set beside a short one, on one transport.
EXTENDS ResultFetch, TLC

CONSTANTS c1, c2

MCCursors == {c1, c2}
MCMaxRows == c1 :> 3 @@ c2 :> 1
=============================================================================
