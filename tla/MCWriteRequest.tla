--------------------------- MODULE MCWriteRequest ---------------------------
(***************************************************************************)
(* Model values for the write path.                                        *)
(***************************************************************************)
EXTENDS WriteRefinement

CONSTANTS w1, w2

MCWrites == {w1, w2}
=============================================================================
