----------------------------- MODULE MCReadQueue -----------------------------
(***************************************************************************)
(* Model values for the read requests.                                     *)
(***************************************************************************)
EXTENDS ReadQueue

CONSTANTS r1, r2, r3

OneRead    == {r1}
ThreeReads == {r1, r2, r3}
=============================================================================
