----------------------------- MODULE MCReadPump -----------------------------
(***************************************************************************)
(* Model values for the read pump.                                         *)
(***************************************************************************)
EXTENDS ReadPump

CONSTANTS t1, t2, t3

ThreeRoutines == {t1, t2, t3}
=============================================================================
