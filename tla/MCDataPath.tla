----------------------------- MODULE MCDataPath -----------------------------
(***************************************************************************)
(* One read request, two packets, and the two routine threads that the     *)
(* pump needs: one whose routine reads on and one for that read.           *)
(***************************************************************************)
EXTENDS DataPath

CONSTANTS t1, t2, r1
TwoRoutines == {t1, t2}
OneRead    == {r1}
=============================================================================
