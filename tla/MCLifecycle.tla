---------------------------- MODULE MCLifecycle ----------------------------
(***************************************************************************)
(* Model values for the life of the parent device.                         *)
(***************************************************************************)
EXTENDS Lifecycle

CONSTANTS r1, r2

TwoRadios == {r1, r2}
=============================================================================
