--------------------------- MODULE MCArmAndAdmit ---------------------------
(* ArmAndAdmit on a small instance: two armers, of one run directory or of  *)
(* two.                                                                     *)
EXTENDS ArmAndAdmit

CONSTANTS a1, a2, d1, d2
=============================================================================
