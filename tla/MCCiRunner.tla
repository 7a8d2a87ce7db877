----------------------------- MODULE MCCiRunner -----------------------------
(***************************************************************************)
(* Instances of CiRunner for TLC.                                          *)
(***************************************************************************)
EXTENDS CiRunner, TLC

CONSTANTS r1, r2

MCFields == {"runner-token"}
Overlapping == Permutations({r1, r2})
=============================================================================
