---------------------------- MODULE MCOidcClient ----------------------------
(***************************************************************************)
(* Instances of OidcClient for TLC.                                        *)
(***************************************************************************)
EXTENDS OidcClient, TLC

CONSTANTS r1, r2

MCFields == {"secret", "key"}
Overlapping == Permutations({r1, r2})
=============================================================================
