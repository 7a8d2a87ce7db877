---------------------------- MODULE MCDriftCheck ----------------------------
(***************************************************************************)
(* Instances of DriftCheck for TLC.  Version 1 is a placeholder and has    *)
(* not the shape of an Anthropic key.                                      *)
(***************************************************************************)
EXTENDS DriftCheck

MCStarts == {[s \in Secrets |-> [f \in Fields |-> v]] : v \in {1, 2}}
MCLifetimes == {"8760h", "720h"}
=============================================================================
