------------------------------ MODULE MCEnvDocs ------------------------------
(***************************************************************************)
(* Instances of EnvDocs for TLC.                                           *)
(***************************************************************************)
EXTENDS EnvDocs

MCFields == {"secret", "key"}
MCFlagSets == {{}, {"mirror"}, {"apply"}, {"dns"}}
=============================================================================
