-------------------------- MODULE MCSecretMigration --------------------------
(***************************************************************************)
(* Instances of SecretMigration for TLC.  Versions 1 and 2 are there at    *)
(* the start, in Secrets with one or both of the keys; or one Secret of    *)
(* MAPPING is not deployed.                                                *)
(***************************************************************************)
EXTENDS SecretMigration

MCStarts == {[s \in Secrets |-> [f \in Fields |-> IF f = "key" THEN v ELSE w]] :
                v \in {1, 2}, w \in {0, 1}}
            \cup {[s \in Secrets |-> [f \in Fields |-> IF s = "coder-ai" THEN 1 ELSE 0]]}
=============================================================================
