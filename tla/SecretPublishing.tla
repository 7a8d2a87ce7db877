-------------------------- MODULE SecretPublishing --------------------------
(***************************************************************************)
(* What the set-up scripts promise of the secret they keep in AWS Secrets  *)
(* Manager, however they come by its fields: it is written whole or not at *)
(* all, the Secret of the cluster is only ever a copy of it, and a         *)
(* workload only loads what the Secret holds.  OidcClient and CiRunner     *)
(* implement it.                                                           *)
(***************************************************************************)
EXTENDS Naturals

CONSTANTS
    Fields,     \* the fields of the secret
    Required    \* those that must be there for the workload to start

VARIABLES
    source,     \* the secret in AWS Secrets Manager
    copy,       \* the Secret of the cluster
    loaded      \* what the workload runs with

Absent == [f \in Fields |-> 0]

Whole(p) == p \in [Fields -> Nat] /\ \A f \in Required : p[f] # 0

Init == source = Absent /\ copy = Absent /\ loaded = Absent

Publish == Whole(source') /\ UNCHANGED <<copy, loaded>>

Sync == source # Absent /\ copy' = source /\ UNCHANGED <<source, loaded>>

Load == copy # Absent /\ loaded' = copy /\ UNCHANGED <<source, copy>>

Spec == Init /\ [][Publish \/ Sync \/ Load]_<<source, copy, loaded>>
=============================================================================
