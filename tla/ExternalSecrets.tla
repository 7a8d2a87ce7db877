--------------------------- MODULE ExternalSecrets ---------------------------
(***************************************************************************)
(* One secret on its way from AWS Secrets Manager (ASM) to a workload:     *)
(* deploy/platform/external-secrets.  The External Secrets Operator (ESO)  *)
(* copies every JSON field of the ASM secret into the Kubernetes Secret of *)
(* the ExternalSecret, on an hourly timer; a workload reads its Secret     *)
(* when it starts.  Whoever writes ASM extends this module.                *)
(*                                                                         *)
(* A field value is a version number; 0 is a field that is not there.      *)
(***************************************************************************)
EXTENDS Naturals

CONSTANT Fields     \* the JSON fields of the ASM secret

ASSUME FieldsAssumption == Fields # {}

VARIABLES
    asm,    \* the ASM secret
    k8s,    \* the Kubernetes Secret
    app     \* what the running workload loaded

secretVars == <<asm, k8s, app>>

Payload == [Fields -> Nat]
Nothing == [f \in Fields |-> 0]

SecretTypeOK == asm \in Payload /\ k8s \in Payload /\ app \in Payload

SecretInit == asm = Nothing /\ k8s = Nothing /\ app = Nothing

AsmExists == asm # Nothing

(* Mutation: refreshInterval: 0, which fetches a secret only once.         *)
RefreshOnce ==
    /\ AsmExists
    /\ k8s' = IF k8s = Nothing THEN asm ELSE k8s
    /\ UNCHANGED <<asm, app>>

(* refreshInterval: 1h, dataFrom.extract.  A missing ASM secret leaves the *)
(* Kubernetes Secret as it is (the ExternalSecret reports SecretSyncError).*)
Refresh ==
    /\ AsmExists
    /\ k8s' = asm
    /\ UNCHANGED <<asm, app>>

(* The workload's pods start, or are rolled by the operator.               *)
Restart ==
    /\ k8s # Nothing
    /\ app' = k8s
    /\ UNCHANGED <<asm, k8s>>
=============================================================================
