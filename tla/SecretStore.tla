----------------------------- MODULE SecretStore -----------------------------
(***************************************************************************)
(* The secrets declared in deploy/platform/external-secrets: for each, a   *)
(* JSON object in AWS Secrets Manager (ASM) and a Secret in the cluster.   *)
(* Once its ExternalSecrets are applied, the External Secrets Operator     *)
(* (ESO) owns the Secrets and refreshes each on a timer.  Operators write  *)
(* new values by hand on either side; a script may put any values that     *)
(* exist already into ASM (WriteAsm).                                      *)
(*                                                                         *)
(* A field value is a version number, each written once by hand; 0 is a    *)
(* field that is not there.  A secret without fields does not exist.       *)
(***************************************************************************)
EXTENDS Naturals

CONSTANTS
    Secrets,    \* the ExternalSecrets
    Fields,     \* the data keys
    Hands,      \* what operators do
    MaxVersion, \* bound on versions
    Starts      \* what the Secrets of the cluster may hold at the start

ASSUME StoreAssumption ==
    /\ Secrets # {} /\ Fields # {}
    /\ Hands \subseteq {"rotate", "edit"}
    /\ MaxVersion \in Nat
    /\ Starts \subseteq [Secrets -> [Fields -> 0 .. MaxVersion]]

VARIABLES
    asm,        \* the ASM secrets
    k8s,        \* the Secrets of the cluster
    adopted,    \* the ExternalSecrets are applied
    newest      \* the last version written

storeVars == <<asm, k8s, adopted, newest>>

Payload == [Fields -> Nat]
Nothing == [f \in Fields |-> 0]

(* Before the first migration: the set-up of the applications made the     *)
(* Secrets, and ASM holds nothing.                                         *)
StoreInit ==
    /\ asm = [s \in Secrets |-> Nothing]
    /\ k8s \in Starts
    /\ adopted = FALSE
    /\ newest \in {n \in 0 .. MaxVersion :
                      /\ \A s \in Secrets, f \in Fields : k8s[s][f] <= n
                      /\ \E s \in Secrets, f \in Fields : k8s[s][f] = n}

NextVersion == newest < MaxVersion /\ newest' = newest + 1

(* A new value in ASM.                                                     *)
Rotate ==
    /\ "rotate" \in Hands
    /\ NextVersion
    /\ \E s \in Secrets, f \in Fields :
          asm[s] # Nothing /\ asm' = [asm EXCEPT ![s][f] = newest + 1]
    /\ UNCHANGED <<k8s, adopted>>

(* kubectl edit secret.                                                    *)
EditSecret ==
    /\ "edit" \in Hands
    /\ NextVersion
    /\ \E s \in Secrets, f \in Fields :
          k8s[s] # Nothing /\ k8s' = [k8s EXCEPT ![s][f] = newest + 1]
    /\ UNCHANGED <<asm, adopted>>

(* kubectl apply -f secretstore-and-externalsecrets.yaml                   *)
Adopt ==
    /\ ~adopted /\ adopted' = TRUE
    /\ UNCHANGED <<asm, k8s, newest>>

(* Mutation: a refresh takes only the values that are newer.               *)
RefreshSecretNewer(s) ==
    /\ adopted /\ asm[s] # Nothing
    /\ k8s' = [k8s EXCEPT ![s] = [f \in Fields |-> IF asm[s][f] > @[f] THEN asm[s][f] ELSE @[f]]]
    /\ UNCHANGED <<asm, adopted, newest>>

(* refreshInterval: 1h, dataFrom.extract, creationPolicy: Owner.           *)
RefreshSecret(s) ==
    /\ adopted /\ asm[s] # Nothing
    /\ k8s' = [k8s EXCEPT ![s] = asm[s]]
    /\ UNCHANGED <<asm, adopted, newest>>

(* A script puts a payload of existing values under one name.              *)
WriteAsm ==
    /\ \E s \in Secrets, p \in [Fields -> 0 .. newest] \ {Nothing} :
          asm' = [asm EXCEPT ![s] = p]
    /\ UNCHANGED <<k8s, adopted, newest>>

ByHand == Rotate \/ EditSecret
Operator == Adopt \/ \E s \in Secrets : RefreshSecret(s)

StoreNext == ByHand \/ Operator \/ WriteAsm

StoreSpec == StoreInit /\ [][StoreNext]_storeVars
=============================================================================
