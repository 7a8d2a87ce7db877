--------------------------- MODULE SecretMigration ---------------------------
(***************************************************************************)
(* scripts/migrate-secrets-to-asm.py: copy the runtime Secrets of the      *)
(* cluster into AWS Secrets Manager (ASM), one after the other, so that    *)
(* the External Secrets Operator (ESO) can sync them back.  A run may be   *)
(* refused at any request (check=True: it raises) or die; operators rotate *)
(* values in ASM and edit Secrets with kubectl meanwhile.                  *)
(*                                                                         *)
(* The store is that of SecretStore, whose WriteAsm a run makes true.      *)
(***************************************************************************)
EXTENDS SecretStore

CONSTANT Refused    \* the requests that may be refused

SecretRequests == {"k8sRead", "asmRead", "asmWrite"}

ASSUME MigrationAssumption == Refused \subseteq SecretRequests

VARIABLES
    mig,        \* the migration run
    calm,       \* history: the run started with both sides equal, and
                \* nobody has written by hand since
    quiet,      \* history: nobody has written by hand since the run started
    settled     \* history: a run exited 0, quiet, and nobody has written by
                \* hand or started another since

migVars == <<mig, calm, quiet, settled>>
vars == <<storeVars, migVars>>

Migration == [at : {"idle", "read", "describe", "put", "create"},
              dry : BOOLEAN, todo : SUBSET Secrets,
              cur : Secrets \cup {"none"}, got : Payload]

NoMigration == [at |-> "idle", dry |-> FALSE, todo |-> {}, cur |-> "none",
                got |-> Nothing]

MigInit ==
    /\ mig = NoMigration
    /\ calm = FALSE /\ quiet = FALSE /\ settled = FALSE

-----------------------------------------------------------------------------
(* The run.                                                                *)

MigDies ==
    /\ mig' = NoMigration
    /\ calm' = FALSE /\ quiet' = FALSE
    /\ UNCHANGED settled

MigStart ==
    /\ mig.at = "idle"
    /\ \E dry \in BOOLEAN :
          mig' = [NoMigration EXCEPT !.at = "read", !.dry = dry, !.todo = Secrets]
    /\ calm' = (asm = k8s) /\ quiet' = TRUE /\ settled' = FALSE
    /\ UNCHANGED storeVars

(* Mutation: a key that is missing gets a value of its own.                *)
ReadSecretDefaults ==
    /\ mig.at = "read"
    /\ \E s \in mig.todo :
          /\ k8s[s] # Nothing
          /\ mig' = [mig EXCEPT !.todo = @ \ {s}, !.cur = s,
                                !.got = [f \in Fields |-> IF k8s[s][f] = 0 THEN newest + 1 ELSE k8s[s][f]],
                                !.at = IF mig.dry THEN "read" ELSE "describe"]
    /\ UNCHANGED <<storeVars, calm, quiet, settled>>

(* Mutation: the Secret of that name is read in any namespace.             *)
ReadSomeSecret ==
    /\ mig.at = "read"
    /\ \E s \in mig.todo, t \in Secrets :
          /\ k8s[t] # Nothing
          /\ mig' = IF mig.dry
                    THEN [mig EXCEPT !.todo = @ \ {s}]
                    ELSE [mig EXCEPT !.todo = @ \ {s}, !.at = "describe",
                                     !.cur = s, !.got = k8s[t]]
    /\ UNCHANGED <<storeVars, calm, quiet, settled>>

(* read_k8s_secret; a dry run prints the keys and goes on to the next.     *)
ReadSecret ==
    /\ mig.at = "read"
    /\ \E s \in mig.todo :
          \/ /\ k8s[s] # Nothing
             /\ mig' = IF mig.dry
                       THEN [mig EXCEPT !.todo = @ \ {s}]
                       ELSE [mig EXCEPT !.todo = @ \ {s}, !.at = "describe",
                                        !.cur = s, !.got = k8s[s]]
             /\ UNCHANGED <<calm, quiet, settled>>
          \/ (k8s[s] = Nothing \/ "k8sRead" \in Refused) /\ MigDies
    /\ UNCHANGED storeVars

(* Mutation: a failed describe-secret is tried again later.                *)
DescribeSecretLater ==
    /\ mig.at = "describe"
    /\ mig' = [mig EXCEPT !.at = IF asm[mig.cur] # Nothing THEN "put" ELSE "later"]
    /\ UNCHANGED <<storeVars, calm, quiet, settled>>

(* asm_exists: any failure of describe-secret counts as "no".              *)
DescribeSecret ==
    /\ mig.at = "describe"
    /\ \/ asm[mig.cur] # Nothing /\ mig' = [mig EXCEPT !.at = "put"]
       \/ /\ asm[mig.cur] = Nothing \/ "asmRead" \in Refused
          /\ mig' = [mig EXCEPT !.at = "create"]
    /\ UNCHANGED <<storeVars, calm, quiet, settled>>

(* The payload is in ASM: on to the next secret.                           *)
Copies ==
    /\ asm' = [asm EXCEPT ![mig.cur] = mig.got]
    /\ mig' = [mig EXCEPT !.at = "read", !.cur = "none", !.got = Nothing]
    /\ UNCHANGED <<k8s, adopted, newest, calm, quiet, settled>>

(* Mutation: create-secret without check=True.                             *)
CreateAnyway ==
    /\ mig.at = "create"
    /\ \/ asm[mig.cur] = Nothing /\ Copies
       \/ /\ asm[mig.cur] # Nothing
          /\ mig' = [mig EXCEPT !.at = "read", !.cur = "none", !.got = Nothing]
          /\ UNCHANGED <<storeVars, calm, quiet, settled>>

(* put_asm, put-secret-value.                                              *)
PutSecret ==
    /\ mig.at = "put"
    /\ \/ Copies
       \/ "asmWrite" \in Refused /\ MigDies /\ UNCHANGED storeVars

(* put_asm, create-secret: refused if the secret exists.                   *)
CreateAsmSecret ==
    /\ mig.at = "create"
    /\ \/ asm[mig.cur] = Nothing /\ Copies
       \/ /\ asm[mig.cur] # Nothing \/ "asmWrite" \in Refused
          /\ MigDies
          /\ UNCHANGED storeVars

(* The loop is over: exit 0.                                               *)
MigExit ==
    /\ mig.at = "read" /\ mig.todo = {}
    /\ mig' = NoMigration
    /\ settled' = (quiet /\ ~mig.dry)
    /\ calm' = FALSE /\ quiet' = FALSE
    /\ UNCHANGED storeVars

MigCrash == mig.at # "idle" /\ MigDies /\ UNCHANGED storeVars

MigStep == ReadSecret \/ DescribeSecret \/ PutSecret \/ CreateAsmSecret \/ MigExit

MigNext == MigStart \/ MigStep \/ MigCrash

-----------------------------------------------------------------------------
Init == StoreInit /\ MigInit

HandNext ==
    /\ ByHand
    /\ calm' = FALSE /\ quiet' = FALSE /\ settled' = FALSE
    /\ UNCHANGED mig

SyncNext(s) == RefreshSecret(s) /\ UNCHANGED migVars

Next ==
    \/ MigNext
    \/ HandNext
    \/ Adopt /\ UNCHANGED migVars
    \/ \E s \in Secrets : SyncNext(s)

Spec == Init /\ [][Next]_vars

(* ESO refreshes on its timer.  Nobody has to run the script or to apply   *)
(* the ExternalSecrets.                                                    *)
FairSpec == Spec /\ \A s \in Secrets : WF_vars(SyncNext(s))

-----------------------------------------------------------------------------
(* Properties.                                                             *)

(* The type invariant.                                                     *)
TypeOK ==
    /\ asm \in [Secrets -> Payload] /\ k8s \in [Secrets -> Payload]
    /\ adopted \in BOOLEAN /\ newest \in Nat
    /\ mig \in Migration
    /\ calm \in BOOLEAN /\ quiet \in BOOLEAN /\ settled \in BOOLEAN

(* "Reads the live cluster secrets and writes the exact same key/value     *)
(* map": when a run exits 0 while nobody wrote by hand, before the         *)
(* ExternalSecrets are applied, every ASM secret equals its Secret --      *)
(* whatever refused or dead runs left behind.                              *)
CleanMigrationCopies == settled /\ ~adopted => asm = k8s

(* "Idempotent": a run that starts with both sides equal, with nobody      *)
(* writing by hand meanwhile, changes no value in ASM, whatever is refused *)
(* and wherever it dies.                                                   *)
SyncedRunIsNoOp == [][MigNext /\ calm => asm' = asm]_vars

(* "so External Secrets Operator can sync them back into the cluster": what*)
(* a run copied and the Secret of the cluster come to agree, also when ESO *)
(* refreshed a Secret after the run had read it.                           *)
MigrationArrives ==
    \A s \in Secrets : settled /\ adopted ~> (asm[s] = k8s[s] \/ ~settled)

(* Whatever a run does to the secrets, other than reading them, is a       *)
(* WriteAsm of values that existed: what DriftCheck assumes of writers.    *)
WritesLikeAScript == StoreSpec
=============================================================================
