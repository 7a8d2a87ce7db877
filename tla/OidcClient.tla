----------------------------- MODULE OidcClient -----------------------------
(***************************************************************************)
(* scripts/setup-kiali-oidc.py, setup-grafana-oidc.py, setup-gitlab-oidc.py*)
(* and the OIDC half of setup-envdocs.py: register a confidential client   *)
(* in the Keycloak realm and publish its secret to ASM.  The four share    *)
(* their functions; Kiali and envdocs also keep a generated key (Kiali's   *)
(* signing key, oauth2-proxy's cookie secret) in the same ASM secret.      *)
(*                                                                         *)
(* Runs may overlap, each request may fail or be the last before the run   *)
(* dies, and a Keycloak administrator may rotate the secret meanwhile.     *)
(* The helper kc returns an error body where the caller expects JSON: most *)
(* callers then raise TypeError, but an empty body passes for "nothing     *)
(* found", and client_secret takes any error for "no secret yet".  The     *)
(* client is updated by a PUT of the whole representation that was read,   *)
(* its secret included.                                                    *)
(*                                                                         *)
(* A generated key that is absent or malformed is 0.                       *)
(***************************************************************************)
EXTENDS ExternalSecrets, FiniteSets

CONSTANTS
    Runs,       \* executions of the script, possibly overlapping
    HasKey,     \* whether the script keeps a generated key in ASM
    Faults,     \* the requests that may be refused
    Console,    \* what a Keycloak administrator may do meanwhile
    MaxSecret,  \* bound on client secrets Keycloak generates
    MaxKey      \* bound on keys the runs generate

Requests == {"kcRead", "kcWrite", "asmRead", "asmWrite"}

ASSUME OidcAssumption ==
    /\ {"secret", "key"} \subseteq Fields
    /\ HasKey \in BOOLEAN
    /\ Faults \subseteq Requests
    /\ Console \subseteq {"rotate", "edit"}
    /\ MaxSecret \in Nat /\ MaxKey \in Nat

VARIABLES
    client,     \* the Keycloak client: up, its secret, conf: as
                \* DESIRED_CLIENT says, mapper: the groups mapper
    secrets,    \* client secrets generated so far
    keys,       \* keys generated so far
    run,        \* each run: where it is, the client's secret when it read
                \* the client, the secret and the key it will publish
    past,       \* history: what befell each run in flight that it cannot
                \* know of (the marks below)
    settled     \* history: what may be relied on since a run exited 0

vars == <<asm, k8s, app, client, secrets, keys, run, past, settled>>

Client == [up : BOOLEAN, secret : Nat, conf : BOOLEAN,
           mapper : {"none", "stale", "ok"}]

Steps == {"idle", "getClient", "putClient", "postClient", "regetClient",
          "getMapper", "putMapper", "postMapper", "getSecret", "postSecret",
          "getKey", "describe", "putValue", "createSecret"}

Run == [at : Steps, seen : Nat, got : Nat, key : Nat]

NoRun == [at |-> "idle", seen |-> 0, got |-> 0, key |-> 0]
NewRun == [NoRun EXCEPT !.at = "getClient"]

-----------------------------------------------------------------------------
(* The history.  A run in flight is marked "misled" when one of its own    *)
(* requests was refused and it went on, "stale" when somebody else gave    *)
(* the client another secret since the run last read it, "behind" when     *)
(* another run wrote ASM since it looked for the key there, and "edited"   *)
(* when an administrator edited the client after the run configured it.    *)
(* The marks record events, whether or not they do any harm.               *)
Marks == {"misled", "stale", "behind", "edited"}

Writing == {"describe", "putValue", "createSecret"}

(* Where a run is while a mark can befall it.                              *)
Exposed ==
    [stale  |-> {"putClient", "getKey"} \cup Writing,
     behind |-> Writing,
     edited |-> Steps \ {"idle", "getClient", "putClient"}]

(* The marks m of a run in state s after an event that befalls it where it *)
(* is exposed.                                                             *)
Marked(s, m, mark) == IF s.at \in Exposed[mark] THEN m \cup {mark} ELSE m

(* Somebody replaces the client's secret; another run writes ASM; an       *)
(* administrator edits the client.                                         *)
AfterReplace == [q \in Runs |-> Marked(run[q], past[q], "stale")]
AfterWrite == [q \in Runs |-> Marked(run[q], past[q], "behind")]
AfterEdit == [q \in Runs |-> Marked(run[q], past[q], "edited")]

(* Nobody else is concerned.                                               *)
Recalls(r, mine) == past' = [past EXCEPT ![r] = mine]
Misled(r) == Recalls(r, past[r] \cup {"misled"})

(* Run r replaces the client's secret.                                     *)
Replaces(r, mine) ==
    /\ past' = [AfterReplace EXCEPT ![r] = mine]
    /\ settled' = settled \ {"secret"}

-----------------------------------------------------------------------------
(* No client yet, or one an administrator made by hand.                    *)
Init ==
    /\ SecretInit
    /\ \/ /\ client = [up |-> FALSE, secret |-> 0, conf |-> FALSE, mapper |-> "none"]
          /\ secrets = 0
       \/ /\ client = [up |-> TRUE, secret |-> 1, conf |-> FALSE, mapper |-> "stale"]
          /\ secrets = 1
    /\ keys = 0
    /\ run = [r \in Runs |-> NoRun]
    /\ past = [r \in Runs |-> {}]
    /\ settled = {}

Becomes(r, state) == run' = [run EXCEPT ![r] = state]
Go(r, to) == Becomes(r, [run[r] EXCEPT !.at = to])

(* The run dies: an uncaught exception, or the operator.                   *)
Ended(r) == Becomes(r, NoRun)
Dies(r) == Ended(r) /\ Recalls(r, {})

Start(r) ==
    /\ run[r].at = "idle"
    /\ Becomes(r, NewRun)
    /\ UNCHANGED <<secretVars, client, secrets, keys, past, settled>>

(* ensure_client: GET /clients?clientId=...                                *)
GetClient(r) ==
    /\ run[r].at = "getClient"
    /\ \/ /\ client.up
          /\ Becomes(r, [run[r] EXCEPT !.at = "putClient", !.seen = client.secret])
          /\ UNCHANGED past
       \/ ~client.up /\ Go(r, "postClient") /\ UNCHANGED past
       \/ "kcRead" \in Faults /\ Dies(r)
       \/ "kcRead" \in Faults /\ Go(r, "postClient") /\ Misled(r)
    /\ UNCHANGED <<secretVars, client, secrets, keys, settled>>

(* Mutation: the PUT carries the secret of the first client ever.          *)
PutClientOld(r) ==
    /\ run[r].at = "putClient"
    /\ Go(r, "getMapper")
    /\ client' = [client EXCEPT !.conf = TRUE, !.secret = 1]
    /\ Replaces(r, past[r] \ {"stale"})
    /\ UNCHANGED <<secretVars, secrets, keys>>

(* ensure_client: PUT.  Its status is printed and not looked at.           *)
PutClient(r) ==
    /\ run[r].at = "putClient"
    /\ Go(r, "getMapper")
    /\ \/ /\ client' = [client EXCEPT !.conf = TRUE, !.secret = run[r].seen]
          /\ IF run[r].seen = client.secret
             THEN Recalls(r, past[r] \ {"stale"}) /\ UNCHANGED settled
             ELSE Replaces(r, past[r] \ {"stale"})
       \/ /\ "kcWrite" \in Faults
          /\ Recalls(r, (past[r] \ {"stale"}) \cup {"misled"})
          /\ UNCHANGED <<client, settled>>
    /\ UNCHANGED <<secretVars, secrets, keys>>

(* ensure_client: POST; refused, unnoticed, if the clientId exists.        *)
PostClient(r) ==
    /\ run[r].at = "postClient"
    /\ Go(r, "regetClient")
    /\ \/ /\ ~client.up /\ secrets < MaxSecret
          /\ client' = [up |-> TRUE, secret |-> secrets + 1,
                        conf |-> TRUE, mapper |-> "none"]
          /\ secrets' = secrets + 1
          /\ UNCHANGED past
       \/ client.up /\ UNCHANGED <<client, secrets, past>>
       \/ "kcWrite" \in Faults /\ Misled(r) /\ UNCHANGED <<client, secrets>>
    /\ UNCHANGED <<secretVars, keys, settled>>

(* ensure_client: clients[0] of an empty list raises.                      *)
RegetClient(r) ==
    /\ run[r].at = "regetClient"
    /\ \/ client.up /\ Go(r, "getMapper") /\ UNCHANGED past
       \/ (~client.up \/ "kcRead" \in Faults) /\ Dies(r)
    /\ UNCHANGED <<secretVars, client, secrets, keys, settled>>

(* Mutation: a mapper that is there is taken for the right one.            *)
GetMapperSkips(r) ==
    /\ run[r].at = "getMapper"
    /\ Go(r, IF client.mapper # "none" THEN "getSecret" ELSE "postMapper")
    /\ UNCHANGED <<secretVars, client, secrets, keys, past, settled>>

(* ensure_mapper: GET, then PUT or POST, whose status is not looked at.    *)
GetMapper(r) ==
    /\ run[r].at = "getMapper"
    /\ \/ client.mapper # "none" /\ Go(r, "putMapper") /\ UNCHANGED past
       \/ client.mapper = "none" /\ Go(r, "postMapper") /\ UNCHANGED past
       \/ "kcRead" \in Faults /\ Dies(r)
       \/ "kcRead" \in Faults /\ Go(r, "postMapper") /\ Misled(r)
    /\ UNCHANGED <<secretVars, client, secrets, keys, settled>>

PutMapper(r) ==
    /\ run[r].at = "putMapper"
    /\ Go(r, "getSecret")
    /\ \/ client' = [client EXCEPT !.mapper = "ok"] /\ UNCHANGED past
       \/ "kcWrite" \in Faults /\ Misled(r) /\ UNCHANGED client
    /\ UNCHANGED <<secretVars, secrets, keys, settled>>

(* A mapper of that name may have appeared meanwhile.                      *)
PostMapper(r) ==
    /\ run[r].at = "postMapper"
    /\ Go(r, "getSecret")
    /\ \/ /\ client.mapper = "none"
          /\ client' = [client EXCEPT !.mapper = "ok"]
          /\ UNCHANGED past
       \/ client.mapper # "none" /\ UNCHANGED <<client, past>>
       \/ "kcWrite" \in Faults /\ Misled(r) /\ UNCHANGED client
    /\ UNCHANGED <<secretVars, secrets, keys, settled>>

(* The run knows the secret and goes on to the key, where it keeps one.    *)
Learns(r, secret) ==
    Becomes(r, [run[r] EXCEPT !.got = secret,
                              !.at = IF HasKey THEN "getKey" ELSE "describe"])

(* Mutation: every run asks Keycloak for a fresh secret.                   *)
GetSecretAnew(r) ==
    /\ run[r].at = "getSecret"
    /\ Go(r, "postSecret")
    /\ UNCHANGED <<secretVars, client, secrets, keys, past, settled>>

(* client_secret: GET; any answer without a value leads to the POST.       *)
GetSecret(r) ==
    /\ run[r].at = "getSecret"
    /\ \/ Learns(r, client.secret) /\ UNCHANGED past
       \/ "kcRead" \in Faults /\ Go(r, "postSecret") /\ Misled(r)
    /\ UNCHANGED <<secretVars, client, secrets, keys, settled>>

(* client_secret: POST generates a new secret; an error body raises.  The  *)
(* secret may have been replaced although the answer was an error.         *)
PostSecret(r) ==
    /\ run[r].at = "postSecret"
    /\ \/ /\ secrets < MaxSecret
          /\ secrets' = secrets + 1
          /\ client' = [client EXCEPT !.secret = secrets + 1]
          /\ \/ Learns(r, secrets + 1) /\ Replaces(r, past[r])
             \/ "kcWrite" \in Faults /\ Ended(r) /\ Replaces(r, {})
       \/ /\ "kcWrite" \in Faults \/ secrets = MaxSecret
          /\ Dies(r)
          /\ UNCHANGED <<client, secrets, settled>>
    /\ UNCHANGED <<secretVars, keys>>

(* Mutation: a run that finds no key publishes none.                       *)
GetKeyOrNone(r) ==
    /\ run[r].at = "getKey"
    /\ Becomes(r, [run[r] EXCEPT !.at = "describe", !.key = asm["key"]])
    /\ UNCHANGED <<secretVars, client, secrets, keys, past, settled>>

(* Mutation: every run generates a key.                                    *)
GetKeyAnew(r) ==
    /\ run[r].at = "getKey"
    /\ keys < MaxKey
    /\ keys' = keys + 1
    /\ Becomes(r, [run[r] EXCEPT !.at = "describe", !.key = keys + 1])
    /\ UNCHANGED <<secretVars, client, secrets, past, settled>>

(* get_asm / asm_get_json: whatever keeps the value from being read counts *)
(* as "none there", and a key is generated (or, at the bound, the run ends)*)
GetKey(r) ==
    /\ run[r].at = "getKey"
    /\ \/ /\ asm["key"] # 0
          /\ Becomes(r, [run[r] EXCEPT !.at = "describe", !.key = asm["key"]])
          /\ UNCHANGED <<keys, past>>
       \/ /\ \/ asm["key"] = 0 /\ UNCHANGED past
             \/ "asmRead" \in Faults /\ Misled(r)
          /\ keys < MaxKey
          /\ keys' = keys + 1
          /\ Becomes(r, [run[r] EXCEPT !.at = "describe", !.key = keys + 1])
       \/ keys = MaxKey /\ Dies(r) /\ UNCHANGED keys
    /\ UNCHANGED <<secretVars, client, secrets, settled>>

(* put_asm, asm_exists: any failure of describe-secret counts as "no".     *)
Describe(r) ==
    /\ run[r].at = "describe"
    /\ \/ AsmExists /\ Go(r, "putValue")
       \/ (~AsmExists \/ "asmRead" \in Faults) /\ Go(r, "createSecret")
    /\ UNCHANGED <<secretVars, client, secrets, keys, past, settled>>

(* A run that prints and exits 0 vouches for the secret, unless somebody   *)
(* replaced it since the run read it, and for the client's configuration,  *)
(* unless a request of its own was refused or somebody edited the client.  *)
(* What an earlier run configured stays configured.                        *)
Vouches(r) ==
    settled' = (settled \ {"secret"})
        \cup (IF "stale" \in past[r] THEN {} ELSE {"secret"})
        \cup (IF past[r] \cap {"misled", "edited"} = {} THEN {"conf"} ELSE {})

(* The run wrote ASM.                                                      *)
Publishes(r) ==
    /\ asm' = [Nothing EXCEPT !["secret"] = run[r].got, !["key"] = run[r].key]
    /\ Ended(r)
    /\ past' = [AfterWrite EXCEPT ![r] = {}]
    /\ Vouches(r)
    /\ UNCHANGED <<k8s, app, client, secrets, keys>>

(* check=True: the run ends with an error.                                 *)
NotPublished(r) ==
    /\ Dies(r)
    /\ UNCHANGED <<secretVars, client, secrets, keys, settled>>

(* Mutation: create-secret without check=True.                             *)
CreateSecretUnchecked(r) ==
    /\ run[r].at = "createSecret"
    /\ \/ ~AsmExists /\ Publishes(r)
       \/ /\ AsmExists
          /\ Dies(r)
          /\ Vouches(r)
          /\ UNCHANGED <<secretVars, client, secrets, keys>>

PutValue(r) ==
    /\ run[r].at = "putValue"
    /\ \/ Publishes(r)
       \/ "asmWrite" \in Faults /\ NotPublished(r)

(* create-secret is refused if the secret exists by now.                   *)
CreateSecret(r) ==
    /\ run[r].at = "createSecret"
    /\ \/ ~AsmExists /\ Publishes(r)
       \/ (AsmExists \/ "asmWrite" \in Faults) /\ NotPublished(r)

(* The run is killed between two requests.                                 *)
Crash(r) ==
    /\ run[r].at # "idle"
    /\ NotPublished(r)

-----------------------------------------------------------------------------
(* An administrator regenerates the secret, or edits the client, in the    *)
(* Keycloak console.                                                       *)
AdminRotates ==
    /\ "rotate" \in Console
    /\ client.up /\ secrets < MaxSecret
    /\ client' = [client EXCEPT !.secret = secrets + 1]
    /\ secrets' = secrets + 1
    /\ past' = AfterReplace
    /\ settled' = settled \ {"secret"}
    /\ UNCHANGED <<secretVars, keys, run>>

AdminEdits ==
    /\ "edit" \in Console
    /\ client.up
    /\ \/ client' = [client EXCEPT !.conf = FALSE]
       \/ client.mapper # "none" /\ client' = [client EXCEPT !.mapper = "stale"]
    /\ past' = AfterEdit
    /\ settled' = settled \ {"conf"}
    /\ UNCHANGED <<secretVars, secrets, keys, run>>

SyncNext == Refresh /\ UNCHANGED <<client, secrets, keys, run, past, settled>>

RollNext == Restart /\ UNCHANGED <<client, secrets, keys, run, past, settled>>

-----------------------------------------------------------------------------
Step(r) ==
    \/ GetClient(r) \/ PutClient(r) \/ PostClient(r) \/ RegetClient(r)
    \/ GetMapper(r) \/ PutMapper(r) \/ PostMapper(r)
    \/ GetSecret(r) \/ PostSecret(r) \/ GetKey(r)
    \/ Describe(r) \/ PutValue(r) \/ CreateSecret(r)

RunNext == \E r \in Runs : Start(r) \/ Step(r) \/ Crash(r)

Next == RunNext \/ AdminRotates \/ AdminEdits \/ SyncNext \/ RollNext

Spec == Init /\ [][Next]_vars

-----------------------------------------------------------------------------
(* Properties.                                                             *)

(* The type invariant.                                                     *)
TypeOK ==
    /\ SecretTypeOK
    /\ client \in Client
    /\ secrets \in Nat
    /\ keys \in Nat
    /\ run \in [Runs -> Run]
    /\ past \in [Runs -> SUBSET Marks]
    /\ settled \subseteq {"secret", "conf"}

(* A run that exits 0 leaves Keycloak's secret in ASM, and it is there for *)
(* as long as nobody replaces it in Keycloak: not before, between the      *)
(* run's reading it and the exit, nor after -- however many runs overlap,  *)
(* and whatever they left behind when they were refused or died between    *)
(* replacing the secret and publishing it.                                 *)
CleanRunPublishes ==
    "secret" \in settled => asm["secret"] = client.secret

(* A secret in ASM is one that Keycloak gave out, never an error body or   *)
(* the absent value, and the Kubernetes Secret and the workload only ever  *)
(* hold a published pair: the secret and, where one is kept, its key.      *)
PairsStayWhole ==
    \A copy \in {asm, k8s, app} :
        /\ copy["secret"] \in 0 .. secrets
        /\ HasKey => (copy["secret"] # 0 <=> copy["key"] # 0)

(* Every write of ASM is whole, the Kubernetes Secret only ever copies it, *)
(* and the workload only loads the copy: SecretPublishing is implemented,  *)
(* by runs that overlap, are refused or die at any request.                *)
Delivery == INSTANCE SecretPublishing WITH
                Required <- IF HasKey THEN {"secret", "key"} ELSE {"secret"},
                source <- asm, copy <- k8s, loaded <- app
PublishesWhole == Delivery!Spec

(* "It does NOT rotate the Keycloak client secret on each run; it reads    *)
(* the current secret": no step of a run gives an existing client another  *)
(* secret, neither a new one nor the one it had, except when a request of  *)
(* that very run was refused and taken for an answer, or when somebody     *)
(* else replaced the secret between the run's GET and its PUT.             *)
NeverRotates ==
    [][client.up /\ client'.secret # client.secret =>
          \A r \in Runs : run'[r] # run[r] => past[r] \cap {"misled", "stale"} # {}]_vars

(* "The signing key is preserved across re-runs; it is only generated when *)
(* absent": no run replaces the key ASM holds, except when a request of    *)
(* that very run was refused and taken for an answer, or when another run  *)
(* wrote ASM since it found no key there.                                  *)
KeyPreserved ==
    [][asm["key"] # 0 /\ asm'["key"] # asm["key"] =>
          \E r \in Runs : run'[r] # run[r] /\ past[r] \cap {"misled", "behind"} # {}]_vars

(* "re-running ensures the desired client + full-path groups mapper": once *)
(* a run exited 0 that no unnoticed refusal misled, the client is as       *)
(* desired, and stays so until somebody edits it -- whatever runs that     *)
(* were misled or died left behind, and whatever others do meanwhile.      *)
CleanRunConfigures ==
    "conf" \in settled => client.conf /\ client.mapper = "ok"

-----------------------------------------------------------------------------
(* What makes the properties inductive.                                    *)

(* A client that exists has a secret that Keycloak gave out, and only     *)
(* then has any run exited 0.                                              *)
ClientHasSecret ==
    /\ client.up <=> client.secret # 0
    /\ client.secret \in 0 .. secrets
    /\ settled # {} => client.up

(* What holds of a run in state s with the marks m, the client being c, g  *)
(* secrets generated so far, and a in ASM.  A run past ensure_client has a *)
(* client to ask, and what it has read is real: it never carries an absent *)
(* value on to ASM.                                                        *)
PastClient == Steps \ {"idle", "getClient", "postClient", "regetClient"}

CarriesReal(s, c, g) ==
    /\ s.at \in PastClient => c.up
    /\ s.at = "putClient" => s.seen \in 1 .. g
    /\ s.at \in Writing \cup {"getKey"} => s.got \in 1 .. g
    /\ s.at \in Writing => (HasKey => s.key # 0)

(* What it has read and not published yet is as it was, unless a mark says *)
(* that somebody came between.                                             *)
CarriesFresh(s, m, c, a) ==
    /\ s.at = "idle" => m = {}
    /\ s.at = "putClient" /\ "stale" \notin m => s.seen = c.secret
    /\ s.at \in Writing \cup {"getKey"} /\ "stale" \notin m => s.got = c.secret
    /\ s.at = "postSecret" => "misled" \in m
    /\ s.at \in Writing /\ HasKey /\ "misled" \notin m /\ "behind" \notin m
          => a["key"] \in {0, s.key}

(* A run that no refusal misled has configured what it has passed.         *)
HasConfigured(s, m, c) ==
    "misled" \notin m /\ "edited" \notin m =>
        /\ s.at \in PastClient \ {"putClient"} => c.conf
        /\ s.at = "regetClient" => c.conf
        /\ s.at = "postClient" /\ c.up => c.conf
        /\ s.at = "postMapper" => c.mapper # "stale"
        /\ s.at \in {"getSecret", "postSecret", "getKey"} \cup Writing => c.mapper = "ok"

RunHolds(s, m, c, g, a) ==
    CarriesReal(s, c, g) /\ CarriesFresh(s, m, c, a) /\ HasConfigured(s, m, c)

IInv ==
    /\ TypeOK
    /\ ClientHasSecret
    /\ \A r \in Runs : RunHolds(run[r], past[r], client, secrets, asm)
    /\ PairsStayWhole
    /\ CleanRunPublishes
    /\ CleanRunConfigures
=============================================================================
