# A formal model of the scripts and controllers of usgov-reference

The repository deploys Coder, GitLab, Keycloak and their observability on AWS
GovCloud. Most of it is declarative (Terraform, Helm values, manifests) and is
executed by somebody else's engine. Its own logic is a dozen day-2 scripts that
bring live systems in line with what the repository says: each one reads some
remote state, decides, and writes, one request at a time, with other actors
(administrators, the External Secrets Operator, another run of the same script,
its own crashed predecessor) working on the same state. Every one of them claims
to be idempotent, "safe to re-run". This directory models those scripts in TLA+,
checks them with TLC and proves the central claims with TLAPS.

## 1. Inventory

| Part | Source | State it keeps or writes | Operations | What is hard | What makes it correct |
|---|---|---|---|---|---|
| AI Gateway reconcile | `scripts/reconcile-ai-providers.py` (its input, `deploy/coder/ai-providers.yaml`, is the operator's) | Coder's provider and preset tables; the plan of a run | load, list twice, plan, then one POST/PATCH per item | plan made from stale listings, failing and lost mutations, crashes, masked keys that look alike, dashboard edits meanwhile | exit 0 means converged; nothing undeclared is touched; a second run is a no-op |
| OIDC clients | `scripts/setup-kiali-oidc.py`, `setup-grafana-oidc.py`, `setup-gitlab-oidc.py`, half of `setup-envdocs.py` | a Keycloak client, its mapper and secret; an ASM secret with that secret and perhaps a generated key | ensure client, ensure mapper, read or create the secret, keep or create the key, put to ASM | the helpers take errors for "nothing there"; two first runs; rotation in the console | ASM holds a whole, current pair; a secret or key in use is not replaced |
| Docs site | the rest of `scripts/setup-envdocs.py` | ECR repositories and images, manifests, a DNS alias | mirror, apply, wait 90 s, alias; flags skip each | runs that fail between two steps and are repeated with other flags; the wait gives up with a warning | users are sent only to a complete site; a complete site comes up |
| Secret delivery | the `ExternalSecret` manifests, ASM | ASM value, Kubernetes Secret, what the pods read | hourly refresh, restart | three copies that agree only eventually | what is published arrives, copies are never mixed |
| GitLab project and runner | `scripts/setup-gitlab-ci-runners.py` | Coder token `gitlab-ci`, two GitLab projects, CI variable, group runner, three files in the pod, an ASM secret | rotate, stage, five Rails payloads, fetch, publish, clean up | payloads pass through one shared file; the token is revoked long before its successor is installed; swallowed errors | the variable works, the runner token is published, nothing secret stays in the pod |
| Migration to ASM | `scripts/migrate-secrets-to-asm.py` | ASM, from Kubernetes Secrets | read, describe, put or create, for each secret | ESO refreshes, rotations and edits between the read and the put; deaths half way | a clean run copied everything; a run between equal sides changes nothing |
| Drift verification | `scripts/verify-drift.py` | none; a verdict and an exit status | read each Secret and its ASM value, the lifetime in git, live and in the API, compare | no two reads are atomic | a verdict names what was true at some instant; exit 0 vouches |
| Keycloak hierarchy | `scripts/setup-keycloak-hierarchy.py` | realm groups, mapper, users, memberships, required actions | ensure groups, mapper, users, membership, actions | statuses of writes ignored; empty error bodies pass for "none"; credentials read, then the user, written back whole | enrolment is forced, and not forced again |
| Coder IdP sync | `scripts/setup-coder-idp-sync.py` | organisations, groups, seven settings | ensure organisations and groups, seven PATCHes | refused PATCHes unnoticed; sign-ins half way | with the hierarchy: everybody has the declared access |
| Agent webhook | `scripts/setup-gitlab-agent-webhook.py` | GitLab hooks, the secret in ASM, tasks and workspaces | secret, list, create or update; read issue, resolve template, create | list then create; the secret read is stale when written; issues edited while handled | hooks do not multiply; a registered hook is current; what is created is the assignee's |
| AI Gateway datasource | `deploy/observability/scripts/setup-aibridge-db-datasource.sh` | PostgreSQL role password, Kubernetes Secret | ALTER ROLE, then publish | failure between the two | not modelled (section 8) |
| Everything else | `grant-coder-owner.py`, `mirror-images.sh`, preflight and string checks, `verify-oidc-login.py`, Terraform, manifests, Coder templates, dashboards, CI workflow | none of their own | -- | -- | not modelled (section 8) |

How they interact: scripts call REST APIs (Coder, Keycloak, GitLab) and run
`kubectl` and `aws` as subprocesses. They share no memory and take no lock;
everything shared lives in the services. ASM is the meeting point: the scripts
write it, the operator copies it into Kubernetes Secrets on a timer, workloads
read those when they start, migration and drift verification read both sides.
The Keycloak hierarchy and the IdP sync meet at a user's sign-in, where Coder
derives access from the groups claim.

## 2. Modules

| Module | Models | Extends |
|---|---|---|
| `AIProviders` | one reconcile at a time, its server and the hands in the dashboard | -- |
| `SecretPublishing` | abstract: one secret that is published whole, copied and loaded | -- |
| `ExternalSecrets` | one ASM secret, its Kubernetes Secret, its consuming workload | -- |
| `OidcClient` | the OIDC scripts, in overlapping runs, against Keycloak and ASM | `ExternalSecrets`; implements `SecretPublishing` |
| `EnvDocs` | the whole of `setup-envdocs.py` | `OidcClient`, which it implements |
| `CiRunner` | the GitLab script, in overlapping runs, against Coder, GitLab, its pod and ASM | `ExternalSecrets`; implements `SecretPublishing` |
| `SecretStore` | all secrets of the cluster on both sides, their operator, hands and writers; abstract for the next two | -- |
| `SecretMigration` | the migration | `SecretStore`, which it implements |
| `DriftCheck` | the drift check, and the token lifetime it follows | `SecretStore` |
| `KeycloakHierarchy`, `IdpSync` | the two halves of single sign-on | -- |
| `SsoAccess` | both halves and the users who sign in | both |
| `AgentWebhook` | registration of the hook, and the handling of issues | -- |
| `AIProvidersProofs`, `OidcClientProofs`, `EnvDocsProofs`, `CiRunnerProofs`, `SecretMigrationProofs`, `DriftCheckProofs`, `SsoAccessProofs`, `AgentWebhookProofs` | the theorems (section 6) | their module, `TLAPS` |
| `MC...` | finite instances for TLC | the module they check |

The unit of atomicity is everywhere one request to one service: whatever another
actor does may fall between any two. Definitions named "Mutation" in comments
are deliberately wrong variants of the definition after them; no specification
uses them. Each is put in place of its neighbour to see that the property
listed for it in `PROJECT.json` notices.

### AIProviders

A run is `pc` plus its locals: `desired` (the file as loaded), `snapP` and
`snapM` (the two listings), `todoP` and `todoM` (what is left of the plan),
`failed`. `Start` is `load_desired` and login, `ListProviders` and `ListModels`
the two GETs, `ProviderAction` and `Matching` the plan (`reconcile_providers`,
`reconcile_models`, `model_matches`), `SkipProvider`, `CreateProvider`,
`UpdateProvider`, `UpdatePreset`, `ResolveProvider` and `CreatePreset` the turns of
`apply_plan` (creating a preset is two requests, hence two actions), `Finish`
the exit status, `DryRun` a run without `--apply`. A mutation may be refused, or
be applied and still answer with an error, or lose its answer; `Crash` is an
uncaught exception or an interrupt anywhere. Locals are reset when a run ends,
because the process ends. `conf` stands for `base_url` and `display_name`,
`settings` for the Bedrock block: the code only compares and copies them. A preset
keeps its compared fields apart (`spec`, over `PresetFields`), because the PATCH
carries only those that differed in the listing (`PatchedSpec`): after a save in the
dashboard the row may be the file's in one field and the dashboard's in another. A
field the entry does not give (`NotGiven`) is neither compared nor sent; the POST
cannot do without `LimitField`. Keys keep the code's rendering function
as a constant, `Mask`, which may collide. The order of the plan is the file's,
which is arbitrary, so items are taken in any order, providers before presets.

The Coder server is external. It is modelled from how the script uses it: names
are unique, ids are never used twice, a PATCH changes the fields it carries,
a preset can only be made under a provider id that exists, deleting a provider
may or may not delete its presets. Hands in the dashboard and in the file are
bounded by `MaxEdits`.

### ExternalSecrets

`asm`, `k8s` and `app` are the three copies of a secret, records over `Fields` in
which 0 is absent. `Refresh` is the operator's `refreshInterval: 1h` with
`dataFrom.extract`, `Restart` any rollout of the workload.

### OidcClient

`run[r]` is one execution: where it is in `ensure_client`, `ensure_mapper`,
`client_secret`, `get_asm`, `put_asm`, and the three values it carries. What befell it
that it cannot know of is history, `past[r]`: it was `"misled"` by a refused request of its
own that it took for an answer, its copy of the secret is `"stale"`, another run has
written ASM and left it `"behind"`, its client was `"edited"`.
Each action is one request with every outcome the helper `kc` (or the `aws`
subprocess) lets through: a read that fails kills the run or passes for "nothing
there", a write that fails is not noticed, `client_secret` takes any error for
"no secret yet" and POSTs. `HasKey` selects Kiali and envdocs (a generated key next
to the secret) or Grafana and GitLab, which are covered by the proofs; the runs are Kiali's. `Faults` and `Console` say which
requests may fail and what an administrator may do, so that a run can show
which promise depends on which of them. Keycloak is external: clientIds are
unique, and a PUT of a representation sets all of it, the secret included.

### CiRunner

`token`/`minted` are Coder's tokens (names unique, so a POST beside a live one is
refused), `project`, `oldProject`, `runner` GitLab, `pod` the three fixed paths every
run shares. `Stage` writes `/tmp/_ci_setup.rb` and `Exec` runs whatever is
there, which may be another run's payload. A payload is one step: it runs
inside one Rails process, and its statements are transactions of GitLab, which is
external. A run that dies while its payload is executing kills only `kubectl`: the
process in the pod may be carried out later, whoever is at work then (`orphans`, `Orphan`; one
at a time, the bound). A payload and the `rm` of its file are one step: the `rm` may take
the file another run has just staged, which makes that run's `rails` command fail, an
outcome the other run's step has anyway. `Faults` are as fine as the code's handling of them: `"seed"`,
`"destroy"` and `"protect"` are the failures a payload prints and survives.

### EnvDocs

`SiteStart` is a start of `OidcClient` with the flags of the command line,
`ClientStep`, `Publish` and `PublishRefused` its steps, after which `stage[r]` takes over: `CraneLogin`,
`EnsureRepo`, `CopyImage` (`mirror_images`), `ApplyManifest` for each manifest in
order, `WaitForSecret` (which always goes on: it returns or times out),
`ResolveLoadBalancer`, `UpsertAlias`. Commands run with `check=True`, so every one may
end the run. `EnsureRepo` and `CopyImage` are two calls each, a look and a write, in one step:
what another run does in between makes the write fail, and a failure is an outcome
of the step anyway. `aliasBy` is history: the flags of the run that set the alias. `deploy/envdocs` is not in the repository; that the operator syncs
once the ExternalSecret is applied, and that pods start once image and Secret
are there, is taken from what the script prints and waits for.

### SecretStore, SecretMigration, DriftCheck

A value is a version number written once by hand, so that "which of two copies is
newer" and "who wrote it" can be told; 0 is a key that is not there.
`SecretStore` is what everybody else may do to the secrets: rotate in ASM, edit in
the cluster, apply the ExternalSecrets (`Adopt`), refresh, and `WriteAsm`, any write of
existing values by a script. `SecretMigration` refines `WriteAsm` into the run of the
migration: `ReadSecret`, `DescribeSecret` (any failure is "absent"), `PutSecret` or
`CreateAsmSecret`, for each secret of `MAPPING`, in any order. `DriftCheck` runs
beside the abstract store: that the migration is one of its writers is
`WritesLikeAScript`. Its reads are one action each, its rows `PASS`, `WARN` or `FAIL` are
kept as far as the exit status needs them. A Secret without keys is one that is not there:
the check calls an existing one without data a PASS (`DriftStatus`), but nobody
who writes Secrets here leaves one behind.

### KeycloakHierarchy, IdpSync, SsoAccess

`hier.at` walks through `ensure_groups` (list, create, list again, the same for
subgroups), `ensure_mapper`, and for each user: find, create, find, password,
memberships, `ensure_required_actions` (credentials, user, PUT). `Answers`, `Empty` and
`Writes` are the three things the helper `api` lets happen: a read answers or
raises, an error with an empty body passes for an empty list, a write is
carried out or refused without notice. Administrators remove credentials and groups, and add
members (`AddMember`); no run takes a membership away. `IdpSync` is the same for the Coder API,
whose POSTs do end the run. Sign-ins (`SignIn`) are external: pending actions first, then
Coder derives organisations, groups and roles from the groups claim with the
settings it has at that moment, and leaves alone what has no setting yet.

### AgentWebhook

`reg[r]` is one registration: `RegStart` resolves the secret, `ListHooks` picks the first
hook with the bridge's URL, `UpdateHook` or `CreateHook` writes it; a write may be
refused, or carried out and its answer lost. `work[w]` is one handling of an issue, which
`--simulate` does and the bridge does likewise (its program is not in the
repository; it reports to the same rules): `ReadIssue` with `extract_mode`,
`ResolveTemplate`, `ReadParameters`, `SendSpawn`. The script reads one page of the hooks; the
model takes a project to have no more than one page, for a hook beyond it would be
created again by every run. `events` are deliveries, in any order;
an event that is refused by the bridge is gone.

## 3. Properties

Safety of a finished run is stated with a history variable: `calm` (`"settled"`, or
`"rotated"` after `--rotate-keys`; `AIProviders`), `settled` (`OidcClient`, `CiRunner`, `SecretMigration`), `tidy` and `synced`
(`SsoAccess`), `vouched` (`DriftCheck`) and `registered` (`AgentWebhook`) hold from the
moment a run exits 0, provided nobody disturbed it, until somebody disturbs the
result. They are written at exits and by disturbances only and no guard reads
them. In `CiRunner` an overlapping run counts as disturbance; what it leaves behind is
what the next clean run has to cope with. In `AgentWebhook` and `OidcClient` overlapping
runs do not disturb. `OidcClient` keeps two promises apart (`settled` holds `"secret"`, `"conf"`):
the secret counts from an exit 0 unless somebody replaced it since the run read it, the
configuration unless a request of the run was refused or the client was edited.
These marks record what others did, not whether it did harm.

* `AIProviders`: `CleanExitConverges`, `KeysRotated`, `OnlyDeclaredProviders`,
  `OnlyWantedPresets`, `ProvidersIdempotent`, `PresetsIdempotent`, `RunEnds`.
* `OidcClient`: `CleanRunPublishes`, `PairsStayWhole`, `CleanRunConfigures`, `NeverRotates`,
  `KeyPreserved`. The last two say who may replace a secret or a key: only the very run that took
  a refusal for an answer, or that somebody overtook. That `SecretPublishing` is
  implemented (`PublishesWhole`) is proved only.
* `EnvDocs`: `DnsLast` (but for what the run that set the alias was itself told to skip, and
  no other run), `SiteComesUp`.
* `CiRunner`: `CleanRunReady`, `CleanRunSeeds`, `CleanRunLeavesNothing`,
  `VariableAlive`, `RunnerReachesSecret`, `RunsEnd`.
* `SecretMigration`: `CleanMigrationCopies`, `SyncedRunIsNoOp`, `MigrationArrives`, and
  `WritesLikeAScript`, the refinement of `SecretStore`.
* `DriftCheck`: `DriftVerdictTrue`, `LifetimeVerdictTrue`, `CleanCheckVouches`.
* `SsoAccess`: `AccessAsDeclared`, `EnrollmentForced`, `ReenrollsOnlyUnseen`,
  `NeverReenrolls`.
* `AgentWebhook`: `HooksPerRun`, `RegisteredIsCurrent`, `SpawnedForAssignee`,
  `EventServed`.

## 4. Runs

| Run | Instance | Shows |
|---|---|---|
| `AIProviders_hands` | 2 providers, 1 model with a preset of 2 fields, 3 keys of which 2 render alike, 2 preset ids, 1 edit by hand, listings may fail | a clean exit is a converged one, with `--rotate-keys` in the keys too; only declared providers and wanted presets are touched, and only towards the file, whatever is saved, deleted or made anew meanwhile; providers idempotent |
| `AIProviders_listed` | every kind of entry, enabled or not, key set or not, presets with and without `context_limit`, 3 preset ids, listing answers, no edits, fair | presets idempotent; every run ends |
| `OidcClient_overlap` | 2 runs, key, every request may fail, rotation and edits in the console, 2 secrets, 2 keys | whole pairs only; the exit 0 of a run vouches for secret and client, whatever came before; who may replace a secret or a key |
| `EnvDocs_live` | 1 run at a time, refused reads and writes of ASM, every later command may fail, rotation in the console, 4 combinations of flags, 2 images, fair | DNS last, over runs with different flags; the site comes up |
| `CiRunner_faults` | 2 runs, every failure, a payload that outlives its run, the runner removed by hand, 2 tokens, 2 runners | a clean run leaves a working variable and the published runner token |
| `CiRunner_ends` | 2 runs, Coder, payloads or the run itself fail, a payload that outlives its run, commits, the runner removed by hand, 2 tokens, 2 runners, fair | the next clean run seeds, protects and tidies up; runs end; the token arrives |
| `CiRunner_aborted` | 1 run, the seed directory may be missing | **violated**: `VariableAlive`; the token is revoked first |
| `SecretMigration_faults` | 2 secrets, 2 keys of which one may be missing, a Secret that may not be there, 3 versions, every refusal, fair | what a clean run copied, that it arrives, when a run is a no-op; `SecretStore` is implemented |
| `DriftCheck_live` | 2 secrets, 1 key, 3 versions, a placeholder, 2 lifetimes and 1 edit of them | verdicts and the exit status, against every interleaving of the reads |
| `SsoAccess_live` | a group with two subgroups, 1 user with 2 required actions, 2 organisations, 2 changes by hand (a membership added, a group or credential removed), every refusal and empty error | access as declared; enrolment forced, repeated only after a race |
| `SsoAccess_reenrolls` | the same with 1 change by hand, no empty errors | **violated**: `NeverReenrolls` |
| `AgentWebhook_live` | 2 registrations, 1 handler, 1 issue, 2 assignees, 3 label lists, 3 hooks, 1 rotation or edit of a hook, 1 edit of the issue, every refusal, fair | hooks do not multiply and are current; spawned for the assignee; events served |

The violated properties are quotations from the repository; `PROJECT.json` gives
the lines. What depends on a fault that a run excludes is known from widening the
run: with a preset listing that may fail `PresetsIdempotent` is violated, with
failures that payloads swallow (`"seed"`, `"destroy"`, `"protect"`) `CleanRunSeeds`, with files
that cannot be removed (`"rm"`) `CleanRunLeavesNothing`. The properties of `OidcClient` exclude no
fault; the run that was itself refused and went on is their exception.
A migration re-run may put an older value over one that was rotated in ASM and not
refreshed yet: `SyncedRunIsNoOp` says when it is harmless.

Why the bounds suffice. Two runs are the smallest number that race, and a third adds
no new pair of steps: runs only meet through the shared state. Dead runs
may be restarted any number of times, so long histories of failed predecessors
are covered by two run names. Two secrets, tokens, keys or versions tell "current" from
"stale", and a third version leaves room for a rotation and an edit; at a bound a
request is refused, which the code must handle in any case. Two providers tell
"declared" from "undeclared"; three preset ids leave room for a pair of presets and a
duplicate. One edit by hand can fall between any two steps; more of them only
undo the history variable once more. Two secrets are enough for the loops of
migration and check: one behind, one ahead of where the run is. Two
organisations are one that exists and one that must be made, and a user with two
required actions may have carried out either. Three hooks leave room for one more
than `HooksPerRun` allows, with one deleted. `Overlap = FALSE` in `SsoAccess` and
`AgentWebhook` keeps apart two activities that write no common state (the two
scripts; registration and the handling of issues), which otherwise multiply.
Symmetry over run names is used in safety runs only.

All runs check for deadlock: a service or an administrator can always act, or a run start.

## 5. Fairness

* A started run goes on (`AIProviders`, `CiRunner`, `EnvDocs`, `AgentWebhook`): no script
  waits on anything but the answer to its own request, which comes, fails or
  times out; the 90 seconds of `wait_for_secret` end.
* The operator refreshes on its timer (`CiRunner`, `EnvDocs`, `SecretMigration`).
* Pods that have not started yet start when Secret and images are there
  (`EnvDocs`): Kubernetes retries. Nobody is obliged to roll pods that run.
* GitLab delivers its events (`AgentWebhook`), with strong fairness: the bridge handles
  several events at once, so that a single handler that somebody keeps busy with
  `--simulate` must not count as a bridge that never answers.

Nobody is obliged to start or crash a run, rotate a secret, edit anything, sign
in or restart a workload, and nothing says that a request succeeds: `EventServed`
is conditional on no refusal.

## 6. Proofs

Every type invariant, safety invariant and action property that a passing run
checks is also a theorem of its specification, for every value of the constants
that satisfies the assumptions of the modules (`ConstantsOK`, `OidcAssumption`, ...).
A theorem with a hypothesis of its own excludes a fault or an overlap under which the
property is false (section 4).

### AIProvidersProofs

* `TypeCorrect`, `CleanExit`. `CleanExitConverges` alone is not inductive: it speaks of
  the moment of exit. `IInv` adds the chain that leads there: presets wait for the
  last provider (`ProvidersFirst`), the run works on the current file (`FileLoaded`),
  without edits by hand the listings remain true of everything the run has not
  reached (`ProviderSnapshotTrue`, `PresetSnapshotTrue`), and what it has reached
  without a failure agrees with the file (`DoneInSync`). A failed preset listing
  does not break it, because an empty listing is (vacuously) true; it breaks
  idempotence instead. The three layers are proved one after another, each lemma a
  temporal theorem the next one uses.
* `RotationExact`: after a clean `--rotate-keys` the keys themselves are the file's
  (`KeysRotated`), not only what the masked rendering can tell. `RotatedDone` says so of
  the providers the run has behind it; every plan entry writes the key (`KeysWritten`).
* `ScopeOfProviders`, `ScopeOfPresets`, `SecondRunIsNoOp`. Scope holds also while hands
  edit, so it rests on two invariants that survive them: the plan stays inside
  the file the run loaded and is only applied under `--apply` (`PlanDeclared`), and
  an id from the listing never comes to mean another preset (`ListedRowsStay`). A
  PATCH carries only the fields that differed in the listing, so after an edit by hand
  a preset may end as a mixture; what `ScopeOfPresets` says is that a field moves to the
  file's value or not at all.
  Idempotence follows from `CleanExitConverges` and a true listing: every item of
  the next plan is a NOOP.
* `SecondRunKeepsPresets`, under `Listed`: the preset listing answers, and the table starts
  without two presets for one item. Both are needed; a twin makes the script
  match one of them, arbitrarily. The invariant then is that every preset a run may
  yet create is missing from the table, unless its provider was made anew.

### OidcClientProofs, EnvDocsProofs

* `Invariant`, `OidcTypeOK`, `PairsStayWholeAlways`, `CleanRunPublishesAlways`,
  `CleanRunConfiguresAlways`: for any number of overlapping runs, any set of failing
  requests, any work in the console, with and without a key. `IInv` adds that an existing
  client has a secret Keycloak gave out (`ClientHasSecret`) and, of every run (`RunHolds`), that it
  carries only real values (`CarriesReal`), that what it carries is still Keycloak's and ASM's
  as long as its marks `past[r]` do not say otherwise (`CarriesFresh`), and what it has made of
  the client at each place (`HasConfigured`). The marks are set by what others do and by the
  run's own misread refusals, never by what the run writes. One lemma per function of
  the script (`GetClientKeeps`, `ClientSecretKeeps`, ...), and one per kind of disturbance for
  the runs that stand by (`OthersReplaced`, `OthersEdited`, `OthersBehind`).
* `PublishesWholeAlways`: `OidcClient` implements `SecretPublishing`. A step that publishes
  carries a whole pair by `CarriesReal`; all other steps copy, load or stutter. Proved only:
  as a run it would repeat `PairsStayWhole`.
* `NeverRotatesAlways`: whoever replaces the secret of an existing client is the administrator, a run
  misled by its own refused read (`PostSecret`), or a run whose copy went stale under it
  (`PutClient`, which sends the whole representation back). `WhoReplaces` names the steps.
* `KeyPreservedAlways`, assuming only `HasKey`: a key in ASM is replaced only by a run that was
  misled by a refused read of ASM, or behind which another run wrote ASM.
* `SiteImplementsClient`: `SiteSpec => Spec`, step by step, with which `SiteNeverRotates`,
  `SiteConfigures` and `SiteKeepsKey` follow, with the same exceptions, and every other theorem of `OidcClient` holds
  of `setup-envdocs.py` (its `HasKey` is TRUE by `EnvDocsAssumption`).
* `DnsLastAlways`, `SiteTypes`, for any overlapping runs, images, flags and faults. The only
  excuse for a missing part is that the run that set the alias (`aliasBy`) was itself told to
  skip it. `SiteInv` says
  of every stage what is behind it (`StageHolds`, `Behind`); the site only grows and ASM
  secrets stay (`Grows`), so what is behind one run is not taken away by another.

### CiRunnerProofs

* `TypeCorrect`, `CleanRunReadyAlways`, `CleanRunSeedsAlways`, `CleanRunLeavesNothingAlways`, for any
  number of overlapping runs, tokens and runners; the third assumes that no payload
  fails in a way it swallows, the last that files can be removed. None of the last three
  is inductive: they speak of the exit. `CInv` says for every place of an undisturbed
  run what it has achieved there (`Achieved`, `Seeded`, `Cleaned`); that no other run is in
  flight then is what makes the payload in the shared file its own. One lemma per
  request, `EffectDoes` for what the payloads do, and `OrphanKeeps` for a payload that is
  carried out after its run was killed.
* `TypeCorrect` includes `TokensMade`: every token that a run, the pod, an orphan, the CI
  variable or ASM holds was issued. That needs `InHand` and `Kept`, which speak of runs and
  of stores, and that numbers only grow (`NumbersGrow`).
* `RunnerTokenPublishedWhole`: `CiRunner` implements `SecretPublishing` too. A run at the write has
  a token in hand (`InHand`), whoever's it is, because `Discard` gives up on an
  empty file.

### SecretMigrationProofs, DriftCheckProofs

* `TypeAlways`, `CleanMigrationCopiesAlways`, `SyncedRunIsNoOpAlways` and `WritesLikeAScriptAlways`,
  for any secrets, keys and versions. `MInv` adds that every value in sight was
  written (`ValuesExist`), that a run which started between equal sides carries
  nothing but what is there (`CalmEqual`), and that an undisturbed run has equal secrets
  behind it (`CopiedBehind`).
* `DriftTypeOK`, `CleanCheckTheorem`, `DriftVerdictTheorem`, `LifetimeVerdictTheorem`, for any secrets,
  keys, lifetimes and writers. `DInv` ties the values the check has fetched to the
  history of what they have been since: `ComparedTrue` for the two reads of a secret (a
  key that has not differed is what it was; one that has not agreed is still as it was read, or
  gone), `LifetimeTrue` for the three reads of a lifetime, `SoFarSoGood` for everything
  behind a check without a row that fails. `Moved` is what the other actors have in
  common: one side moves at a time, and only an edit puts a value into the cluster
  that ASM does not have.

### SsoAccessProofs

* `EnrollmentForcedAlways` and `ReenrollsOnlyUnseenAlways`, for any users, groups, answers and
  interference. `HierInv` relates what a run carries between its requests to the user
  it is at: an action it is about to ask for although the credential is there is one
  it has not seen (`Seen`), and a run all of whose writes were carried out has
  asked everybody behind it (`Done`), which an enrolment in between only turns from
  pending into carried out.
* `AccessAsDeclaredAlways` and `SsoTypeOK`, from three invariants of the parts. `MembersInv`: nobody
  is in a group that is neither declared nor given by hand, and a run whose writes are carried out has
  made every user behind it a member of everything (`Joined`). `IdpInv`: a run of the sync that is at
  its PATCHes found or made all organizations and groups (`Created`), and has set what is
  behind it (`Patched`). `AccountInv` then says what a sign-in derives from both: with all
  settings, the image of the memberships; half way, never a group outside the
  declared ones. That `Declared` has no group or role in an organization the user is not
  in is an assumption about the data (`AccessAssumption`), which the tables of the two
  scripts satisfy (`setup-keycloak-hierarchy.py`, `setup-coder-idp-sync.py`).

### AgentWebhookProofs

* `HooksPerRunAlways` and `RegisteredIsCurrentAlways`, for any number of registrations.
  The bound is not inductive: `HooksOwed` counts the hooks together with the runs
  that are about to create one because they saw none. `StableCurrent` says that a run
  nobody rotated under carries the current secret.
* `SpawnedForAssigneeAlways`, for any number of handlers: `WorkTrue` says of what a handler
  carries that it was read from the issue, with the kind `ModeIsLabel` shows of
  `extract_mode`.
* `WebhookTypeOK`. What it needs beyond `RestTypeOK` is that `extract_mode` returns a mode of
  one of the labels: `ModeIsFromLabel`, from a first and a last matching label (`HasFirst`,
  `HasLast`).

### What the proofs changed in the model

* `DriftVerdictTrue` was false of secrets with two keys. Between the check's two reads a
  refresh may take a key that ASM does not have out of the cluster, and a script
  may then put it into ASM with the very value that was read: the row says PASS although
  the two sides never agreed on that key. The property now allows for it. The run's
  one-key secrets cannot show it, because a secret without keys does not exist; `DInv` was
  checked on two keys as well.
* `Bodies` lacked the default template: a task may name it even where Coder has
  no such template.
* `AccessAsDeclared` needs the assumption about the tables above, because a sign-in gives groups
  and roles only within the organizations it gives.

Only model-checked: everything under fairness, for the prover does not do liveness
(`RunEnds`, `SiteComesUp`, `RunnerReachesSecret`, `RunsEnd`, `MigrationArrives`, `EventServed`), and the
two violated properties, which are no theorems.

## 7. What could come next

1. `Datasource`: the role password that is changed before it is published
   (`setup-aibridge-db-datasource.sh`), against failures in between.
2. A second reconcile of AI providers in flight: duplicate presets from two
   runs that both resolve and POST.
3. Proofs: what overlapping runs of `CiRunner` still guarantee each other, and when
   `VariableAlive` does hold (no refusal, no overlap).

## 8. Not modelled

* Wording, logging, argument parsing, HTTP and TLS details; passwords and tokens
  are numbers or model values; labels are parsed already.
* Fields of a provider, preset or client that the code treats alike are one field;
  the two token lifetimes of `verify-drift.py`, read and compared alike, are one.
* The branch of `verify-drift.py` for `data/remoteRef`, which no ExternalSecret of the
  repository uses; display names of organisations.
* Deleting the Kubernetes Secret to force a refresh (recommended by
  `deploy/gitlab-runner/README.md`): the operator makes it again from ASM.
* Individual statements of a Rails payload, and the pipeline GitLab runs later.
* A second reconcile of AI providers at the same time: its effects on the
  tables are those of the dashboard's hands only in part.
* `grant-coder-owner.py`: one read and one PUT by hand. `setup-aibridge-db-datasource.sh`:
  next in the plan.
* Two disagreements met while modelling have no run: a live provider's `type` is
  never compared with the file's, and a preset may be created under a provider
  whose enabling PATCH has just failed (the run then exits 1). Swallowed seed
  failures of the CI payloads (fault `"seed"`) break `CleanRunSeeds` likewise.
* Terraform, Helm values and manifests, Coder templates, dashboards, the CI
  workflow, `mirror-images.sh` and the read-only checks (`preflight-readiness.sh`,
  `check-identifiers.sh`, `verify-oidc-login.py`, ...) keep no state of their own.
