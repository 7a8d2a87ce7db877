------------------------------ MODULE CiRunner ------------------------------
(***************************************************************************)
(* scripts/setup-gitlab-ci-runners.py: rotate the Coder API token that CI  *)
(* uses, rebuild the demo GitLab project around it, and publish the group  *)
(* runner's authentication token to ASM.                                   *)
(*                                                                         *)
(* Every Ruby payload is staged in one file of the GitLab pod and then run *)
(* from there; the seed directory and the runner token pass through fixed  *)
(* paths of the pod as well, so that overlapping runs share all three.     *)
(* Tokens are numbered as they are minted; 0 is no token.  A payload, once *)
(* started, is one step with the removal of its file; one whose run has    *)
(* died may go on without it.                                              *)
(***************************************************************************)
EXTENDS ExternalSecrets

CONSTANTS
    Runs,       \* executions of the script, possibly overlapping
    Faults,     \* what may go wrong
    Hands,      \* what people may do meanwhile
    MaxToken,   \* bound on Coder tokens minted
    MaxRunner   \* bound on group runners created

(* Requests to Coder, the seed directory or its copy, a payload that       *)
(* aborts, the failures a payload swallows, ASM, a clean-up command, and   *)
(* the death of the run itself.                                            *)
FaultKinds == {"coder", "copy", "script", "destroy", "seed", "protect", "asm", "rm", "die"}

ASSUME CiAssumption ==
    /\ Fields = {"runner-token"}
    /\ Faults \subseteq FaultKinds
    /\ Hands \subseteq {"commit", "removeRunner"}
    /\ MaxToken \in Nat /\ MaxRunner \in Nat

VARIABLES
    token,      \* Coder's live token named gitlab-ci
    minted,     \* Coder tokens minted so far
    oldProject, \* root/coder-templates is there
    project,    \* <GITLAB_GROUP>/coder-templates: up, the value of its CI
                \* variable, seeded as in the seed directory, protected
    runner,     \* the group runner's token
    runners,    \* group runners created so far
    pod,        \* files in the pod: the payload, the seeds, the runner token
    orphans,    \* the environments of payloads whose run has died and which
                \* have yet to be carried out (bound: one)
    run,        \* each run: where it is, the token it found, the one it
                \* minted, the runner token it read, and (history) whether
                \* nothing has disturbed it
    settled     \* history: an undisturbed run exited 0 and nothing since

ciVars == <<token, minted, oldProject, project, runner, runners, pod, orphans>>
vars == <<asm, k8s, app, ciVars, run, settled>>

Project == [up : BOOLEAN, var : Nat, seeded : BOOLEAN, protected : BOOLEAN]
NoProject == [up |-> FALSE, var |-> 0, seeded |-> FALSE, protected |-> FALSE]

(* The payloads in the order main runs them, and what follows each.        *)
Payloads == {"destroy", "project", "variable", "seed", "runner"}
After == [destroy |-> "project", project |-> "variable", variable |-> "seed",
          seed |-> "runner", runner |-> "fetch"]

Places == {"idle", "list", "delete", "create", "clear", "copy", "stage", "exec",
           "fetch", "discard", "put", "cleanup"}

Run == [at : Places, payload : Payloads, found : Nat, token : Nat,
        runner : Nat, undisturbed : BOOLEAN]
NoRun == [at |-> "idle", payload |-> "destroy", found |-> 0, token |-> 0,
          runner |-> 0, undisturbed |-> FALSE]

Init ==
    /\ SecretInit
    /\ token = 0 /\ minted = 0
    /\ oldProject \in BOOLEAN
    /\ project = NoProject
    /\ runner = 0 /\ runners = 0
    /\ pod = [payload |-> "none", seeds |-> FALSE, token |-> 0]
    /\ orphans = {}
    /\ run = [r \in Runs |-> NoRun]
    /\ settled = FALSE

Becomes(r, state) == run' = [run EXCEPT ![r] = state]
Go(r, to) == Becomes(r, [run[r] EXCEPT !.at = to])
Dies(r) == Becomes(r, NoRun)

Start(r) ==
    /\ run[r].at = "idle"
    /\ run' = [q \in Runs |->
                 IF q = r
                 THEN [NoRun EXCEPT !.at = "list",
                                    !.undisturbed = \A p \in Runs : run[p].at = "idle"]
                 ELSE [run[q] EXCEPT !.undisturbed = FALSE]]
    /\ settled' = FALSE
    /\ UNCHANGED <<secretVars, ciVars>>

(* coder_rotate_token: a list that cannot be read deletes nothing.         *)
ListTokens(r) ==
    /\ run[r].at = "list"
    /\ \/ token # 0 /\ Becomes(r, [run[r] EXCEPT !.at = "delete", !.found = token])
       \/ (token = 0 \/ "coder" \in Faults) /\ Go(r, "create")
    /\ UNCHANGED <<secretVars, ciVars, settled>>

(* coder_rotate_token: the status of the DELETE is not looked at.          *)
DeleteToken(r) ==
    /\ run[r].at = "delete"
    /\ Go(r, "create")
    /\ \/ token' = IF token = run[r].found THEN 0 ELSE token
       \/ "coder" \in Faults /\ UNCHANGED token
    /\ UNCHANGED <<secretVars, minted, oldProject, project, runner, runners, pod, orphans, settled>>

(* coder_rotate_token: Coder keeps token names unique, and refuses.        *)
CreateToken(r) ==
    /\ run[r].at = "create"
    /\ \/ /\ token = 0 /\ minted < MaxToken
          /\ token' = minted + 1
          /\ minted' = minted + 1
          /\ Becomes(r, [run[r] EXCEPT !.at = "clear", !.token = minted + 1])
       \/ /\ token # 0 \/ minted = MaxToken \/ "coder" \in Faults
          /\ Dies(r)
          /\ UNCHANGED <<token, minted>>
    /\ UNCHANGED <<secretVars, oldProject, project, runner, runners, pod, orphans, settled>>

(* main: only now is the seed directory looked for; then the old staged    *)
(* copy is removed, whatever rm returns.                                   *)
ClearSeeds(r) ==
    /\ run[r].at = "clear"
    /\ \/ /\ Go(r, "copy")
          /\ \/ pod' = [pod EXCEPT !.seeds = FALSE]
             \/ "rm" \in Faults /\ UNCHANGED pod
       \/ "copy" \in Faults /\ Dies(r) /\ UNCHANGED pod
    /\ UNCHANGED <<secretVars, token, minted, oldProject, project, runner, runners, orphans, settled>>

(* main: kubectl cp.                                                       *)
CopySeeds(r) ==
    /\ run[r].at = "copy"
    /\ \/ Go(r, "stage") /\ pod' = [pod EXCEPT !.seeds = TRUE]
       \/ "copy" \in Faults /\ Dies(r) /\ UNCHANGED pod
    /\ UNCHANGED <<secretVars, token, minted, oldProject, project, runner, runners, orphans, settled>>

(* rails: write the payload to /tmp/_ci_setup.rb.                          *)
Stage(r) ==
    /\ run[r].at = "stage"
    /\ \/ Go(r, "exec") /\ pod' = [pod EXCEPT !.payload = run[r].payload]
       \/ "script" \in Faults /\ Dies(r) /\ UNCHANGED pod
    /\ UNCHANGED <<secretVars, token, minted, oldProject, project, runner, runners, orphans, settled>>

-----------------------------------------------------------------------------
(* The payloads, run with env as CODER_SESSION_TOKEN (0: not set).  Each   *)
(* leaves the payload file removed.                                        *)

PodDone == pod' = [pod EXCEPT !.payload = "none"]

(* RUBY_DELETE_OLD_PROJECT: prints FAILED, and exits 0.                    *)
DestroyOld ==
    /\ oldProject' = FALSE \/ ("destroy" \in Faults /\ UNCHANGED oldProject)
    /\ PodDone
    /\ UNCHANGED <<project, runner, runners>>

(* RUBY_ENSURE_PROJECT                                                     *)
EnsureProject ==
    /\ project' = IF project.up THEN project ELSE [NoProject EXCEPT !.up = TRUE]
    /\ PodDone
    /\ UNCHANGED <<oldProject, runner, runners>>

(* Mutation: a variable that is there is left as it is.                    *)
SetVariableOnce(env) ==
    /\ project.up /\ env # 0
    /\ project' = IF project.var = 0 THEN [project EXCEPT !.var = env] ELSE project
    /\ PodDone
    /\ UNCHANGED <<oldProject, runner, runners>>

(* RUBY_SET_CI_VARIABLE                                                    *)
SetVariable(env) ==
    /\ project.up /\ env # 0
    /\ project' = [project EXCEPT !.var = env]
    /\ PodDone
    /\ UNCHANGED <<oldProject, runner, runners>>

(* Mutation: a protected branch is not seeded again.                       *)
SeedOnce ==
    /\ project.up
    /\ project' = [project EXCEPT !.protected = TRUE,
                                  !.seeded = @ \/ (pod.seeds /\ ~project.protected)]
    /\ PodDone
    /\ UNCHANGED <<oldProject, runner, runners>>

(* RUBY_SEED_PROTECT: no staged files are "no changes", a failed commit is *)
(* printed, a branch that cannot be protected is printed as protected.     *)
SeedProtect ==
    /\ project.up
    /\ \E seeded \in {project.seeded} \cup (IF pod.seeds THEN {TRUE} ELSE {}),
          protected \in {project.protected, TRUE} :
         /\ pod.seeds /\ ~seeded => "seed" \in Faults
         /\ ~protected => "protect" \in Faults
         /\ project' = [project EXCEPT !.seeded = seeded, !.protected = protected]
    /\ PodDone
    /\ UNCHANGED <<oldProject, runner, runners>>

(* RUBY_GROUP_RUNNER: find or create, and write the token to its file.     *)
FindRunner ==
    /\ runner = 0 => runners < MaxRunner
    /\ runner' = IF runner = 0 THEN runners + 1 ELSE runner
    /\ runners' = IF runner = 0 THEN runners + 1 ELSE runners
    /\ pod' = [pod EXCEPT !.payload = "none", !.token = runner']
    /\ UNCHANGED <<oldProject, project>>

Effect(payload, env) ==
    \/ payload = "destroy" /\ DestroyOld
    \/ payload = "project" /\ EnsureProject
    \/ payload = "variable" /\ SetVariable(env)
    \/ payload = "seed" /\ SeedProtect
    \/ payload = "runner" /\ FindRunner

(* The payload file is gone, or the payload aborts.                        *)
Aborts(payload, env) ==
    \/ payload = "none"
    \/ payload = "variable" /\ (~project.up \/ env = 0)
    \/ payload = "seed" /\ ~project.up
    \/ payload = "runner" /\ runner = 0 /\ runners = MaxRunner
    \/ "script" \in Faults

(* Only the variable step reads a token into the environment.              *)
Env(r) == IF run[r].payload = "variable" THEN run[r].token ELSE 0

(* Mutation: a payload that aborts is staged and run again, for ever.      *)
ExecRetries(r) ==
    LET env == Env(r)
        next == After[run[r].payload]
    IN
    /\ run[r].at = "exec"
    /\ \/ /\ Effect(pod.payload, env)
          /\ Becomes(r, IF next = "fetch"
                        THEN [run[r] EXCEPT !.at = "fetch"]
                        ELSE [run[r] EXCEPT !.at = "stage", !.payload = next])
       \/ /\ Aborts(pod.payload, env)
          /\ PodDone
          /\ Go(r, "stage")
          /\ UNCHANGED <<oldProject, project, runner, runners>>
    /\ UNCHANGED <<secretVars, token, minted, orphans, settled>>

(* rails: run whatever is in the file, then remove it.                     *)
Exec(r) ==
    LET env == Env(r)
        next == After[run[r].payload]
    IN
    /\ run[r].at = "exec"
    /\ \/ /\ Effect(pod.payload, env)
          /\ Becomes(r, IF next = "fetch"
                        THEN [run[r] EXCEPT !.at = "fetch"]
                        ELSE [run[r] EXCEPT !.at = "stage", !.payload = next])
       \/ /\ Aborts(pod.payload, env)
          /\ PodDone
          /\ Dies(r)
          /\ UNCHANGED <<oldProject, project, runner, runners>>
    /\ UNCHANGED <<secretVars, token, minted, orphans, settled>>

-----------------------------------------------------------------------------
(* Mutation: what a failed cat prints is taken for the runner token.       *)
FetchMessage(r) ==
    /\ run[r].at = "fetch"
    /\ \/ Becomes(r, [run[r] EXCEPT !.at = "discard", !.runner = pod.token])
       \/ "script" \in Faults /\ Becomes(r, [run[r] EXCEPT !.at = "discard", !.runner = MaxRunner + 1])
    /\ UNCHANGED <<secretVars, ciVars, settled>>

(* main: cat the token file; a failed cat reads as an empty file.          *)
Fetch(r) ==
    /\ run[r].at = "fetch"
    /\ \/ Becomes(r, [run[r] EXCEPT !.at = "discard", !.runner = pod.token])
       \/ "script" \in Faults /\ Go(r, "discard")
    /\ UNCHANGED <<secretVars, ciVars, settled>>

(* Mutation: the token file is left in the pod.                            *)
DiscardNothing(r) ==
    /\ run[r].at = "discard"
    /\ IF run[r].runner = 0 THEN Dies(r) ELSE Go(r, "put")
    /\ UNCHANGED <<secretVars, ciVars, settled>>

(* main: remove the token file, then give up unless a token was read.      *)
Discard(r) ==
    /\ run[r].at = "discard"
    /\ IF run[r].runner = 0 THEN Dies(r) ELSE Go(r, "put")
    /\ \/ pod' = [pod EXCEPT !.token = 0]
       \/ "rm" \in Faults /\ UNCHANGED pod
    /\ UNCHANGED <<secretVars, token, minted, oldProject, project, runner, runners, orphans, settled>>

(* asm_put: whichever of put-secret-value and create-secret it picks, it   *)
(* writes the value or raises.                                             *)
PutRunner(r) ==
    /\ run[r].at = "put"
    /\ \/ Go(r, "cleanup") /\ asm' = [f \in Fields |-> run[r].runner]
       \/ "asm" \in Faults /\ Dies(r) /\ UNCHANGED asm
    /\ UNCHANGED <<k8s, app, ciVars, settled>>

(* main: remove the staged seeds, and exit 0.                              *)
Cleanup(r) ==
    /\ run[r].at = "cleanup"
    /\ \/ pod' = [pod EXCEPT !.seeds = FALSE]
       \/ "rm" \in Faults /\ UNCHANGED pod
    /\ Dies(r)
    /\ settled' = run[r].undisturbed
    /\ UNCHANGED <<secretVars, token, minted, oldProject, project, runner, runners, orphans>>

(* A run that is killed while it waits for a payload may leave it going.   *)
Crash(r) ==
    /\ "die" \in Faults
    /\ run[r].at # "idle"
    /\ Dies(r)
    /\ \/ UNCHANGED orphans
       \/ run[r].at = "exec" /\ orphans = {} /\ orphans' = {Env(r)}
    /\ UNCHANGED <<secretVars, token, minted, oldProject, project, runner, runners, pod, settled>>

-----------------------------------------------------------------------------
Disturb ==
    /\ run' = [r \in Runs |-> [run[r] EXCEPT !.undisturbed = FALSE]]
    /\ settled' = FALSE

(* A user of the project commits to it.                                    *)
Commit ==
    /\ "commit" \in Hands
    /\ project.up
    /\ project' = [project EXCEPT !.seeded = FALSE]
    /\ Disturb
    /\ UNCHANGED <<secretVars, token, minted, oldProject, runner, runners, pod, orphans>>

(* A group owner removes the runner.                                       *)
RemoveRunner ==
    /\ "removeRunner" \in Hands
    /\ runner # 0
    /\ runner' = 0
    /\ Disturb
    /\ UNCHANGED <<secretVars, token, minted, oldProject, project, runners, pod, orphans>>

SyncNext == Refresh /\ UNCHANGED <<ciVars, run, settled>>

(* A payload whose run has died is carried out after all.                  *)
Orphan ==
    /\ \E env \in orphans :
          \/ Effect(pod.payload, env)
          \/ Aborts(pod.payload, env) /\ PodDone /\ UNCHANGED <<oldProject, project, runner, runners>>
    /\ orphans' = {}
    /\ Disturb
    /\ UNCHANGED <<secretVars, token, minted>>

(* The runner is rolled with helm upgrade.                                 *)
RollNext == Restart /\ UNCHANGED <<ciVars, run, settled>>

Step(r) ==
    \/ ListTokens(r) \/ DeleteToken(r) \/ CreateToken(r)
    \/ ClearSeeds(r) \/ CopySeeds(r) \/ Stage(r) \/ Exec(r)
    \/ Fetch(r) \/ Discard(r) \/ PutRunner(r) \/ Cleanup(r)

RunNext == \E r \in Runs : Start(r) \/ Step(r) \/ Crash(r)

Next == RunNext \/ Orphan \/ Commit \/ RemoveRunner \/ SyncNext \/ RollNext

Spec == Init /\ [][Next]_vars

(* ESO refreshes on its timer and a started run goes on.                   *)
FairSpec ==
    /\ Spec
    /\ \A r \in Runs : WF_vars(Step(r))
    /\ WF_vars(SyncNext)

-----------------------------------------------------------------------------
(* Properties.                                                             *)

(* What is kept or carried as a token is one that Coder or GitLab made, or *)
(* none: never an error, an empty file or what another program printed.    *)
TokensMade ==
    /\ token \in 0 .. minted /\ project.var \in 0 .. minted /\ orphans \subseteq 0 .. minted
    /\ runner \in 0 .. runners /\ pod.token \in 0 .. runners
    /\ \A f \in Fields : asm[f] \in 0 .. runners
    /\ \A r \in Runs : run[r].token \in 0 .. minted /\ run[r].runner \in 0 .. runners

(* The type invariant.                                                     *)
TypeOK ==
    /\ SecretTypeOK
    /\ minted \in Nat /\ runners \in Nat
    /\ oldProject \in BOOLEAN
    /\ project \in Project
    /\ pod \in [payload : Payloads \cup {"none"}, seeds : BOOLEAN, token : Nat]
    /\ run \in [Runs -> Run]
    /\ settled \in BOOLEAN
    /\ TokensMade

Resting == \A r \in Runs : run[r].at = "idle"

(* "idempotent; re-running reconciles in place": when an undisturbed run   *)
(* exits 0, the CI variable is the token Coder accepts and ASM holds the   *)
(* group runner's token, whatever died or overlapped before it.            *)
CleanRunReady ==
    settled => /\ project.up /\ token # 0 /\ project.var = token
               /\ runner # 0 /\ asm["runner-token"] = runner

(* Then also the old project is gone and the new one seeded and protected. *)
(* The payloads swallow what goes wrong with these (destroy, seed,         *)
(* protect), and break it.                                                 *)
CleanRunSeeds ==
    settled => ~oldProject /\ project.seeded /\ project.protected

(* "retrieved over a captured exec, then removed": no token, payload or    *)
(* seed is left in the pod by an undisturbed run that exits 0, not even    *)
(* one that a dead run left there.  A clean-up command that fails (rm) is  *)
(* not noticed, and breaks it.                                             *)
CleanRunLeavesNothing ==
    settled => pod.payload = "none" /\ ~pod.seeds /\ pod.token = 0

(* "The script is safe to re-run on a schedule to rotate" the token: while *)
(* no run is in flight the CI variable holds a token Coder accepts.  A run *)
(* that gives up after the rotation breaks it, and so do overlapping runs. *)
VariableAlive ==
    Resting /\ project.var # 0 => project.var = token

(* The runner's token reaches the Kubernetes Secret, unless something else *)
(* happens first.                                                          *)
RunnerReachesSecret ==
    settled ~> (k8s["runner-token"] = runner \/ ~settled)

(* Every run ends, whatever payload of another run it picks up.            *)
RunsEnd == \A r \in Runs : run[r].at # "idle" ~> run[r].at = "idle"
=============================================================================
