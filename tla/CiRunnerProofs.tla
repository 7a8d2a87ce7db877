--------------------------- MODULE CiRunnerProofs ---------------------------
(***************************************************************************)
(* Proofs about CiRunner, for any overlapping runs, any faults but those   *)
(* a theorem excludes, and any number of tokens and runners: what an       *)
(* undisturbed run that exits 0 leaves behind, and that the runner's token *)
(* is only ever published whole.                                           *)
(***************************************************************************)
EXTENDS CiRunner, TLAPS

Pod == [payload : Payloads \cup {"none"}, seeds : BOOLEAN, token : Nat]

(* Everything but the runs has its type.                                   *)
StateTypeOK ==
    /\ SecretTypeOK
    /\ token \in 0 .. minted /\ minted \in Nat
    /\ oldProject \in BOOLEAN
    /\ project \in Project
    /\ runner \in 0 .. runners /\ runners \in Nat
    /\ pod \in Pod
    /\ settled \in BOOLEAN

(* The steps before the payloads, after the rotation, after the payloads.  *)
Begun == {"list", "delete", "create", "clear", "copy"}
Late == {"fetch", "discard", "put", "cleanup"}
Rotated == {"clear", "copy", "stage", "exec"} \cup Late

(* What an undisturbed run x has achieved: token, variable and runner ...  *)
Achieved(x) ==
    /\ x.at \in Begun => x.payload = "destroy"
    /\ x.at \notin {"discard", "put", "cleanup"} => x.runner = 0
    /\ x.at \in Rotated => x.token = token /\ token # 0
    /\ x.at \in {"stage", "exec"} =>
          /\ x.payload \in {"variable", "seed", "runner"} => project.up
          /\ x.payload \in {"seed", "runner"} => project.var = token
    /\ x.at = "exec" => pod.payload = x.payload
    /\ x.at \in Late => project.up /\ project.var = token /\ runner # 0
    /\ x.at = "fetch" => pod.token = runner
    /\ x.at = "discard" => x.runner \in {0, runner}
    /\ x.at = "put" => x.runner = runner
    /\ x.at = "cleanup" => asm["runner-token"] = runner

(* ... the old project and the seeds, if the payloads do not fail ...      *)
Seeded(x) ==
    /\ x.at \in {"stage", "exec"} =>
          /\ x.payload # "destroy" => ~oldProject
          /\ x.payload # "runner" => pod.seeds
          /\ x.payload = "runner" => project.seeded /\ project.protected
    /\ x.at \in Late => ~oldProject /\ project.seeded /\ project.protected

(* ... and the files in the pod, if they can be removed.                   *)
Cleaned(x) ==
    /\ x.at \in Late => pod.payload = "none"
    /\ x.at \in {"put", "cleanup"} => pod.token = 0

SeedsWork == Faults \cap {"destroy", "seed", "protect"} = {}
RemovalsWork == "rm" \notin Faults

Holds(x) ==
    /\ Achieved(x)
    /\ SeedsWork => Seeded(x)
    /\ RemovalsWork => Cleaned(x)

(* An undisturbed run is the only one, and nothing is settled meanwhile.   *)
CInv ==
    /\ StateTypeOK
    /\ run \in [Runs -> Run]
    /\ \A r \in Runs : run[r].undisturbed =>
          /\ ~settled /\ Holds(run[r])
          /\ \A q \in Runs \ {r} : run[q].at = "idle"
    /\ settled => Resting
    /\ CleanRunReady
    /\ SeedsWork => CleanRunSeeds
    /\ RemovalsWork => CleanRunLeavesNothing

-----------------------------------------------------------------------------
(* A run goes on, with whatever it has achieved.                           *)
LEMMA RunGoes ==
  ASSUME CInv, NEW r \in Runs, run[r].at # "idle", NEW y \in Run, Becomes(r, y),
         settled' = settled, StateTypeOK',
         y.undisturbed => run[r].undisturbed /\ Holds(run[r])'
  PROVE  CInv'
<1>1. /\ run \in [Runs -> Run] /\ run' = [run EXCEPT ![r] = y]
      /\ ~settled /\ settled' = FALSE
  BY DEF CInv, Becomes, Resting, StateTypeOK
<1>2. run' \in [Runs -> Run] /\ run'[r] = y /\ \A q \in Runs \ {r} : run'[q] = run[q]
  BY <1>1
<1>3. ASSUME NEW p \in Runs, run'[p].undisturbed
      PROVE  Holds(run[p])' /\ \A q \in Runs \ {p} : run'[q].at = "idle"
  <2>1. CASE p = r
    BY <1>2, <1>3, <2>1 DEF CInv
  <2>2. CASE p # r
    BY <1>2, <1>3, <2>2 DEF CInv
  <2> QED
    BY <2>1, <2>2
<1> QED
  BY <1>1, <1>2, <1>3 DEF CInv, CleanRunReady, CleanRunSeeds, CleanRunLeavesNothing

(* While a run is in flight, no other one is undisturbed.                  *)
LEMMA RestIsClean ==
  ASSUME CInv, NEW r \in Runs, run[r].at # "idle"
  PROVE  \A q \in Runs \ {r} : run[q].undisturbed = FALSE
<1> SUFFICES ASSUME NEW q \in Runs \ {r} PROVE run[q].undisturbed = FALSE
  OBVIOUS
<1>1. run[q].undisturbed \in BOOLEAN
  BY DEF CInv, Run
<1> QED
  BY <1>1 DEF CInv

(* A run that has not started.                                             *)
LEMMA NoRunTyped == NoRun \in Run /\ NoRun.undisturbed = FALSE /\ NoRun.at = "idle"
BY DEF NoRun, Run, Places, Payloads

(* A run ends without exit 0.                                              *)
LEMMA RunDies ==
  ASSUME CInv, NEW r \in Runs, run[r].at # "idle", Dies(r), settled' = settled, StateTypeOK'
  PROVE  CInv'
BY NoRunTyped, RunGoes DEF Dies

(* A run only goes to another place.                                       *)
LEMMA Placed ==
  ASSUME NEW x \in Run, NEW to \in Places, NEW y, y = [x EXCEPT !.at = to]
  PROVE  /\ y \in Run /\ y.at = to /\ y.payload = x.payload /\ y.token = x.token
         /\ y.runner = x.runner /\ y.undisturbed = x.undisturbed
BY DEF Run

(* The rotation.                                                           *)
LEMMA ListTokensKeeps == ASSUME CInv, NEW r \in Runs, ListTokens(r) PROVE CInv'
<1>1. /\ run[r] \in Run /\ run[r].at = "list" /\ settled' = settled /\ StateTypeOK'
      /\ run \in [Runs -> Run] /\ token \in Nat
  BY DEF CInv, ListTokens, StateTypeOK, SecretTypeOK, secretVars, ciVars
<1>2. CASE Go(r, "create")
  <2> DEFINE y == [run[r] EXCEPT !.at = "create"]
  <2>1. y = [run[r] EXCEPT !.at = "create"] /\ Becomes(r, y)
    BY <1>2 DEF Go
  <2> HIDE DEF y
  <2>2. /\ y \in Run /\ y.at = "create" /\ y.undisturbed = run[r].undisturbed
        /\ y.payload = run[r].payload /\ y.runner = run[r].runner
    BY <1>1, <2>1, Placed DEF Places
  <2>3. run'[r] = y
    BY <1>1, <2>1 DEF Becomes
  <2>4. run[r].undisturbed => Holds(run[r])'
    BY <1>1, <2>2, <2>3 DEF CInv, Holds, Achieved, Seeded, Cleaned, Late, Rotated, Begun
  <2> QED
    BY <1>1, <2>1, <2>2, <2>4, RunGoes
<1>3. CASE Becomes(r, [run[r] EXCEPT !.at = "delete", !.found = token])
  <2> DEFINE m == [run[r] EXCEPT !.at = "delete"]
             y == [m EXCEPT !.found = token]
  <2>1. m = [run[r] EXCEPT !.at = "delete"] /\ y = [m EXCEPT !.found = token] /\ Becomes(r, y)
    BY <1>3
  <2> HIDE DEF m, y
  <2>2. /\ m \in Run /\ m.at = "delete" /\ m.undisturbed = run[r].undisturbed
        /\ m.payload = run[r].payload /\ m.runner = run[r].runner
    BY <1>1, <2>1, Placed DEF Places
  <2>3. /\ y \in Run /\ y.at = "delete" /\ y.undisturbed = run[r].undisturbed
        /\ y.payload = run[r].payload /\ y.runner = run[r].runner
    BY <1>1, <2>1, <2>2 DEF Run
  <2>4. run'[r] = y
    BY <1>1, <2>1 DEF Becomes
  <2>5. run[r].undisturbed => Holds(run[r])'
    BY <1>1, <2>3, <2>4 DEF CInv, Holds, Achieved, Seeded, Cleaned, Late, Rotated, Begun
  <2> QED
    BY <1>1, <2>1, <2>3, <2>5, RunGoes
<1> QED
  BY <1>2, <1>3 DEF ListTokens

(* The old token goes, or stays: nothing is claimed before a new one.      *)
LEMMA DeleteTokenKeeps == ASSUME CInv, NEW r \in Runs, DeleteToken(r) PROVE CInv'
<1> DEFINE y == [run[r] EXCEPT !.at = "create"]
<1>1. y = [run[r] EXCEPT !.at = "create"] /\ Becomes(r, y)
  BY DEF DeleteToken, Go
<1> HIDE DEF y
<1>2. /\ run[r] \in Run /\ run[r].at = "delete" /\ settled' = settled /\ StateTypeOK'
      /\ run \in [Runs -> Run]
  BY DEF CInv, DeleteToken, StateTypeOK, SecretTypeOK, secretVars
<1>3. /\ y \in Run /\ y.at = "create" /\ y.undisturbed = run[r].undisturbed
      /\ y.payload = run[r].payload /\ y.runner = run[r].runner
  BY <1>1, <1>2, Placed DEF Places
<1>4. run'[r] = y
  BY <1>1, <1>2 DEF Becomes
<1>5. run[r].undisturbed => Holds(run[r])'
  BY <1>2, <1>3, <1>4 DEF CInv, Holds, Achieved, Seeded, Cleaned, Late, Rotated, Begun
<1> QED
  BY <1>1, <1>2, <1>3, <1>5, RunGoes

(* The new token is the one that Coder accepts, or the run ends.           *)
LEMMA CreateTokenKeeps == ASSUME CInv, NEW r \in Runs, CreateToken(r) PROVE CInv'
<1>1. /\ run[r] \in Run /\ run[r].at = "create" /\ settled' = settled /\ StateTypeOK'
      /\ run \in [Runs -> Run] /\ minted \in Nat
  BY DEF CInv, CreateToken, StateTypeOK, SecretTypeOK, secretVars
<1>2. CASE Dies(r)
  BY <1>1, <1>2, RunDies
<1>3. CASE /\ Becomes(r, [run[r] EXCEPT !.at = "clear", !.token = minted + 1])
           /\ token' = minted + 1
  <2> DEFINE m == [run[r] EXCEPT !.at = "clear"]
             y == [m EXCEPT !.token = minted + 1]
  <2>1. m = [run[r] EXCEPT !.at = "clear"] /\ y = [m EXCEPT !.token = minted + 1] /\ Becomes(r, y)
    BY <1>3
  <2> HIDE DEF m, y
  <2>2. /\ m \in Run /\ m.at = "clear" /\ m.undisturbed = run[r].undisturbed
        /\ m.payload = run[r].payload /\ m.runner = run[r].runner
    BY <1>1, <2>1, Placed DEF Places
  <2>6. minted + 1 \in Nat
    BY <1>1
  <2>3. /\ y \in Run /\ y.at = "clear" /\ y.undisturbed = run[r].undisturbed
        /\ y.payload = run[r].payload /\ y.runner = run[r].runner /\ y.token = minted + 1
    BY <2>6, <2>1, <2>2 DEF Run
  <2>4. run'[r] = y
    BY <1>1, <2>1 DEF Becomes
  <2>5. run[r].undisturbed => Holds(run[r])'
    BY <1>1, <1>3, <2>3, <2>4 DEF CInv, Holds, Achieved, Seeded, Cleaned, Late, Rotated, Begun
  <2> QED
    BY <1>1, <2>1, <2>3, <2>5, RunGoes
<1> QED
  BY <1>2, <1>3 DEF CreateToken

(* The old staged copy goes, or stays.                                     *)
LEMMA ClearSeedsKeeps == ASSUME CInv, NEW r \in Runs, ClearSeeds(r) PROVE CInv'
<1>1. /\ run[r] \in Run /\ run[r].at = "clear" /\ settled' = settled
      /\ run \in [Runs -> Run] /\ pod \in Pod
      /\ UNCHANGED <<asm, k8s, app, token, minted, oldProject, project, runner, runners>>
  BY DEF CInv, ClearSeeds, StateTypeOK, secretVars
<1>2. /\ pod' \in Pod /\ pod'.token = pod.token
      /\ pod'.payload = pod.payload
  BY <1>1 DEF ClearSeeds, Pod, Run, Dies
<1>3. StateTypeOK'
  BY <1>1, <1>2 DEF CInv, StateTypeOK, SecretTypeOK
<1>4. CASE Dies(r)
  BY <1>1, <1>3, <1>4, RunDies
<1>5. CASE Go(r, "copy")
  <2> DEFINE y == [run[r] EXCEPT !.at = "copy"]
  <2>1. y = [run[r] EXCEPT !.at = "copy"] /\ Becomes(r, y)
    BY <1>5 DEF Go
  <2> HIDE DEF y
  <2>2. /\ y \in Run /\ y.at = "copy" /\ y.undisturbed = run[r].undisturbed
        /\ y.payload = run[r].payload /\ y.runner = run[r].runner /\ y.token = run[r].token
    BY <1>1, <2>1, Placed DEF Places
  <2>3. run'[r] = y
    BY <1>1, <2>1 DEF Becomes
  <2>4. run[r].undisturbed => Holds(run[r])'
    BY <1>1, <1>2, <1>5, <2>2, <2>3
    DEF CInv, Holds, Achieved, Seeded, Cleaned, Late, Rotated, Begun
  <2> QED
    BY <1>1, <1>3, <2>1, <2>2, <2>4, RunGoes
<1> QED
  BY <1>4, <1>5 DEF ClearSeeds

(* The seeds are copied before the first payload is staged.                *)
LEMMA CopySeedsKeeps == ASSUME CInv, NEW r \in Runs, CopySeeds(r) PROVE CInv'
<1>1. /\ run[r] \in Run /\ run[r].at = "copy" /\ settled' = settled
      /\ run \in [Runs -> Run] /\ pod \in Pod
      /\ UNCHANGED <<asm, k8s, app, token, minted, oldProject, project, runner, runners>>
  BY DEF CInv, CopySeeds, StateTypeOK, secretVars
<1>2. /\ pod' \in Pod /\ pod'.token = pod.token
      /\ pod'.payload = pod.payload
  BY <1>1 DEF CopySeeds, Pod, Run, Dies
<1>3. StateTypeOK'
  BY <1>1, <1>2 DEF CInv, StateTypeOK, SecretTypeOK
<1>4. CASE Dies(r)
  BY <1>1, <1>3, <1>4, RunDies
<1>5. CASE Go(r, "stage") /\ pod'.seeds
  <2> DEFINE y == [run[r] EXCEPT !.at = "stage"]
  <2>1. y = [run[r] EXCEPT !.at = "stage"] /\ Becomes(r, y)
    BY <1>5 DEF Go
  <2> HIDE DEF y
  <2>2. /\ y \in Run /\ y.at = "stage" /\ y.undisturbed = run[r].undisturbed
        /\ y.payload = run[r].payload /\ y.runner = run[r].runner /\ y.token = run[r].token
    BY <1>1, <2>1, Placed DEF Places
  <2>3. run'[r] = y
    BY <1>1, <2>1 DEF Becomes
  <2>4. run[r].undisturbed => Holds(run[r])'
    BY <1>1, <1>2, <1>5, <2>2, <2>3
    DEF CInv, Holds, Achieved, Seeded, Cleaned, Late, Rotated, Begun
  <2> QED
    BY <1>1, <1>3, <2>1, <2>2, <2>4, RunGoes
<1> QED
  BY <1>1, <1>4, <1>5 DEF CopySeeds, Pod

(* The payload is in the file when it is run.                              *)
LEMMA StageKeeps == ASSUME CInv, NEW r \in Runs, Stage(r) PROVE CInv'
<1>1. /\ run[r] \in Run /\ run[r].at = "stage" /\ settled' = settled
      /\ run \in [Runs -> Run] /\ pod \in Pod
      /\ UNCHANGED <<asm, k8s, app, token, minted, oldProject, project, runner, runners>>
  BY DEF CInv, Stage, StateTypeOK, secretVars
<1>2. /\ pod' \in Pod /\ pod'.token = pod.token
      /\ pod'.seeds = pod.seeds
  BY <1>1 DEF Stage, Pod, Run, Dies
<1>3. StateTypeOK'
  BY <1>1, <1>2 DEF CInv, StateTypeOK, SecretTypeOK
<1>4. CASE Dies(r)
  BY <1>1, <1>3, <1>4, RunDies
<1>5. CASE Go(r, "exec") /\ pod'.payload = run[r].payload
  <2> DEFINE y == [run[r] EXCEPT !.at = "exec"]
  <2>1. y = [run[r] EXCEPT !.at = "exec"] /\ Becomes(r, y)
    BY <1>5 DEF Go
  <2> HIDE DEF y
  <2>2. /\ y \in Run /\ y.at = "exec" /\ y.undisturbed = run[r].undisturbed
        /\ y.payload = run[r].payload /\ y.runner = run[r].runner /\ y.token = run[r].token
    BY <1>1, <2>1, Placed DEF Places
  <2>3. run'[r] = y
    BY <1>1, <2>1 DEF Becomes
  <2>4. run[r].undisturbed => Holds(run[r])'
    BY <1>1, <1>2, <1>5, <2>2, <2>3
    DEF CInv, Holds, Achieved, Seeded, Cleaned, Late, Rotated, Begun
  <2> QED
    BY <1>1, <1>3, <2>1, <2>2, <2>4, RunGoes
<1> QED
  BY <1>1, <1>4, <1>5 DEF Stage, Pod

-----------------------------------------------------------------------------
(* A payload keeps the types, and takes its file away.                     *)
LEMMA EffectTyped ==
  ASSUME CInv, NEW payload, NEW env \in Nat, Effect(payload, env)
  PROVE  /\ oldProject' \in BOOLEAN /\ project' \in Project
         /\ runner' \in 0 .. runners' /\ runners' \in Nat
         /\ pod' \in Pod /\ pod'.payload = "none" /\ pod'.seeds = pod.seeds
         /\ oldProject' => oldProject
<1>1. /\ oldProject \in BOOLEAN /\ project \in Project /\ pod \in Pod
      /\ runner \in 0 .. runners /\ runners \in Nat
  BY DEF CInv, StateTypeOK
<1>2. CASE DestroyOld
  <2>1. oldProject' \in BOOLEAN /\ (oldProject' => oldProject)
    <3>1. CASE oldProject' = FALSE
      BY <3>1
    <3>2. CASE oldProject' = oldProject
      BY <1>1, <3>2
    <3> QED
      BY <1>2, <3>1, <3>2 DEF DestroyOld
  <2>2. /\ project' = project /\ runner' = runner /\ runners' = runners
        /\ pod' = [pod EXCEPT !.payload = "none"]
    BY <1>2 DEF DestroyOld, PodDone
  <2> QED
    BY <1>1, <2>1, <2>2 DEF Pod
<1>3. CASE EnsureProject
  BY <1>1, <1>3 DEF EnsureProject, NoProject, Project, PodDone, Pod
<1>4. CASE SetVariable(env)
  BY <1>1, <1>4 DEF SetVariable, Project, PodDone, Pod
<1>5. CASE SeedProtect
  BY <1>1, <1>5 DEF SeedProtect, Project, PodDone, Pod
<1>6. CASE FindRunner
  <2>1. /\ runner' \in 0 .. runners' /\ runners' \in Nat /\ runner' \in Nat
        /\ UNCHANGED <<oldProject, project>>
    BY <1>1, <1>6 DEF FindRunner
  <2>2. pod' = [pod EXCEPT !.payload = "none", !.token = runner']
    BY <1>6 DEF FindRunner
  <2>3. pod' \in Pod /\ pod'.payload = "none" /\ pod'.seeds = pod.seeds
    BY <1>1, <2>1, <2>2 DEF Pod
  <2> QED
    BY <1>1, <2>1, <2>3
<1> QED
  BY <1>2, <1>3, <1>4, <1>5, <1>6 DEF Effect

(* What a payload does, if the failures it swallows do not happen.         *)
LEMMA EffectDoes ==
  ASSUME CInv, NEW payload, NEW env \in Nat, Effect(payload, env)
  PROVE  /\ payload = "destroy" /\ SeedsWork => oldProject' = FALSE
         /\ payload # "destroy" => oldProject' = oldProject
         /\ payload = "project" => project'.up
         /\ payload = "variable" => project'.up /\ project'.var = env
         /\ payload = "seed" =>
               /\ project'.up = project.up /\ project'.var = project.var
               /\ SeedsWork /\ pod.seeds => project'.seeded /\ project'.protected
         /\ payload = "runner" =>
               /\ project' = project /\ runner' # 0 /\ pod'.token = runner'
<1>1. /\ oldProject \in BOOLEAN /\ project \in Project /\ pod \in Pod
      /\ runner \in 0 .. runners /\ runners \in Nat
  BY DEF CInv, StateTypeOK
<1>2. CASE payload = "destroy"
  BY <1>1, <1>2 DEF Effect, DestroyOld, SeedsWork
<1>3. CASE payload = "project"
  BY <1>1, <1>3 DEF Effect, EnsureProject, NoProject, Project
<1>4. CASE payload = "variable"
  BY <1>1, <1>4 DEF Effect, SetVariable, Project
<1>5. CASE payload = "seed"
  <2>1. SeedProtect
    BY <1>5 DEF Effect
  <2> QED
    BY <1>1, <1>5, <2>1 DEF SeedProtect, SeedsWork, Project
<1>6. CASE payload = "runner"
  <2>1. /\ runner' # 0 /\ UNCHANGED <<oldProject, project>>
        /\ pod' = [pod EXCEPT !.payload = "none", !.token = runner']
    BY <1>1, <1>6 DEF Effect, FindRunner
  <2>2. pod'.token = runner'
    BY <1>1, <2>1 DEF Pod
  <2> QED
    BY <1>6, <2>1, <2>2
<1>7. payload \in {"destroy", "project", "variable", "seed", "runner"}
  BY DEF Effect
<1> QED
  BY <1>2, <1>3, <1>4, <1>5, <1>6, <1>7

(* A payload is run: of an undisturbed run it is its own.                  *)
LEMMA ExecKeeps == ASSUME CInv, NEW r \in Runs, Exec(r) PROVE CInv'
<1> DEFINE env == Env(r)
           next == After[run[r].payload]
<1>1. /\ run[r] \in Run /\ run[r].at = "exec" /\ settled' = settled
      /\ run \in [Runs -> Run] /\ pod \in Pod
      /\ UNCHANGED <<asm, k8s, app, token, minted>>
  BY DEF CInv, Exec, StateTypeOK, secretVars
<1>2. env \in Nat /\ run[r].payload \in Payloads
  BY <1>1 DEF Run, Env
<1>3. CASE /\ PodDone /\ Dies(r)
           /\ UNCHANGED <<oldProject, project, runner, runners>>
  <2>1. pod' \in Pod
    BY <1>1, <1>3 DEF PodDone, Pod
  <2>2. StateTypeOK'
    BY <1>1, <1>3, <2>1 DEF CInv, StateTypeOK, SecretTypeOK
  <2> QED
    BY <1>1, <1>3, <2>2, RunDies
<1>4. CASE /\ Effect(pod.payload, env)
           /\ Becomes(r, IF next = "fetch"
                         THEN [run[r] EXCEPT !.at = "fetch"]
                         ELSE [run[r] EXCEPT !.at = "stage", !.payload = next])
  <2> HIDE DEF env
  <2>1. /\ oldProject' \in BOOLEAN /\ project' \in Project
        /\ runner' \in 0 .. runners' /\ runners' \in Nat
        /\ pod' \in Pod /\ pod'.payload = "none" /\ pod'.seeds = pod.seeds
        /\ oldProject' => oldProject
    BY <1>2, <1>4, EffectTyped
  <2>2. StateTypeOK'
    BY <1>1, <2>1 DEF CInv, StateTypeOK, SecretTypeOK
  <2>3. SUFFICES ASSUME run[r].undisturbed => pod.payload = run[r].payload PROVE CInv'
    BY <1>1 DEF CInv, Holds, Achieved
  <2>4. run[r].undisturbed => Effect(run[r].payload, env)
    BY <1>4, <2>3
  <2>5. run[r].payload = "variable" => env = run[r].token
    BY DEF env, Env
  <2>6. CASE run[r].payload = "runner"
    <3> DEFINE y == [run[r] EXCEPT !.at = "fetch"]
    <3>1. y = [run[r] EXCEPT !.at = "fetch"] /\ Becomes(r, y)
      BY <1>4, <2>6 DEF After
    <3> HIDE DEF y
    <3>2. /\ y \in Run /\ y.at = "fetch" /\ y.undisturbed = run[r].undisturbed
          /\ y.runner = run[r].runner /\ y.token = run[r].token
      BY <1>1, <3>1, Placed DEF Places
    <3>3. run'[r] = y
      BY <1>1, <3>1 DEF Becomes
    <3>4. run[r].undisturbed =>
            /\ project' = project /\ runner' # 0 /\ pod'.token = runner'
            /\ oldProject' = oldProject
      BY <1>2, <2>4, <2>6, EffectDoes
    <3>5. run[r].undisturbed => Holds(run[r])'
      BY <1>1, <2>1, <2>6, <3>2, <3>3, <3>4
      DEF CInv, Holds, Achieved, Seeded, Cleaned, Late, Rotated, Begun
    <3> QED
      BY <1>1, <2>2, <3>1, <3>2, <3>5, RunGoes
  <2>7. CASE run[r].payload # "runner"
    <3> DEFINE m == [run[r] EXCEPT !.at = "stage"]
               y == [m EXCEPT !.payload = next]
    <3>1. /\ next \in {"project", "variable", "seed", "runner"}
          /\ next = "project" => run[r].payload = "destroy"
          /\ next = "variable" => run[r].payload = "project"
          /\ next = "seed" => run[r].payload = "variable"
          /\ next = "runner" => run[r].payload = "seed"
      BY <1>2, <2>7 DEF After, Payloads
    <3>2. m = [run[r] EXCEPT !.at = "stage"] /\ y = [m EXCEPT !.payload = next] /\ Becomes(r, y)
      BY <1>4, <3>1
    <3> HIDE DEF m, y, next
    <3>3. /\ m \in Run /\ m.at = "stage" /\ m.undisturbed = run[r].undisturbed
          /\ m.runner = run[r].runner /\ m.token = run[r].token
      BY <1>1, <3>2, Placed DEF Places
    <3>4. next \in Payloads
      BY <3>1 DEF Payloads
    <3>5. /\ y \in Run /\ y.at = "stage" /\ y.undisturbed = run[r].undisturbed
          /\ y.runner = run[r].runner /\ y.token = run[r].token /\ y.payload = next
      BY <3>2, <3>3, <3>4 DEF Run
    <3>6. run'[r] = y
      BY <1>1, <3>2 DEF Becomes
    <3>7. run[r].undisturbed =>
            /\ next = "project" /\ SeedsWork => oldProject' = FALSE
            /\ next # "project" => oldProject' = oldProject
            /\ next = "variable" => project'.up
            /\ next = "seed" => project'.up /\ project'.var = run[r].token
            /\ next = "runner" =>
                  /\ project'.up = project.up /\ project'.var = project.var
                  /\ SeedsWork /\ pod.seeds => project'.seeded /\ project'.protected
      <4>1. CASE run[r].payload = "destroy"
        BY <1>2, <2>4, <3>1, <4>1, EffectDoes
      <4>2. CASE run[r].payload = "project"
        BY <1>2, <2>4, <3>1, <4>2, EffectDoes
      <4>3. CASE run[r].payload = "variable"
        BY <1>2, <2>4, <2>5, <3>1, <4>3, EffectDoes
      <4>4. CASE run[r].payload = "seed"
        BY <1>2, <2>4, <3>1, <4>4, EffectDoes
      <4> QED
        BY <1>2, <2>7, <4>1, <4>2, <4>3, <4>4 DEF Payloads
    <3>8. run[r].undisturbed => Achieved(run[r])'
      BY <1>1, <2>1, <3>1, <3>5, <3>6, <3>7
      DEF CInv, Holds, Achieved, Late, Rotated, Begun
    <3>9. run[r].undisturbed /\ SeedsWork => Seeded(run[r])'
      BY <1>1, <2>1, <2>7, <3>1, <3>5, <3>6, <3>7 DEF CInv, Holds, Seeded, Late
    <3>10. run[r].undisturbed => Holds(run[r])'
      BY <3>5, <3>6, <3>8, <3>9 DEF Holds, Cleaned, Late, SeedsWork
    <3> QED
      BY <1>1, <2>2, <3>2, <3>5, <3>10, RunGoes
  <2> QED
    BY <2>6, <2>7
<1> QED
  BY <1>3, <1>4 DEF Exec

(* The runner's token is read from the file.                               *)
LEMMA FetchKeeps == ASSUME CInv, NEW r \in Runs, Fetch(r) PROVE CInv'
<1>1. /\ run[r] \in Run /\ run[r].at = "fetch" /\ settled' = settled /\ StateTypeOK'
      /\ run \in [Runs -> Run] /\ pod.token \in Nat
      /\ UNCHANGED <<asm, token, oldProject, project, runner, pod>>
  BY DEF CInv, Fetch, StateTypeOK, SecretTypeOK, secretVars, ciVars, Pod
<1> DEFINE m == [run[r] EXCEPT !.at = "discard"]
<1>2. m = [run[r] EXCEPT !.at = "discard"]
  OBVIOUS
<1> HIDE DEF m
<1>3. /\ m \in Run /\ m.at = "discard" /\ m.undisturbed = run[r].undisturbed
      /\ m.payload = run[r].payload /\ m.runner = run[r].runner /\ m.token = run[r].token
  BY <1>1, <1>2, Placed DEF Places
<1>4. CASE Go(r, "discard")
  <2>1. Becomes(r, m)
    BY <1>2, <1>4 DEF Go
  <2>2. run'[r] = m
    BY <1>1, <2>1 DEF Becomes
  <2>3. run[r].undisturbed => Holds(run[r])'
    BY <1>1, <1>3, <2>2 DEF CInv, Holds, Achieved, Seeded, Cleaned, Late, Rotated, Begun
  <2> QED
    BY <1>1, <1>3, <2>1, <2>3, RunGoes
<1>5. CASE Becomes(r, [run[r] EXCEPT !.at = "discard", !.runner = pod.token])
  <2> DEFINE y == [m EXCEPT !.runner = pod.token]
  <2>1. y = [m EXCEPT !.runner = pod.token] /\ Becomes(r, y)
    BY <1>2, <1>5
  <2> HIDE DEF y
  <2>2. /\ y \in Run /\ y.at = "discard" /\ y.undisturbed = run[r].undisturbed
        /\ y.payload = run[r].payload /\ y.runner = pod.token /\ y.token = run[r].token
    BY <1>1, <1>3, <2>1 DEF Run
  <2>3. run'[r] = y
    BY <1>1, <2>1 DEF Becomes
  <2>4. run[r].undisturbed => Holds(run[r])'
    BY <1>1, <2>2, <2>3 DEF CInv, Holds, Achieved, Seeded, Cleaned, Late, Rotated, Begun
  <2> QED
    BY <1>1, <2>1, <2>2, <2>4, RunGoes
<1> QED
  BY <1>4, <1>5 DEF Fetch

(* The file with the runner's token goes; the run too, unless it read it.  *)
LEMMA DiscardKeeps == ASSUME CInv, NEW r \in Runs, Discard(r) PROVE CInv'
<1>1. /\ run[r] \in Run /\ run[r].at = "discard" /\ settled' = settled
      /\ run \in [Runs -> Run] /\ pod \in Pod
      /\ UNCHANGED <<asm, k8s, app, token, minted, oldProject, project, runner, runners>>
  BY DEF CInv, Discard, StateTypeOK, secretVars
<1>2. /\ pod' \in Pod /\ pod'.payload = pod.payload
      /\ RemovalsWork => pod'.token = 0
  BY <1>1 DEF Discard, Pod, RemovalsWork
<1>3. StateTypeOK'
  BY <1>1, <1>2 DEF CInv, StateTypeOK, SecretTypeOK
<1>4. CASE Dies(r)
  BY <1>1, <1>3, <1>4, RunDies
<1>5. CASE Go(r, "put") /\ run[r].runner # 0
  <2> DEFINE y == [run[r] EXCEPT !.at = "put"]
  <2>1. y = [run[r] EXCEPT !.at = "put"] /\ Becomes(r, y)
    BY <1>5 DEF Go
  <2> HIDE DEF y
  <2>2. /\ y \in Run /\ y.at = "put" /\ y.undisturbed = run[r].undisturbed
        /\ y.payload = run[r].payload /\ y.runner = run[r].runner /\ y.token = run[r].token
    BY <1>1, <2>1, Placed DEF Places
  <2>3. run'[r] = y
    BY <1>1, <2>1 DEF Becomes
  <2>4. run[r].undisturbed => Holds(run[r])'
    BY <1>1, <1>2, <1>5, <2>2, <2>3
    DEF CInv, Holds, Achieved, Seeded, Cleaned, Late, Rotated, Begun
  <2> QED
    BY <1>1, <1>3, <2>1, <2>2, <2>4, RunGoes
<1> QED
  BY <1>4, <1>5 DEF Discard

(* The runner's token is written to ASM.                                   *)
LEMMA PutRunnerKeeps == ASSUME CInv, NEW r \in Runs, PutRunner(r) PROVE CInv'
<1>1. /\ run[r] \in Run /\ run[r].at = "put" /\ settled' = settled
      /\ run \in [Runs -> Run]
      /\ UNCHANGED <<k8s, app, token, minted, oldProject, project, runner, runners, pod>>
  BY DEF CInv, PutRunner, StateTypeOK, ciVars
<1>2. CASE Dies(r) /\ UNCHANGED asm
  <2>1. StateTypeOK'
    BY <1>1, <1>2 DEF CInv, StateTypeOK, SecretTypeOK
  <2> QED
    BY <1>1, <1>2, <2>1, RunDies
<1>3. CASE Go(r, "cleanup") /\ asm' = [f \in Fields |-> run[r].runner]
  <2>1. asm' \in Payload /\ asm'["runner-token"] = run[r].runner
    BY <1>1, <1>3, CiAssumption DEF Payload, Run
  <2>2. StateTypeOK'
    BY <1>1, <2>1 DEF CInv, StateTypeOK, SecretTypeOK
  <2> DEFINE y == [run[r] EXCEPT !.at = "cleanup"]
  <2>3. y = [run[r] EXCEPT !.at = "cleanup"] /\ Becomes(r, y)
    BY <1>3 DEF Go
  <2> HIDE DEF y
  <2>4. /\ y \in Run /\ y.at = "cleanup" /\ y.undisturbed = run[r].undisturbed
        /\ y.payload = run[r].payload /\ y.runner = run[r].runner /\ y.token = run[r].token
    BY <1>1, <2>3, Placed DEF Places
  <2>5. run'[r] = y
    BY <1>1, <2>3 DEF Becomes
  <2>6. run[r].undisturbed => Holds(run[r])'
    BY <1>1, <2>1, <2>4, <2>5
    DEF CInv, Holds, Achieved, Seeded, Cleaned, Late, Rotated, Begun
  <2> QED
    BY <1>1, <2>2, <2>3, <2>4, <2>6, RunGoes
<1> QED
  BY <1>2, <1>3 DEF PutRunner

(* A run exits 0: what it has achieved is there.                           *)
LEMMA CleanupKeeps == ASSUME CInv, NEW r \in Runs, Cleanup(r) PROVE CInv'
<1>1. /\ run[r].at = "cleanup" /\ settled' = run[r].undisturbed
      /\ run \in [Runs -> Run] /\ run[r] \in Run /\ pod \in Pod
      /\ UNCHANGED <<asm, k8s, app, token, minted, oldProject, project, runner, runners>>
      /\ run' = [run EXCEPT ![r] = NoRun]
  BY DEF CInv, Cleanup, StateTypeOK, secretVars, Dies, Becomes
<1>2. /\ pod' \in Pod /\ pod'.payload = pod.payload /\ pod'.token = pod.token
      /\ RemovalsWork => pod'.seeds = FALSE
  BY <1>1 DEF Cleanup, Pod, RemovalsWork
<1>3. StateTypeOK'
  BY <1>1, <1>2 DEF CInv, StateTypeOK, SecretTypeOK, Run
<1>4. /\ run' \in [Runs -> Run] /\ run'[r] = NoRun
      /\ \A q \in Runs \ {r} : run'[q] = run[q]
  BY <1>1, NoRunTyped
<1>5. CASE run[r].undisturbed
  <2>1. \A q \in Runs : run'[q].at = "idle"
    BY <1>4, <1>5, NoRunTyped DEF CInv
  <2>2. \A q \in Runs : run'[q].undisturbed = FALSE
    BY <1>1, <1>4, NoRunTyped, RestIsClean
  <2>3. /\ project.up /\ token # 0 /\ project.var = token
        /\ runner # 0 /\ asm["runner-token"] = runner
        /\ SeedsWork => ~oldProject /\ project.seeded /\ project.protected
        /\ RemovalsWork => pod.payload = "none" /\ pod.token = 0
    BY <1>1, <1>5 DEF CInv, Holds, Achieved, Seeded, Cleaned, Late, Rotated
  <2>4. CleanRunReady' /\ (SeedsWork => CleanRunSeeds') /\ (RemovalsWork => CleanRunLeavesNothing')
    BY <1>1, <1>2, <2>3 DEF CleanRunReady, CleanRunSeeds, CleanRunLeavesNothing
  <2> QED
    BY <1>3, <1>4, <2>1, <2>2, <2>4 DEF CInv, Resting, SeedsWork, RemovalsWork
<1>6. CASE ~run[r].undisturbed
  <2>1. settled' = FALSE
    BY <1>1, <1>6 DEF Run
  <2>2. \A q \in Runs : run'[q].undisturbed = FALSE
    BY <1>1, <1>4, <1>6, NoRunTyped, RestIsClean
  <2> QED
    BY <1>3, <1>4, <2>1, <2>2
    DEF CInv, CleanRunReady, CleanRunSeeds, CleanRunLeavesNothing
<1> QED
  BY <1>5, <1>6

(* A run dies.                                                             *)
LEMMA CrashKeeps == ASSUME CInv, NEW r \in Runs, Crash(r) PROVE CInv'
<1>1. StateTypeOK' /\ settled' = settled
  BY DEF CInv, Crash, StateTypeOK, SecretTypeOK, secretVars, ciVars
<1> QED
  BY <1>1, RunDies DEF Crash

(* A run starts: the others are disturbed, and so is it unless it is alone.*)
LEMMA StartKeeps == ASSUME CInv, NEW r \in Runs, Start(r) PROVE CInv'
<1>1. /\ StateTypeOK' /\ settled' = FALSE /\ run \in [Runs -> Run]
      /\ UNCHANGED <<token, runner, project, oldProject, pod, asm>>
  BY DEF CInv, Start, StateTypeOK, SecretTypeOK, secretVars, ciVars
<1> DEFINE alone == \A p \in Runs : run[p].at = "idle"
           m == [NoRun EXCEPT !.at = "list"]
           y == [m EXCEPT !.undisturbed = alone]
<1>2. /\ m = [NoRun EXCEPT !.at = "list"] /\ y = [m EXCEPT !.undisturbed = alone]
      /\ run' = [q \in Runs |-> IF q = r THEN y ELSE [run[q] EXCEPT !.undisturbed = FALSE]]
  BY DEF Start
<1>3. alone \in BOOLEAN
  OBVIOUS
<1> HIDE DEF m, y
<1>4. m \in Run /\ m.at = "list" /\ m.payload = "destroy" /\ m.runner = 0
  BY <1>2 DEF NoRun, Run, Places, Payloads
<1>5. /\ y \in Run /\ y.at = "list" /\ y.payload = "destroy" /\ y.runner = 0
      /\ y.undisturbed => alone
  <2> HIDE DEF alone
  <2> QED
    BY <1>2, <1>3, <1>4 DEF Run
<1>6. ASSUME NEW q \in Runs \ {r}
      PROVE  run'[q] \in Run /\ run'[q].undisturbed = FALSE /\ run'[q].at = run[q].at
  <2>1. run'[q] = [run[q] EXCEPT !.undisturbed = FALSE] /\ run[q] \in Run
    BY <1>1, <1>2
  <2> QED
    BY <2>1 DEF Run
<1>7. run'[r] = y
  BY <1>2
<1>8. run' \in [Runs -> Run]
  <2>1. \A q \in Runs : run'[q] \in Run
    BY <1>5, <1>6, <1>7
  <2> QED
    BY <1>2, <2>1
<1>9. ASSUME NEW p \in Runs, run'[p].undisturbed
      PROVE  Holds(run[p])' /\ \A q \in Runs \ {p} : run'[q].at = "idle"
  <2>1. p = r /\ y.undisturbed
    BY <1>6, <1>7, <1>9
  <2>2. Holds(run[p])'
    BY <1>5, <1>7, <2>1 DEF Holds, Achieved, Seeded, Cleaned, Late, Rotated, Begun
  <2>3. \A q \in Runs \ {p} : run'[q].at = "idle"
    BY <1>5, <1>6, <2>1
  <2> QED
    BY <2>2, <2>3
<1> QED
  BY <1>1, <1>8, <1>9 DEF CInv, CleanRunReady, CleanRunSeeds, CleanRunLeavesNothing

(* Somebody interferes: no run is undisturbed any more.                    *)
LEMMA DisturbKeeps == ASSUME CInv, Disturb, StateTypeOK' PROVE CInv'
<1>1. settled' = FALSE /\ run \in [Runs -> Run]
  BY DEF CInv, Disturb
<1>2. ASSUME NEW q \in Runs PROVE run'[q] \in Run /\ run'[q].undisturbed = FALSE
  <2>1. run'[q] = [run[q] EXCEPT !.undisturbed = FALSE] /\ run[q] \in Run
    BY <1>1 DEF Disturb
  <2> QED
    BY <2>1 DEF Run
<1>3. run' \in [Runs -> Run]
  BY <1>2 DEF Disturb
<1> QED
  BY <1>1, <1>2, <1>3 DEF CInv, CleanRunReady, CleanRunSeeds, CleanRunLeavesNothing

(* A commit to the project, or a runner removed.                           *)
LEMMA HandsKeep == ASSUME CInv, Commit \/ RemoveRunner PROVE CInv'
<1>1. Disturb
  BY DEF Commit, RemoveRunner
<1>2. CASE Commit
  <2>1. project' \in Project
    BY <1>2 DEF Commit, CInv, StateTypeOK, Project
  <2>2. StateTypeOK'
    BY <1>1, <1>2, <2>1 DEF Commit, Disturb, CInv, StateTypeOK, SecretTypeOK, secretVars
  <2> QED
    BY <1>1, <2>2, DisturbKeeps
<1>3. CASE RemoveRunner
  <2>1. runner' \in 0 .. runners' /\ runners' \in Nat
    BY <1>3 DEF RemoveRunner, CInv, StateTypeOK
  <2>2. /\ UNCHANGED <<asm, k8s, app, token, minted, oldProject, project, pod>>
        /\ settled' = FALSE
    BY <1>1, <1>3 DEF RemoveRunner, Disturb, secretVars
  <2>3. StateTypeOK'
    BY <2>1, <2>2 DEF CInv, StateTypeOK, SecretTypeOK
  <2> QED
    BY <1>1, <2>3, DisturbKeeps
<1> QED
  BY <1>2, <1>3

(* A payload is carried out whose run has died.                            *)
LEMMA OrphanKeeps == ASSUME CInv, TokensMade, Orphan PROVE CInv'
<1>1. PICK env \in orphans :
        \/ Effect(pod.payload, env)
        \/ PodDone /\ UNCHANGED <<oldProject, project, runner, runners>>
  BY DEF Orphan
<1>2. env \in Nat
  BY DEF CInv, StateTypeOK, TokensMade
<1>3. /\ oldProject' \in BOOLEAN /\ project' \in Project
      /\ runner' \in 0 .. runners' /\ runners' \in Nat /\ pod' \in Pod
  <2>1. CASE Effect(pod.payload, env)
    BY <1>2, <2>1, EffectTyped
  <2>2. CASE PodDone /\ UNCHANGED <<oldProject, project, runner, runners>>
    BY <2>2 DEF CInv, StateTypeOK, PodDone, Pod
  <2> QED
    BY <1>1, <2>1, <2>2
<1>4. UNCHANGED <<asm, k8s, app, token, minted>> /\ settled' = FALSE /\ Disturb
  BY DEF Orphan, Disturb, secretVars
<1>5. StateTypeOK'
  BY <1>3, <1>4 DEF CInv, StateTypeOK, SecretTypeOK
<1> QED
  BY <1>4, <1>5, DisturbKeeps

(* ESO and the workload touch nothing of this.                             *)
LEMMA DeliveryKeeps ==
  ASSUME CInv, StateTypeOK', UNCHANGED <<asm, ciVars, run, settled>>
  PROVE  CInv'
BY DEF CInv, ciVars, Resting, CleanRunReady, CleanRunSeeds, CleanRunLeavesNothing,
       Holds, Achieved, Seeded, Cleaned, SeedsWork, RemovalsWork

(* Nothing has been done yet.                                              *)
LEMMA CInvInit == Init => CInv
<1> SUFFICES ASSUME Init PROVE CInv
  OBVIOUS
<1>1. Nothing \in Payload
  BY DEF Nothing, Payload
<1>2. NoProject \in Project
  BY DEF NoProject, Project
<1>3. SecretTypeOK /\ project \in Project /\ oldProject \in BOOLEAN /\ settled \in BOOLEAN
  BY <1>1, <1>2 DEF Init, SecretInit, SecretTypeOK
<1>4. /\ token \in 0 .. minted /\ minted \in Nat
      /\ runner \in 0 .. runners /\ runners \in Nat
  BY DEF Init
<1>5. pod \in Pod
  BY DEF Init, Pod
<1>6. StateTypeOK
  BY <1>3, <1>4, <1>5 DEF StateTypeOK
<1>7. /\ run \in [Runs -> Run] /\ settled = FALSE
      /\ \A r \in Runs : run[r].undisturbed = FALSE
  BY NoRunTyped DEF Init
<1> QED
  BY <1>6, <1>7 DEF CInv, CleanRunReady, CleanRunSeeds, CleanRunLeavesNothing

(* Every step keeps the strengthening.                                     *)
LEMMA CInvStep == CInv /\ TokensMade /\ [Next]_vars => CInv'
<1> SUFFICES ASSUME CInv, TokensMade, [Next]_vars PROVE CInv'
  OBVIOUS
<1>1. ASSUME NEW r \in Runs, Start(r) \/ Step(r) \/ Crash(r) PROVE CInv'
  BY <1>1, StartKeeps, CrashKeeps, ListTokensKeeps, DeleteTokenKeeps, CreateTokenKeeps,
     ClearSeedsKeeps, CopySeedsKeeps, StageKeeps, ExecKeeps, FetchKeeps, DiscardKeeps,
     PutRunnerKeeps, CleanupKeeps
  DEF Step
<1>2. CASE SyncNext
  <2>1. StateTypeOK'
    BY <1>2 DEF CInv, SyncNext, Refresh, StateTypeOK, SecretTypeOK, ciVars
  <2> QED
    BY <1>2, <2>1, DeliveryKeeps DEF SyncNext, Refresh
<1>3. CASE RollNext
  <2>1. StateTypeOK'
    BY <1>3 DEF CInv, RollNext, Restart, StateTypeOK, SecretTypeOK, ciVars
  <2> QED
    BY <1>3, <2>1, DeliveryKeeps DEF RollNext, Restart
<1>4. CASE UNCHANGED vars
  <2>1. StateTypeOK' /\ UNCHANGED <<asm, ciVars, run, settled>>
    BY <1>4 DEF vars, CInv, StateTypeOK, SecretTypeOK, ciVars
  <2> QED
    BY <2>1, DeliveryKeeps
<1> QED
  BY <1>1, <1>2, <1>3, <1>4, HandsKeep, OrphanKeeps DEF Next, RunNext

-----------------------------------------------------------------------------
(* The tokens.                                                             *)

(* What runs carry are tokens that have been made, and one that is about   *)
(* to write ASM has read one.                                              *)
InHand ==
    \A r \in Runs :
       /\ run[r].token \in 0 .. minted /\ run[r].runner \in 0 .. runners
       /\ run[r].at = "put" => run[r].runner # 0

(* The rest of TokensMade: what is kept, and what a payload will be given. *)
Kept ==
    /\ project.var \in 0 .. minted /\ orphans \subseteq 0 .. minted
    /\ pod.token \in 0 .. runners
    /\ \A f \in Fields : asm[f] \in 0 .. runners

(* The two together.                                                       *)
LEMMA TokensAllMade == CInv /\ InHand /\ Kept => TokensMade
BY DEF CInv, StateTypeOK, InHand, Kept, TokensMade

(* A payload makes at most one runner, and leaves a token that was there.  *)
LEMMA EffectMakes ==
  ASSUME CInv, Kept, NEW payload, NEW env \in 0 .. minted, Effect(payload, env)
  PROVE  /\ runners' \in Nat /\ 0 .. runners \subseteq 0 .. runners'
         /\ project'.var \in 0 .. minted /\ pod'.token \in 0 .. runners'
<1>1. /\ project \in Project /\ pod \in Pod /\ minted \in Nat
      /\ runner \in 0 .. runners /\ runners \in Nat
      /\ project.var \in 0 .. minted /\ pod.token \in 0 .. runners
  BY DEF CInv, StateTypeOK, Kept
<1>2. CASE DestroyOld
  BY <1>1, <1>2 DEF DestroyOld, PodDone, Pod
<1>3. CASE EnsureProject
  BY <1>1, <1>3 DEF EnsureProject, NoProject, Project, PodDone, Pod
<1>4. CASE SetVariable(env)
  BY <1>1, <1>4 DEF SetVariable, Project, PodDone, Pod
<1>5. CASE SeedProtect
  BY <1>1, <1>5 DEF SeedProtect, Project, PodDone, Pod
<1>6. CASE FindRunner
  <2>1. /\ runners' \in Nat /\ 0 .. runners \subseteq 0 .. runners'
        /\ runner' \in 0 .. runners' /\ project' = project
        /\ pod' = [pod EXCEPT !.payload = "none", !.token = runner']
    BY <1>1, <1>6 DEF FindRunner
  <2>2. pod'.token = runner'
    BY <1>1, <2>1 DEF Pod
  <2> QED
    BY <1>1, <2>1, <2>2
<1> QED
  BY <1>2, <1>3, <1>4, <1>5, <1>6 DEF Effect

(* What a run hands to its payload is a token that was made, or none.      *)
LEMMA EnvMade ==
  ASSUME CInv, InHand, NEW r \in Runs PROVE Env(r) \in 0 .. minted
BY DEF CInv, StateTypeOK, InHand, Env

(* Tokens and runners are only ever added.                                 *)
LEMMA NumbersGrow ==
  ASSUME CInv, InHand, Kept, [Next]_vars
  PROVE  /\ minted' \in Nat /\ 0 .. minted \subseteq 0 .. minted'
         /\ runners' \in Nat /\ 0 .. runners \subseteq 0 .. runners'
<1>1. minted \in Nat /\ runners \in Nat
  BY DEF CInv, StateTypeOK
<1>2. ASSUME NEW r \in Runs, CreateToken(r)
      PROVE  minted' \in {minted, minted + 1} /\ runners' = runners
  BY <1>2 DEF CreateToken
<1>3. ASSUME NEW r \in Runs, Exec(r)
      PROVE  /\ minted' = minted
             /\ runners' \in Nat /\ 0 .. runners \subseteq 0 .. runners'
  <2>1. Effect(pod.payload, Env(r)) \/ runners' = runners
    BY <1>3 DEF Exec
  <2> QED
    BY <1>1, <1>3, <2>1, EnvMade, EffectMakes DEF Exec
<1>4. CASE Orphan
  <2>1. PICK env \in orphans : Effect(pod.payload, env) \/ runners' = runners
    BY <1>4 DEF Orphan
  <2>2. env \in 0 .. minted
    BY DEF Kept
  <2> QED
    BY <1>1, <1>4, <2>1, <2>2, EffectMakes DEF Orphan
<1>5. ASSUME NEW r \in Runs,
             Start(r) \/ Crash(r) \/ (Step(r) /\ ~CreateToken(r) /\ ~Exec(r))
      PROVE  minted' = minted /\ runners' = runners
  BY <1>5 DEF Start, Crash, Step, ListTokens, DeleteToken, ClearSeeds, CopySeeds, Stage,
    Fetch, Discard, PutRunner, Cleanup, ciVars
<1>6. CASE Commit \/ RemoveRunner
  BY <1>1, <1>6 DEF Commit, RemoveRunner
<1>7. CASE SyncNext \/ RollNext \/ UNCHANGED vars
  BY <1>1, <1>7 DEF SyncNext, RollNext, vars, ciVars
<1> QED
  BY <1>1, <1>2, <1>3, <1>4, <1>5, <1>6, <1>7 DEF Next, RunNext

(* A run changes its tokens when it makes one and when it reads the file;  *)
(* only Discard leads to the write, and it gives up without a token.       *)
LEMMA InHandKeeps ==
  ASSUME CInv, InHand, Kept, [Next]_vars
  PROVE  InHand'
<1> USE DEF InHand
<1>1. run \in [Runs -> Run] /\ minted \in Nat /\ runners \in Nat
  BY DEF CInv, StateTypeOK
<1>0. /\ minted' \in Nat /\ 0 .. minted \subseteq 0 .. minted'
      /\ runners' \in Nat /\ 0 .. runners \subseteq 0 .. runners'
  BY NumbersGrow
<1>2. ASSUME NEW r \in Runs, NEW y, Becomes(r, y), y.at # "put" \/ y.runner # 0,
             y.token \in 0 .. minted', y.runner \in 0 .. runners'
      PROVE  InHand'
  BY <1>0, <1>1, <1>2 DEF Becomes
<1>3. ASSUME NEW r \in Runs, NEW to \in Places \ {"put"}, Go(r, to) PROVE InHand'
  <2> DEFINE y == [run[r] EXCEPT !.at = to]
  <2>1. /\ y.at = to /\ Becomes(r, y)
        /\ y.token = run[r].token /\ y.runner = run[r].runner
    BY <1>1, <1>3 DEF Go, Run
  <2> HIDE DEF y
  <2> QED
    BY <1>0, <1>2, <2>1
<1>4. ASSUME NEW r \in Runs, Dies(r) PROVE InHand'
  <2>1. NoRun.at = "idle" /\ NoRun.token = 0 /\ NoRun.runner = 0
    BY DEF NoRun
  <2> QED
    BY <1>0, <1>2, <1>4, <2>1 DEF Dies
<1>5. ASSUME NEW r \in Runs, Start(r) PROVE InHand'
  <2> DEFINE own == \A p \in Runs : run[p].at = "idle"
             y == [NoRun EXCEPT !.at = "list", !.undisturbed = own]
  <2>1. y.at = "list" /\ y.token = 0 /\ y.runner = 0
    BY DEF NoRun
  <2>2. run'[r] = y
    BY <1>5 DEF Start
  <2>3. ASSUME NEW q \in Runs \ {r}
        PROVE  /\ run'[q].at = run[q].at /\ run'[q].runner = run[q].runner
               /\ run'[q].token = run[q].token
    <3>1. run[q] \in Run /\ run'[q] = [run[q] EXCEPT !.undisturbed = FALSE]
      BY <1>1, <1>5 DEF Start
    <3> QED
      BY <3>1 DEF Run
  <2> HIDE DEF y
  <2> QED
    BY <1>0, <2>1, <2>2, <2>3
<1>6. ASSUME NEW r \in Runs, ListTokens(r) PROVE InHand'
  <2> DEFINE y == [run[r] EXCEPT !.at = "delete", !.found = token]
  <2>1. y.at = "delete" /\ y.token = run[r].token /\ y.runner = run[r].runner
    BY <1>1 DEF Run
  <2>2. Becomes(r, y) \/ Go(r, "create")
    BY <1>6 DEF ListTokens
  <2> HIDE DEF y
  <2> QED
    BY <1>0, <1>2, <1>3, <2>1, <2>2 DEF Places
<1>7. ASSUME NEW r \in Runs, CreateToken(r) PROVE InHand'
  <2> DEFINE y == [run[r] EXCEPT !.at = "clear", !.token = minted + 1]
  <2>1. y.at = "clear" /\ y.token = minted + 1 /\ y.runner = run[r].runner
    BY <1>1 DEF Run
  <2>2. (Becomes(r, y) /\ minted' = minted + 1) \/ Dies(r)
    BY <1>7 DEF CreateToken
  <2> HIDE DEF y
  <2> QED
    BY <1>0, <1>1, <1>2, <1>4, <2>1, <2>2
<1>8. ASSUME NEW r \in Runs,
             DeleteToken(r) \/ ClearSeeds(r) \/ CopySeeds(r) \/ Stage(r) \/ PutRunner(r)
               \/ Cleanup(r) \/ Crash(r)
      PROVE  InHand'
  BY <1>3, <1>4, <1>8
  DEF DeleteToken, ClearSeeds, CopySeeds, Stage, PutRunner, Cleanup, Crash, Places
<1>9. ASSUME NEW r \in Runs, Exec(r) PROVE InHand'
  <2> DEFINE next == After[run[r].payload]
             fetching == [run[r] EXCEPT !.at = "fetch"]
             staging == [run[r] EXCEPT !.at = "stage", !.payload = next]
  <2>1. /\ fetching.at = "fetch" /\ staging.at = "stage"
        /\ fetching.token = run[r].token /\ fetching.runner = run[r].runner
        /\ staging.token = run[r].token /\ staging.runner = run[r].runner
    BY <1>1 DEF Run
  <2>2. Becomes(r, fetching) \/ Becomes(r, staging) \/ Dies(r)
    BY <1>9 DEF Exec
  <2> HIDE DEF fetching, staging
  <2> QED
    BY <1>0, <1>2, <1>4, <2>1, <2>2
<1>10. ASSUME NEW r \in Runs, Fetch(r) PROVE InHand'
  <2> DEFINE y == [run[r] EXCEPT !.at = "discard", !.runner = pod.token]
  <2>1. y.at = "discard" /\ y.token = run[r].token /\ y.runner = pod.token
    BY <1>1 DEF Run
  <2>2. Becomes(r, y) \/ Go(r, "discard")
    BY <1>10 DEF Fetch
  <2> HIDE DEF y
  <2> QED
    BY <1>0, <1>2, <1>3, <2>1, <2>2 DEF Places, Kept
<1>11. ASSUME NEW r \in Runs, Discard(r) PROVE InHand'
  <2> DEFINE y == [run[r] EXCEPT !.at = "put"]
  <2>1. y.runner = run[r].runner /\ y.token = run[r].token
    BY <1>1 DEF Run
  <2>2. Dies(r) \/ (run[r].runner # 0 /\ Becomes(r, y))
    BY <1>11 DEF Discard, Go
  <2> HIDE DEF y
  <2> QED
    BY <1>0, <1>2, <1>4, <2>1, <2>2
<1>12. CASE Commit \/ RemoveRunner \/ Orphan
  <2>1. ASSUME NEW q \in Runs
        PROVE  /\ run'[q].at = run[q].at /\ run'[q].runner = run[q].runner
               /\ run'[q].token = run[q].token
    <3>1. run[q] \in Run /\ run'[q] = [run[q] EXCEPT !.undisturbed = FALSE]
      BY <1>1, <1>12 DEF Commit, RemoveRunner, Orphan, Disturb
    <3> QED
      BY <3>1 DEF Run
  <2> QED
    BY <1>0, <2>1
<1>13. CASE SyncNext \/ RollNext \/ UNCHANGED vars
  BY <1>0, <1>13 DEF SyncNext, RollNext, vars
<1> QED
  BY <1>5, <1>6, <1>7, <1>8, <1>9, <1>10, <1>11, <1>12, <1>13 DEF Next, RunNext, Step

(* A token is kept when it was carried, found or made.                     *)
LEMMA KeptKeeps ==
  ASSUME CInv, InHand, Kept, [Next]_vars
  PROVE  Kept'
<1> USE DEF Kept
<1>1. /\ minted' \in Nat /\ 0 .. minted \subseteq 0 .. minted'
      /\ runners' \in Nat /\ 0 .. runners \subseteq 0 .. runners'
  BY NumbersGrow
<1>2. project \in Project /\ pod \in Pod
  BY DEF CInv, StateTypeOK
<1>3. ASSUME project'.var \in 0 .. minted, pod'.token \in 0 .. runners',
             UNCHANGED <<asm, orphans>>
      PROVE  Kept'
  BY <1>1, <1>3
<1>4. ASSUME NEW r \in Runs, Exec(r) PROVE Kept'
  <2>1. CASE Effect(pod.payload, Env(r))
    BY <1>3, <1>4, <2>1, EnvMade, EffectMakes DEF Exec, secretVars
  <2>2. CASE PodDone /\ project' = project
    BY <1>1, <1>2, <1>3, <1>4, <2>2 DEF Exec, secretVars, PodDone, Pod
  <2> QED
    BY <1>4, <2>1, <2>2 DEF Exec
<1>5. CASE Orphan
  <2>1. PICK env \in orphans :
          Effect(pod.payload, env) \/ (PodDone /\ project' = project)
    BY <1>5 DEF Orphan
  <2>2. orphans' = {} /\ asm' = asm
    BY <1>5 DEF Orphan, secretVars
  <2>3. CASE Effect(pod.payload, env)
    BY <1>1, <2>2, <2>3, EffectMakes
  <2>4. CASE PodDone /\ project' = project
    BY <1>1, <1>2, <2>2, <2>4 DEF PodDone, Pod
  <2> QED
    BY <2>1, <2>3, <2>4
<1>6. ASSUME NEW r \in Runs, Crash(r) PROVE Kept'
  <2>1. orphans' \in {orphans, {Env(r)}} /\ UNCHANGED <<asm, project, pod>>
    BY <1>6 DEF Crash, secretVars
  <2> QED
    BY <1>1, <2>1, EnvMade
<1>7. ASSUME NEW r \in Runs, PutRunner(r) PROVE Kept'
  <2>1. UNCHANGED <<project, pod, orphans>>
        /\ (asm' = asm \/ asm' = [f \in Fields |-> run[r].runner])
    BY <1>7 DEF PutRunner, ciVars
  <2> QED
    BY <1>1, <2>1 DEF InHand
<1>8. ASSUME NEW r \in Runs, ClearSeeds(r) \/ CopySeeds(r) \/ Stage(r) \/ Discard(r) \/ Cleanup(r)
      PROVE  Kept'
  <2>1. UNCHANGED <<asm, project, orphans>>
    BY <1>8 DEF ClearSeeds, CopySeeds, Stage, Discard, Cleanup, secretVars
  <2>2. pod'.token \in {pod.token, 0}
    BY <1>2, <1>8 DEF ClearSeeds, CopySeeds, Stage, Discard, Cleanup, Pod, Run
  <2> QED
    BY <1>1, <2>1, <2>2
<1>9. ASSUME NEW r \in Runs,
             Start(r) \/ ListTokens(r) \/ DeleteToken(r) \/ CreateToken(r) \/ Fetch(r)
      PROVE  Kept'
  BY <1>1, <1>9 DEF Start, ListTokens, DeleteToken, CreateToken, Fetch, secretVars, ciVars
<1>10. CASE Commit
  <2>1. project'.var = project.var
    BY <1>2, <1>10 DEF Commit, Project
  <2> QED
    BY <1>1, <1>10, <2>1 DEF Commit, secretVars
<1>11. CASE RemoveRunner \/ SyncNext \/ RollNext \/ UNCHANGED vars
  BY <1>1, <1>11 DEF RemoveRunner, SyncNext, RollNext, Refresh, Restart, vars, ciVars, secretVars
<1> QED
  BY <1>4, <1>5, <1>6, <1>7, <1>8, <1>9, <1>10, <1>11 DEF Next, RunNext, Step

-----------------------------------------------------------------------------
(* The strengthening is an invariant.                                      *)
THEOREM CiInvariant == Spec => [](CInv /\ InHand /\ Kept)
<1>1. Init => InHand /\ Kept
  BY CiAssumption DEF Init, SecretInit, Nothing, NoProject, NoRun, InHand, Kept
<1>2. CInv /\ InHand /\ Kept /\ [Next]_vars => CInv'
  BY CInvStep, TokensAllMade
<1>3. CInv /\ InHand /\ Kept /\ [Next]_vars => InHand'
  BY InHandKeeps
<1>4. CInv /\ InHand /\ Kept /\ [Next]_vars => Kept'
  BY KeptKeeps
<1> QED
  BY <1>1, <1>2, <1>3, <1>4, CInvInit, PTL DEF Spec

(* The type invariant of the CI set-up: what overlapping, dying and failed *)
(* runs keep and carry as tokens are tokens that were made.                *)
THEOREM TypeCorrect == Spec => []TypeOK
<1>1. CInv /\ InHand /\ Kept => TypeOK
  BY TokensAllMade DEF CInv, StateTypeOK, TypeOK, Pod
<1> QED
  BY <1>1, CiInvariant, PTL

(* A run that nothing disturbed and that exits 0 leaves a CI variable that *)
(* Coder accepts and the group runner's token in ASM, for any number of    *)
(* other runs before it, whatever failed and whatever they left behind.    *)
THEOREM CleanRunReadyAlways == Spec => []CleanRunReady
<1>1. CInv => CleanRunReady
  BY DEF CInv
<1> QED
  BY <1>1, CiInvariant, PTL

(* If the failures that the payloads swallow do not happen, such a run has *)
(* removed the old project and seeded and protected the new one.           *)
THEOREM CleanRunSeedsAlways ==
  ASSUME Faults \cap {"destroy", "seed", "protect"} = {}
  PROVE  Spec => []CleanRunSeeds
<1>1. CInv => CleanRunSeeds
  BY DEF CInv, SeedsWork
<1> QED
  BY <1>1, CiInvariant, PTL

(* If files can be removed, such a run leaves no token, payload or seed in *)
(* the pod, not even those of a run that died or overlapped before it.     *)
THEOREM CleanRunLeavesNothingAlways ==
  ASSUME "rm" \notin Faults
  PROVE  Spec => []CleanRunLeavesNothing
<1>1. CInv => CleanRunLeavesNothing
  BY DEF CInv, RemovalsWork
<1> QED
  BY <1>1, CiInvariant, PTL

-----------------------------------------------------------------------------
(* The CI set-up as one more writer of a secret: SecretPublishing, with    *)
(* the runner's token as the only field and required.                      *)
Delivery == INSTANCE SecretPublishing WITH
    Required <- {"runner-token"}, source <- asm, copy <- k8s, loaded <- app

(* Every step publishes a token, copies what was published, loads the      *)
(* copy, or leaves all three alone.                                        *)
LEMMA StepDelivers ==
  CInv /\ InHand /\ [Next]_vars
    => [Delivery!Publish \/ Delivery!Sync \/ Delivery!Load]_<<asm, k8s, app>>
<1> SUFFICES ASSUME CInv, InHand, [Next]_vars
             PROVE  \/ Delivery!Publish \/ Delivery!Sync \/ Delivery!Load
                    \/ UNCHANGED <<asm, k8s, app>>
  OBVIOUS
<1>1. ASSUME NEW r \in Runs, PutRunner(r)
      PROVE  Delivery!Publish \/ UNCHANGED <<asm, k8s, app>>
  <2>1. run[r].runner \in Nat /\ run[r].runner # 0
    BY <1>1 DEF CInv, Run, PutRunner, InHand
  <2>2. CASE asm' = [f \in Fields |-> run[r].runner]
    BY <1>1, <2>1, <2>2, CiAssumption DEF PutRunner, Delivery!Publish, Delivery!Whole
  <2> QED
    BY <1>1, <2>2 DEF PutRunner
<1>2. ASSUME NEW r \in Runs, Start(r) \/ Crash(r) \/ (Step(r) /\ ~PutRunner(r))
      PROVE  UNCHANGED <<asm, k8s, app>>
  BY <1>2 DEF Start, Crash, Step, ListTokens, DeleteToken, CreateToken, ClearSeeds,
    CopySeeds, Stage, Exec, Fetch, Discard, Cleanup, secretVars
<1>3. CASE Commit \/ RemoveRunner \/ Orphan
  BY <1>3 DEF Commit, RemoveRunner, Orphan, secretVars
<1>4. CASE SyncNext
  BY <1>4 DEF SyncNext, Refresh, AsmExists, Nothing, Delivery!Sync, Delivery!Absent
<1>5. CASE RollNext
  BY <1>5 DEF RollNext, Restart, Nothing, Delivery!Load, Delivery!Absent
<1>6. CASE UNCHANGED vars
  BY <1>6 DEF vars
<1> QED
  BY <1>1, <1>2, <1>3, <1>4, <1>5, <1>6 DEF Next, RunNext

(* However many runs overlap, pick up each other's files and die: ASM only *)
(* ever gets a runner token, never the empty result of a failed read, the  *)
(* Secret of the cluster is a copy of it, and the runner loads the copy.   *)
THEOREM RunnerTokenPublishedWhole == Spec => Delivery!Spec
<1>1. Init => Delivery!Init
  BY DEF Init, SecretInit, Nothing, Delivery!Init, Delivery!Absent
<1>2. CInv /\ InHand /\ [Next]_vars
        => [Delivery!Publish \/ Delivery!Sync \/ Delivery!Load]_<<asm, k8s, app>>
  BY StepDelivers
<1> QED
  BY <1>1, <1>2, CiInvariant, PTL DEF Spec, Delivery!Spec
=============================================================================
