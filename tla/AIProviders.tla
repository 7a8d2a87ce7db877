----------------------------- MODULE AIProviders -----------------------------
(***************************************************************************)
(* scripts/reconcile-ai-providers.py: the declarative reconcile of Coder's *)
(* AI Gateway providers and chat model presets.                            *)
(*                                                                         *)
(* One run loads the file, lists the live providers, lists the live model  *)
(* presets, plans from those two snapshots and then sends one mutation at  *)
(* a time, every provider before any preset.  Between any two of its       *)
(* requests an administrator may edit the same database in the dashboard,  *)
(* a request may be refused, its answer may be lost, or the run may die.   *)
(*                                                                         *)
(* Abstractions.  conf stands for base_url and display_name (compared for  *)
(* every provider), settings for the Bedrock settings block (compared only *)
(* for type bedrock).                                                      *)
(* A model name stands for its stripped, lower-cased form.  The order of   *)
(* the plan inside "providers" and inside "models" is that of the file,    *)
(* which is arbitrary: the model takes the items in any order.             *)
(***************************************************************************)
EXTENDS Naturals, FiniteSets

CONSTANTS
    Providers,      \* provider names
    Models,         \* model identifiers
    Confs,          \* values of the compared fields of a provider
    PresetFields,   \* the compared fields of a preset
    LimitField,     \* the one of them a POST cannot do without: context_limit
    Specs,          \* values of the compared fields of a preset
    NotGiven,       \* the entry does not declare the field
    Keys,           \* provider API keys
    NoKey,          \* the environment variable key_from_env names is unset
    Masks,          \* renderings of a key that do not show it
    Mask,           \* the rendering the script and the server compute of a key
    PresetIds,      \* ids the server can give presets: bounds the creations
    Files,          \* the files (with their environment) an operator may write
    LiveInits,      \* provider tables a first run may find
    PresetInits,    \* preset tables a first run may find
    ListMayFail,    \* whether GET /chats/model-configs may fail
    MaxEdits        \* bound on edits by hand (dashboard or file)

(* How a declared provider authenticates (type and auth of its entry):     *)
(* "irsa" is auth: irsa on a type other than bedrock, "unkeyed" an entry    *)
(* with neither IRSA nor key_from_env.                                     *)
Kinds == {"bedrock", "irsa", "keyed", "unkeyed"}
LiveTypes == {"bedrock", "other"}

(* An entry of the file; models says which presets it declares.  enabled,  *)
(* is_default and display_name of a preset have defaults and are always    *)
(* given, context_limit and model_config only when the entry has them.     *)
DesiredPreset == [declared : BOOLEAN,
                  spec : [PresetFields -> Specs \cup {NotGiven}]]
DesiredProvider == [declared : BOOLEAN, kind : Kinds, enabled : BOOLEAN,
                    conf : Confs, settings : Confs, key : Keys \cup {NoKey},
                    models : [Models -> DesiredPreset]]
DesiredFile == [Providers -> DesiredProvider]

(* A row of the live provider table.  <<p, gen>> is the row's id: a        *)
(* provider deleted and created again has the same name and another id.    *)
LiveProvider == [up : BOOLEAN, gen : Nat, type : LiveTypes, enabled : BOOLEAN,
                 conf : Confs, settings : Confs, keys : SUBSET Keys]

(* A row of the preset table, tied to provider id <<prov, gen>>; "gone"    *)
(* marks an id the server has used and never gives again.                  *)
LivePreset == [st : {"free", "up", "gone"}, prov : Providers, gen : Nat,
               model : Models, spec : [PresetFields -> Specs]]

ASSUME ConstantsOK ==
    /\ Mask \in [Keys -> Masks]
    /\ NoKey \notin Keys
    /\ Files \subseteq DesiredFile
    /\ LiveInits \subseteq [Providers -> LiveProvider]
    /\ PresetInits \subseteq [PresetIds -> LivePreset]
    /\ ListMayFail \in BOOLEAN
    /\ MaxEdits \in Nat
    /\ LimitField \in PresetFields
    /\ NotGiven \notin Specs
    /\ Providers # {} /\ Models # {} /\ Confs # {} /\ Specs # {} /\ Files # {}

VARIABLES
    file,       \* deploy/coder/ai-providers.yaml and the key environment
    live,       \* the server's provider table
    presets,    \* the server's preset table
    pc,         \* where the run is; "idle" when none runs
    opts,       \* the run's --apply and --rotate-keys
    desired,    \* the file as the run loaded it
    snapP,      \* the provider table as the run listed it
    snapM,      \* the preset table as the run listed it
    todoP,      \* declared providers not yet applied
    todoM,      \* declared presets of enabled providers not yet applied
    cur,        \* do_create_model: the preset being created ...
    pid,        \* ... and the provider generation its GET returned
    failed,     \* whether some mutation of the run failed
    exit,       \* how the last run ended: "0", "1", "abort"
    edits,      \* edits by hand so far
    calm        \* history: "edited" by hand since the run started, "quiet",
                \* "settled": a run exited 0 and nobody edited since, or
                \* "rotated": so did one with --rotate-keys

vars == <<file, live, presets, pc, opts, desired, snapP, snapM,
          todoP, todoM, cur, pid, failed, exit, edits, calm>>

server == <<live, presets>>
run == <<pc, opts, desired, snapP, snapM, todoP, todoM, cur, pid,
         failed, exit>>
loaded == <<opts, desired, snapP, snapM>>
hand == <<file, edits>>

NoItems == todoP = {} /\ todoM = {}

Declared(d) == {p \in Providers : d[p].declared}

(* The presets a run works on: BLOCKED ones (provider disabled in the      *)
(* file) are planned and skipped.                                          *)
Wanted(d) == {k \in Providers \X Models :
                 /\ d[k[1]].declared /\ d[k[1]].enabled
                 /\ d[k[1]].models[k[2]].declared}

-----------------------------------------------------------------------------
(* The plan: what the run decided from its snapshots.                      *)

MasksOf(keys) == {Mask[k] : k \in keys}

(* Mutation: an unset environment variable counts as a key to set.         *)
SetUnsetKey(d, row, rotate) ==
    /\ d.kind = "keyed"
    /\ rotate \/ d.key = NoKey \/ Mask[d.key] \notin MasksOf(row.keys)

(* Mutation: a rendering that matches wins over --rotate-keys.             *)
SetUnlikeKey(d, row, rotate) ==
    /\ d.kind = "keyed" /\ d.key # NoKey
    /\ Mask[d.key] \notin MasksOf(row.keys)

(* key_status = "set"; "n/a", "missing" and "noop" all send no key.        *)
SetKey(d, row, rotate) ==
    /\ d.kind = "keyed" /\ d.key # NoKey
    /\ rotate \/ Mask[d.key] \notin MasksOf(row.keys)

Drift(d, row) ==
    \/ row.enabled # d.enabled
    \/ row.conf # d.conf
    \/ d.kind = "bedrock" /\ row.settings # d.settings

ProviderAction(p) ==
    IF ~snapP[p].up THEN "CREATE"
    ELSE IF \/ Drift(desired[p], snapP[p])
            \/ SetKey(desired[p], snapP[p], opts.rotate)
         THEN "UPDATE" ELSE "NOOP"

(* Mutation: ids of different types, which never compare equal.            *)
MatchingNothing(p, m) == {}

(* model_matches over the listed presets, for a provider that was listed.  *)
Matching(p, m) ==
    {i \in PresetIds : /\ snapP[p].up
                       /\ snapM[i].st = "up" /\ snapM[i].prov = p
                       /\ snapM[i].gen = snapP[p].gen /\ snapM[i].model = m}

(* The fields of a preset for which the listing has what the entry gives.  *)
InStep(want, spec) == \A f \in PresetFields : want[f] \in {NotGiven, spec[f]}

-----------------------------------------------------------------------------
(* What a mutation does to the tables when the server applies it.          *)

(* Mutation: the key is forgotten in the POST.                             *)
CreatedKeyless(p) ==
    LET d == desired[p] IN
    [up |-> TRUE, gen |-> live[p].gen + 1,
     type |-> IF d.kind = "bedrock" THEN "bedrock" ELSE "other",
     enabled |-> d.enabled, conf |-> d.conf, settings |-> d.settings, keys |-> {}]

Created(p) ==
    LET d == desired[p] IN
    [up |-> TRUE, gen |-> live[p].gen + 1,
     type |-> IF d.kind = "bedrock" THEN "bedrock" ELSE "other",
     enabled |-> d.enabled, conf |-> d.conf,
     settings |-> IF d.kind \in {"bedrock", "irsa"} THEN d.settings
                  ELSE live[p].settings,
     keys |-> IF d.kind = "keyed" THEN {d.key} ELSE {}]

(* PATCH carries only the fields that differed in the snapshot.            *)
Patched(p) ==
    LET d == desired[p]
        s == snapP[p]
        r == live[p]
    IN [up |-> r.up, gen |-> r.gen, type |-> r.type,
        enabled |-> IF s.enabled # d.enabled THEN d.enabled ELSE r.enabled,
        conf |-> IF s.conf # d.conf THEN d.conf ELSE r.conf,
        settings |-> IF d.kind = "bedrock" /\ s.settings # d.settings
                     THEN d.settings ELSE r.settings,
        keys |-> IF SetKey(d, s, opts.rotate) THEN {d.key} ELSE r.keys]

(* Mutation: the PATCH carries the preset as it was listed, changed.       *)
WholeSpec(want, listed, row) ==
    [f \in PresetFields |-> IF want[f] = NotGiven THEN listed[f] ELSE want[f]]

(* The same for a preset; context_limit and model_config only if given.    *)
PatchedSpec(want, listed, row) ==
    [f \in PresetFields |->
        IF want[f] \in {NotGiven, listed[f]} THEN row[f] ELSE want[f]]

(* A POST leaves what the entry does not give to the server's defaults.    *)
CreatedPreset(k, gen, dflt) ==
    LET want == desired[k[1]].models[k[2]].spec IN
    [st |-> "up", prov |-> k[1], gen |-> gen, model |-> k[2],
     spec |-> [f \in PresetFields |->
                  IF want[f] = NotGiven THEN dflt[f] ELSE want[f]]]

-----------------------------------------------------------------------------
(* The values the process's locals have while no process runs.             *)
NoOpts == [apply |-> FALSE, rotate |-> FALSE]
NoFile == CHOOSE f \in Files : TRUE
NoConf == CHOOSE c \in Confs : TRUE
NoSnapP == [p \in Providers |->
    [up |-> FALSE, gen |-> 0, type |-> "other", enabled |-> FALSE,
     conf |-> NoConf, settings |-> NoConf, keys |-> {}]]
NoSnapM == [i \in PresetIds |->
    [st |-> "free", prov |-> CHOOSE p \in Providers : TRUE, gen |-> 0,
     model |-> CHOOSE m \in Models : TRUE,
     spec |-> [f \in PresetFields |-> CHOOSE s \in Specs : TRUE]]]
NoItem == CHOOSE k \in Providers \X Models : TRUE

Init ==
    /\ file \in Files
    /\ live \in LiveInits
    /\ presets \in PresetInits
    /\ \A i \in PresetIds : presets[i].gen <= live[presets[i].prov].gen
    /\ pc = "idle"
    /\ opts = NoOpts
    /\ desired = NoFile
    /\ snapP = NoSnapP
    /\ snapM = NoSnapM
    /\ todoP = {} /\ todoM = {}
    /\ cur = NoItem
    /\ pid = 0
    /\ failed = FALSE
    /\ exit = "none"
    /\ edits = 0
    /\ calm = "edited"

(* The process ends, and its locals with it: by sys.exit, by an uncaught   *)
(* exception, or killed.                                                   *)
Ends(code) ==
    /\ pc' = "idle"
    /\ exit' = code
    /\ opts' = NoOpts /\ desired' = NoFile
    /\ snapP' = NoSnapP /\ snapM' = NoSnapM
    /\ todoP' = {} /\ todoM' = {}
    /\ cur' = NoItem /\ pid' = 0 /\ failed' = FALSE

Settled == {"settled", "rotated"}

(* main: load_desired and login.                                           *)
Start(apply, rotate) ==
    /\ pc = "idle"
    /\ pc' = "listProviders"
    /\ opts' = [apply |-> apply, rotate |-> rotate]
    /\ desired' = file
    /\ todoP' = Declared(file)
    /\ todoM' = Wanted(file)
    /\ failed' = FALSE
    /\ exit' = "none"
    /\ calm' = IF calm \in Settled THEN calm ELSE "quiet"
    /\ UNCHANGED <<server, hand, snapP, snapM, cur, pid>>

(* GET /ai/providers: any code but 200 ends the run.                       *)
ListProviders ==
    /\ pc = "listProviders"
    /\ \/ /\ snapP' = live
          /\ pc' = "listModels"
          /\ UNCHANGED <<opts, desired, snapM, todoP, todoM, cur, pid,
                         failed, exit>>
       \/ Ends("abort")
    /\ UNCHANGED <<server, hand, calm>>

(* Mutation: a dry run goes on to apply its plan.                          *)
ListModelsApplies ==
    /\ pc = "listModels"
    /\ snapM' = presets
    /\ pc' = "apply"
    /\ UNCHANGED <<server, hand, calm, opts, desired, snapP, todoP, todoM, cur,
                   pid, failed, exit>>

(* GET /chats/model-configs: any code but 200 counts as an empty list.     *)
(* The plan follows; without --apply (DryRun) it is printed and the run    *)
(* ends.                                                                   *)
ListModels ==
    /\ pc = "listModels"
    /\ \/ snapM' = presets
       \/ /\ ListMayFail
          /\ snapM' = NoSnapM
    /\ opts.apply
    /\ pc' = "apply"
    /\ UNCHANGED <<server, hand, calm, opts, desired, snapP, todoP, todoM, cur,
                   pid, failed, exit>>

DryRun ==
    /\ pc = "listModels" /\ ~opts.apply
    /\ Ends("dry")
    /\ UNCHANGED <<server, hand, calm>>

(* Mutation: the last mutation decides the exit status.                    *)
LastAnswered(ack) ==
    /\ failed' = ~ack
    /\ UNCHANGED <<loaded, exit, hand, calm>>

(* The answer to a mutation: ack is the success code the script expects.   *)
Answered(ack) ==
    /\ failed' = (failed \/ ~ack)
    /\ UNCHANGED <<loaded, exit, hand, calm>>

(* Mutation: an item stays in the plan.                                    *)
RetakeProvider(p) ==
    /\ pc = "apply" /\ p \in todoP
    /\ UNCHANGED <<pc, todoP, todoM, cur, pid>>

TakeProvider(p) ==
    /\ pc = "apply" /\ p \in todoP
    /\ todoP' = todoP \ {p}
    /\ UNCHANGED <<pc, todoM, cur, pid>>

SkipProvider(p) ==
    /\ ProviderAction(p) = "NOOP"
    /\ TakeProvider(p)
    /\ Answered(TRUE)
    /\ UNCHANGED server

(* do_create_provider: refused locally without the key; an entry with no   *)
(* key_from_env at all makes env_value(None) raise, which ends the run;    *)
(* the server refuses a name it already has.                               *)
CreateProvider(p) ==
    /\ ProviderAction(p) = "CREATE"
    /\ \/ /\ desired[p].kind = "keyed" /\ desired[p].key = NoKey
          /\ TakeProvider(p)
          /\ Answered(FALSE)
          /\ UNCHANGED server
       \/ /\ desired[p].kind = "unkeyed"
          /\ pc = "apply" /\ p \in todoP
          /\ Ends("abort")
          /\ UNCHANGED <<server, hand, calm>>
       \/ /\ desired[p].kind = "keyed" => desired[p].key # NoKey
          /\ desired[p].kind # "unkeyed"
          /\ TakeProvider(p)
          /\ \/ /\ ~live[p].up
                /\ live' = [live EXCEPT ![p] = Created(p)]
                /\ \E ack \in BOOLEAN : Answered(ack)
             \/ /\ UNCHANGED live
                /\ Answered(FALSE)
          /\ UNCHANGED presets

(* do_update_provider: PATCH by name.                                      *)
UpdateProvider(p) ==
    /\ ProviderAction(p) = "UPDATE"
    /\ TakeProvider(p)
    /\ \/ /\ live[p].up
          /\ live' = [live EXCEPT ![p] = Patched(p)]
          /\ \E ack \in BOOLEAN : Answered(ack)
       \/ /\ UNCHANGED live
          /\ Answered(FALSE)
    /\ UNCHANGED presets

TakePreset(p, m) ==
    /\ pc = "apply" /\ todoP = {}
    /\ <<p, m>> \in todoM
    /\ todoM' = todoM \ {<<p, m>>}
    /\ UNCHANGED todoP

(* An existing preset: nothing, or PATCH by the id the listing gave.       *)
UpdatePreset(p, m) ==
    /\ TakePreset(p, m)
    /\ \E i \in Matching(p, m) :
          LET want == desired[p].models[m].spec IN
          \/ /\ InStep(want, snapM[i].spec)
             /\ Answered(TRUE)
             /\ UNCHANGED presets
          \/ /\ ~InStep(want, snapM[i].spec)
             /\ \/ /\ presets[i].st = "up"
                   /\ presets' = [presets EXCEPT ![i].spec =
                                     PatchedSpec(want, snapM[i].spec, @)]
                   /\ \E ack \in BOOLEAN : Answered(ack)
                \/ /\ UNCHANGED presets
                   /\ Answered(FALSE)
    /\ UNCHANGED <<live, pc, cur, pid>>

(* do_create_model, first half: resolve_provider_id.  The GET can fail or  *)
(* find nothing; it does not look at enabled.  A preset without            *)
(* context_limit raises KeyError, which ends the run.                      *)
ResolveProvider(p, m) ==
    /\ Matching(p, m) = {}
    /\ \/ /\ TakePreset(p, m)
          /\ Answered(FALSE)
          /\ UNCHANGED <<pc, cur, pid>>
       \/ /\ live[p].up /\ desired[p].models[m].spec[LimitField] # NotGiven
          /\ TakePreset(p, m)
          /\ pc' = "post"
          /\ cur' = <<p, m>>
          /\ pid' = live[p].gen
          /\ Answered(TRUE)
       \/ /\ live[p].up /\ desired[p].models[m].spec[LimitField] = NotGiven
          /\ pc = "apply" /\ todoP = {} /\ <<p, m>> \in todoM
          /\ Ends("abort")
          /\ UNCHANGED <<hand, calm>>
    /\ UNCHANGED server

(* do_create_model, second half: POST.  The server refuses an id whose     *)
(* provider is gone; whether it refuses a second preset of the same model  *)
(* is its own affair.                                                      *)
CreatePreset ==
    /\ pc = "post"
    /\ pc' = "apply"
    /\ \/ \E i \in PresetIds :
             /\ presets[i].st = "free"
             /\ live[cur[1]].up /\ live[cur[1]].gen = pid
             /\ \E dflt \in [PresetFields -> Specs] :
                   presets' = [presets EXCEPT ![i] = CreatedPreset(cur, pid, dflt)]
             /\ \E ack \in BOOLEAN : Answered(ack)
       \/ /\ UNCHANGED presets
          /\ Answered(FALSE)
    /\ UNCHANGED <<live, todoP, todoM, cur, pid>>

(* main: exit status 1 if any mutation failed.                             *)
Finish ==
    /\ pc = "apply" /\ NoItems
    /\ Ends(IF failed THEN "1" ELSE "0")
    /\ calm' = IF calm = "edited" \/ failed THEN calm
               ELSE IF opts.rotate \/ calm = "rotated" THEN "rotated" ELSE "settled"
    /\ UNCHANGED <<server, hand>>

(* The run dies between two requests: a refused connection is not caught,  *)
(* and the operator may interrupt it.  A request in flight at that moment  *)
(* is one whose answer was lost.                                           *)
Crash ==
    /\ pc # "idle"
    /\ Ends("abort")
    /\ UNCHANGED <<server, hand, calm>>

-----------------------------------------------------------------------------
(* Hands other than the run's.                                             *)

ByHand ==
    /\ edits < MaxEdits
    /\ edits' = edits + 1
    /\ calm' = "edited"
    /\ UNCHANGED run

EditFile ==
    /\ ByHand
    /\ file' \in Files
    /\ UNCHANGED server

DashboardSavesProvider(p) ==
    /\ ByHand
    /\ live[p].up
    /\ \E e \in BOOLEAN, c \in Confs :
          live' = [live EXCEPT ![p] = [@ EXCEPT !.enabled = e, !.conf = c]]
    /\ UNCHANGED <<file, presets>>

(* Deleting a provider may or may not take its presets along.              *)
DashboardDeletesProvider(p) ==
    /\ ByHand
    /\ live[p].up
    /\ live' = [live EXCEPT ![p].up = FALSE]
    /\ \/ UNCHANGED presets
       \/ presets' = [i \in PresetIds |->
              IF presets[i].st = "up" /\ presets[i].prov = p
              THEN [presets[i] EXCEPT !.st = "gone"] ELSE presets[i]]
    /\ UNCHANGED file

DashboardCreatesProvider(p) ==
    /\ ByHand
    /\ ~live[p].up
    /\ \E e \in BOOLEAN, c \in Confs :
          live' = [live EXCEPT ![p] =
                       [live[p] EXCEPT !.up = TRUE, !.gen = live[p].gen + 1,
                                       !.enabled = e, !.conf = c, !.keys = {}]]
    /\ UNCHANGED <<file, presets>>

DashboardSavesPreset(i) ==
    /\ ByHand
    /\ presets[i].st = "up"
    /\ \/ \E f \in PresetFields, s \in Specs :
             presets' = [presets EXCEPT ![i].spec = [@ EXCEPT ![f] = s]]
       \/ presets' = [presets EXCEPT ![i].st = "gone"]
    /\ UNCHANGED <<file, live>>

-----------------------------------------------------------------------------
Reconcile ==
    \/ \E apply, rotate \in BOOLEAN : Start(apply, rotate)
    \/ ListProviders
    \/ ListModels
    \/ DryRun
    \/ \E p \in Providers :
          SkipProvider(p) \/ CreateProvider(p) \/ UpdateProvider(p)
    \/ \E p \in Providers, m \in Models :
          UpdatePreset(p, m) \/ ResolveProvider(p, m)
    \/ CreatePreset
    \/ Finish
    \/ Crash

Hands ==
    \/ EditFile
    \/ \E p \in Providers : \/ DashboardSavesProvider(p)
                            \/ DashboardDeletesProvider(p)
                            \/ DashboardCreatesProvider(p)
    \/ \E i \in PresetIds : DashboardSavesPreset(i)

Next == Reconcile \/ Hands

(* A started run takes its next step: no loop of the script waits for      *)
(* anything but the answer to its own request.                             *)
Progress ==
    \/ ListProviders \/ ListModels \/ DryRun \/ CreatePreset \/ Finish
    \/ \E p \in Providers :
          SkipProvider(p) \/ CreateProvider(p) \/ UpdateProvider(p)
    \/ \E p \in Providers, m \in Models :
          UpdatePreset(p, m) \/ ResolveProvider(p, m)

Spec == Init /\ [][Next]_vars
FairSpec == Spec /\ WF_vars(Progress)

-----------------------------------------------------------------------------
(* Properties.                                                             *)

(* The type invariant.                                                     *)
TypeOK ==
    /\ file \in Files
    /\ live \in [Providers -> LiveProvider]
    /\ presets \in [PresetIds -> LivePreset]
    /\ pc \in {"idle", "listProviders", "listModels", "apply", "post"}
    /\ opts \in [apply : BOOLEAN, rotate : BOOLEAN]
    /\ desired \in Files
    /\ snapP \in [Providers -> LiveProvider]
    /\ snapM \in [PresetIds -> LivePreset]
    /\ todoP \in SUBSET Providers
    /\ todoM \in SUBSET (Providers \X Models)
    /\ cur \in Providers \X Models
    /\ pid \in Nat
    /\ failed \in BOOLEAN
    /\ exit \in {"none", "0", "1", "abort", "dry"}
    /\ edits \in 0..MaxEdits
    /\ calm \in {"edited", "quiet"} \cup Settled

(* A live row agrees with its entry: the compared fields, and a key of the *)
(* declared rendering when the environment holds one.                      *)
RowInSync(d, row) == row.up /\ ~Drift(d, row) /\ ~SetKey(d, row, FALSE)
ProviderInSync(d, p) == RowInSync(d[p], live[p])

PresetInSync(d, p, m) ==
    \E i \in PresetIds :
       /\ presets[i].st = "up" /\ presets[i].prov = p
       /\ presets[i].gen = live[p].gen /\ presets[i].model = m
       /\ InStep(d[p].models[m].spec, presets[i].spec)

Converged ==
    /\ \A p \in Declared(file) : ProviderInSync(file, p)
    /\ \A k \in Wanted(file) : PresetInSync(file, k[1], k[2])

(* An exit status of 0 means what the docstring says: with no edit by hand *)
(* since the run started, every declared provider and every declared       *)
(* preset of an enabled provider is live as the file says -- whatever      *)
(* earlier runs left half done, whichever listings failed, and for as long *)
(* as nobody edits, through later runs that fail, crash or rotate keys.    *)
CleanExitConverges ==
    calm \in Settled => Converged

(* A run cannot see a key, only its rendering, and two keys may share one: *)
(* a run that exits 0 may leave another key than the environment's behind. *)
(* One with --rotate-keys does not: while nobody edits, every keyed        *)
(* provider of the file whose variable is set has that key and no other,   *)
(* also after later runs without the flag, failed or crashed.              *)
KeyAsDeclared(d, row) ==
    d.kind = "keyed" /\ d.key # NoKey => row.keys = {d.key}

KeysRotated ==
    calm = "rotated" => \A p \in Declared(file) : KeyAsDeclared(file[p], live[p])

(* What no request of the script may do, whatever happened in the          *)
(* dashboard since the listing: touch a provider the file does not         *)
(* declare, delete one, or move a compared field of a declared one to      *)
(* anything but the file's value.                                          *)
OnlyDeclaredProviders ==
    [][UNCHANGED edits =>
        \A p \in Providers : live'[p] # live[p] =>
            /\ desired[p].declared /\ opts.apply /\ live'[p].up
            /\ live'[p].enabled \in {live[p].enabled, desired[p].enabled}
            /\ live'[p].conf \in {live[p].conf, desired[p].conf}
            /\ live[p].up => live'[p].gen = live[p].gen]_vars

(* The same for presets: only those of a provider the file declares and    *)
(* enables, never one deleted, never one moved to another provider, also   *)
(* when the id in the plan went stale; and a field only ever moves to the  *)
(* value the file gives: what was saved in the dashboard since the listing *)
(* is overwritten by the file or kept, and never put back as it was        *)
(* listed.                                                                 *)
OnlyWantedPresets ==
    [][UNCHANGED edits =>
        \A i \in PresetIds : presets'[i] # presets[i] =>
            LET q == presets'[i]
                want == desired[q.prov].models[q.model].spec
            IN /\ <<q.prov, q.model>> \in Wanted(desired)
               /\ q.st = "up" /\ presets[i].st # "gone"
               /\ presets[i].st = "up" =>
                     /\ q = [presets[i] EXCEPT !.spec = q.spec]
                     /\ \A f \in PresetFields :
                           q.spec[f] \in {presets[i].spec[f], want[f]}
               /\ presets[i].st = "free" => InStep(want, q.spec)]_vars

(* The result of a clean run stands.                                       *)
Stands == calm \in Settled

(* Idempotence: once a run has exited 0 and nothing was edited, no later   *)
(* run without --rotate-keys changes a provider.                           *)
ProvidersIdempotent ==
    [][Stands /\ Stands' /\ ~opts.rotate
        => UNCHANGED live]_vars

(* The same for presets ("Idempotent: a second run with no YAML change is  *)
(* a no-op", line 21).  It holds as long as the preset listing cannot      *)
(* fail: a failed one is taken for an empty list, and every declared       *)
(* preset is created again.                                                *)
PresetsIdempotent ==
    [][Stands /\ Stands' => UNCHANGED presets]_vars

(* Every run ends: no failure makes the apply loop revisit an item.        *)
RunEnds == pc # "idle" ~> pc = "idle"

-----------------------------------------------------------------------------
(* Why CleanExitConverges holds: the inductive invariant.  Without edits   *)
(* by hand the snapshots stay true of whatever the run has not reached,    *)
(* and what it has reached without a failure agrees with the file.         *)

Applying == pc \in {"apply", "post"}
Undisturbed == calm # "edited"

(* Presets wait for the last provider.                                     *)
ProvidersFirst ==
    /\ pc \in {"listProviders", "listModels"} => todoP = Declared(desired)
    /\ pc # "idle" /\ (todoP # {} \/ ~Applying) => todoM = Wanted(desired)
    /\ pc = "post" => todoP = {}
    /\ pc # "idle" => todoP \subseteq Declared(desired)

FileLoaded == pc # "idle" /\ Undisturbed => desired = file

ProviderSnapshotTrue ==
    (pc = "listModels" \/ Applying) /\ Undisturbed =>
        \A p \in Providers :
            /\ snapP[p].up => live[p].up /\ live[p].gen = snapP[p].gen
            /\ p \in todoP => live[p] = snapP[p]

PresetSnapshotTrue ==
    Applying /\ Undisturbed =>
        \A i \in PresetIds : snapM[i].st = "up" =>
            /\ presets[i].st = "up" /\ presets[i].prov = snapM[i].prov
            /\ presets[i].gen = snapM[i].gen /\ presets[i].model = snapM[i].model
            /\ <<snapM[i].prov, snapM[i].model>> \in todoM =>
                   presets[i].spec = snapM[i].spec

DoneInSync ==
    Applying /\ Undisturbed /\ ~failed =>
        /\ \A p \in Declared(desired) \ todoP : ProviderInSync(desired, p)
        /\ \A k \in Wanted(desired) \ todoM :
              PresetInSync(desired, k[1], k[2]) \/ (pc = "post" /\ cur = k)

RotatedDone ==
    Applying /\ Undisturbed /\ ~failed /\ opts.rotate =>
        \A p \in Declared(desired) \ todoP : KeyAsDeclared(desired[p], live[p])

IInv ==
    /\ TypeOK
    /\ ProvidersFirst
    /\ FileLoaded
    /\ ProviderSnapshotTrue
    /\ PresetSnapshotTrue
    /\ DoneInSync
    /\ CleanExitConverges
    /\ RotatedDone
    /\ KeysRotated
=============================================================================
