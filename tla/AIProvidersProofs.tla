-------------------------- MODULE AIProvidersProofs --------------------------
(***************************************************************************)
(* Theorems about AIProviders, for every set of providers, models, files,  *)
(* keys and renderings, any first contents of the tables and any number of *)
(* edits by hand.                                                          *)
(***************************************************************************)
EXTENDS AIProviders, TLAPS

USE DEF Stands, Settled

(* The values an ended process leaves behind are of the right type.        *)
LEMMA LocalsTyped ==
    /\ NoOpts \in [apply : BOOLEAN, rotate : BOOLEAN]
    /\ NoFile \in Files
    /\ NoSnapP \in [Providers -> LiveProvider]
    /\ NoSnapM \in [PresetIds -> LivePreset]
    /\ NoItem \in Providers \X Models
<1>1. NoConf \in Confs
  BY ConstantsOK DEF NoConf
<1>2. /\ (CHOOSE p \in Providers : TRUE) \in Providers
      /\ (CHOOSE m \in Models : TRUE) \in Models
      /\ (CHOOSE s \in Specs : TRUE) \in Specs
      /\ [f \in PresetFields |-> CHOOSE s \in Specs : TRUE] \in [PresetFields -> Specs]
  BY ConstantsOK
<1>3. NoItem \in Providers \X Models
  <2>1. PICK p \in Providers, m \in Models : TRUE
    BY ConstantsOK
  <2>2. <<p, m>> \in Providers \X Models
    OBVIOUS
  <2> QED
    BY <2>2 DEF NoItem
<1>4. NoFile \in Files
  BY ConstantsOK DEF NoFile
<1>5. NoSnapP \in [Providers -> LiveProvider]
  BY <1>1 DEF NoSnapP, LiveProvider, LiveTypes
<1>6. NoSnapM \in [PresetIds -> LivePreset]
  BY <1>2 DEF NoSnapM, LivePreset
<1> QED
  BY <1>3, <1>4, <1>5, <1>6 DEF NoOpts

(* What an entry asks of a preset, field by field.                         *)
LEMMA WantTyped ==
    ASSUME TypeOK, NEW p \in Providers, NEW m \in Models
    PROVE  desired[p].models[m].spec \in [PresetFields -> Specs \cup {NotGiven}]
<1>1. desired[p] \in DesiredProvider
  BY ConstantsOK DEF TypeOK, DesiredFile
<1>2. desired[p].models[m] \in DesiredPreset
  BY <1>1 DEF DesiredProvider
<1> QED
  BY <1>2 DEF DesiredPreset

(* A PATCH leaves a preset with values, and in step with its entry if the  *)
(* listing was true of it.                                                 *)
LEMMA PatchTyped ==
    ASSUME NEW want \in [PresetFields -> Specs \cup {NotGiven}], NEW listed,
           NEW row \in [PresetFields -> Specs]
    PROVE  /\ PatchedSpec(want, listed, row) \in [PresetFields -> Specs]
           /\ \A f \in PresetFields :
                 PatchedSpec(want, listed, row)[f] \in {row[f], want[f]}
           /\ InStep(want, row) \/ row = listed
              => InStep(want, PatchedSpec(want, listed, row))
BY DEF PatchedSpec, InStep

(* The compared fields of a preset, alone.                                 *)
LEMMA SpecSaved ==
    ASSUME NEW row \in LivePreset, NEW s \in [PresetFields -> Specs],
           NEW q, q = [row EXCEPT !.spec = s]
    PROVE  /\ q \in LivePreset /\ q.spec = s /\ q.st = row.st
           /\ q.prov = row.prov /\ q.gen = row.gen /\ q.model = row.model
BY DEF LivePreset

(* What a POST makes of an entry.                                          *)
LEMMA CreatedTyped ==
    ASSUME TypeOK, NEW p \in Providers, NEW m \in Models, NEW gen \in Nat,
           NEW dflt \in [PresetFields -> Specs],
           NEW q, q = CreatedPreset(<<p, m>>, gen, dflt)
    PROVE  /\ q \in LivePreset /\ q.st = "up"
           /\ q.prov = p /\ q.gen = gen /\ q.model = m
           /\ InStep(desired[p].models[m].spec, q.spec)
<1> DEFINE want == desired[p].models[m].spec
           spec == [f \in PresetFields |->
                       IF want[f] = NotGiven THEN dflt[f] ELSE want[f]]
<1>1. want \in [PresetFields -> Specs \cup {NotGiven}]
  BY WantTyped
<1>2. q = [st |-> "up", prov |-> p, gen |-> gen, model |-> m, spec |-> spec]
  BY DEF CreatedPreset
<1> HIDE DEF want
<1>3. spec \in [PresetFields -> Specs] /\ InStep(want, spec)
  BY <1>1 DEF InStep
<1> HIDE DEF spec
<1>4. q \in LivePreset
  BY <1>2, <1>3 DEF LivePreset
<1> QED
  BY <1>2, <1>3, <1>4 DEF want

(* An existing preset either stays or is patched.                          *)
LEMMA UpdateWrites ==
    ASSUME TypeOK, NEW p \in Providers, NEW m \in Models, UpdatePreset(p, m)
    PROVE  \E i \in Matching(p, m) :
              LET want == desired[p].models[m].spec
                  s == PatchedSpec(want, snapM[i].spec, presets[i].spec)
              IN  /\ i \in PresetIds
                  /\ \/ UNCHANGED presets /\ (failed' \/ InStep(want, snapM[i].spec))
                     \/ /\ presets[i].st = "up" /\ ~InStep(want, snapM[i].spec)
                        /\ s \in [PresetFields -> Specs]
                        /\ presets' = [presets EXCEPT ![i] = [@ EXCEPT !.spec = s]]
<1>1. PICK i \in Matching(p, m) :
         LET want == desired[p].models[m].spec
             s == PatchedSpec(want, snapM[i].spec, presets[i].spec)
         IN  \/ UNCHANGED presets /\ (failed' \/ InStep(want, snapM[i].spec))
             \/ /\ presets[i].st = "up" /\ ~InStep(want, snapM[i].spec)
                /\ presets' = [presets EXCEPT ![i].spec = s]
  BY DEF UpdatePreset, Answered, Matching, TypeOK
<1>2. i \in PresetIds /\ presets[i].spec \in [PresetFields -> Specs]
  BY DEF Matching, TypeOK, LivePreset
<1> QED
  BY <1>1, <1>2, WantTyped, PatchTyped

(* What the POST of a preset writes.                                       *)
LEMMA CreateWrites ==
    ASSUME TypeOK, CreatePreset
    PROVE  \/ UNCHANGED presets /\ failed'
           \/ \E i \in PresetIds, q \in LivePreset :
                 /\ presets[i].st = "free" /\ live[cur[1]].up /\ live[cur[1]].gen = pid
                 /\ q.st = "up" /\ q.prov = cur[1] /\ q.gen = pid /\ q.model = cur[2]
                 /\ InStep(desired[cur[1]].models[cur[2]].spec, q.spec)
                 /\ presets' = [presets EXCEPT ![i] = q]
<1>1. cur[1] \in Providers /\ cur[2] \in Models /\ cur = <<cur[1], cur[2]>> /\ pid \in Nat
  BY DEF TypeOK
<1>2. CASE UNCHANGED presets /\ failed'
  BY <1>2
<1>3. CASE ~(UNCHANGED presets /\ failed')
  <2>1. PICK i \in PresetIds, dflt \in [PresetFields -> Specs] :
           /\ presets[i].st = "free" /\ live[cur[1]].up /\ live[cur[1]].gen = pid
           /\ presets' = [presets EXCEPT ![i] = CreatedPreset(cur, pid, dflt)]
    BY <1>3 DEF CreatePreset, Answered
  <2> DEFINE q == CreatedPreset(cur, pid, dflt)
  <2>2. /\ q \in LivePreset /\ q.st = "up"
        /\ q.prov = cur[1] /\ q.gen = pid /\ q.model = cur[2]
        /\ InStep(desired[cur[1]].models[cur[2]].spec, q.spec)
    BY <1>1, CreatedTyped
  <2> HIDE DEF q
  <2> QED
    BY <2>1, <2>2 DEF q
<1> QED
  BY <1>2, <1>3

(* A file in use is a file.                                                *)
LEMMA EntryTyped ==
    ASSUME TypeOK, NEW p \in Providers
    PROVE  /\ desired[p] \in DesiredProvider
           /\ file[p] \in DesiredProvider
BY ConstantsOK DEF TypeOK, DesiredFile

(* The items of a plan are declared names, and presets under them.         *)
LEMMA WantedTyped ==
    ASSUME NEW d
    PROVE  /\ Declared(d) \in SUBSET Providers
           /\ Wanted(d) \in SUBSET (Providers \X Models)
BY DEF Declared, Wanted

(* The rows a POST or a PATCH writes are rows.                             *)
LEMMA RowsTyped ==
    ASSUME TypeOK, NEW p \in Providers
    PROVE  /\ (desired[p].kind = "keyed" => desired[p].key # NoKey)
              => Created(p) \in LiveProvider
           /\ Patched(p) \in LiveProvider
<1> live[p] \in LiveProvider /\ snapP[p] \in LiveProvider
  BY DEF TypeOK
<1> desired[p] \in DesiredProvider
  BY EntryTyped
<1>1. ASSUME desired[p].kind = "keyed" => desired[p].key # NoKey
      PROVE  Created(p) \in LiveProvider
  BY <1>1 DEF Created, LiveProvider, LiveTypes, DesiredProvider
<1>2. Patched(p) \in LiveProvider
  BY DEF Patched, SetKey, LiveProvider, DesiredProvider
<1> QED
  BY <1>1, <1>2

-----------------------------------------------------------------------------
(* The state keeps its type: whatever the server answers and whoever edits *)
(* the tables, rows stay rows and the plan stays a set of declared items.  *)
THEOREM TypeCorrect == Spec => []TypeOK
<1>1. Init => TypeOK
  <2> SUFFICES ASSUME Init PROVE TypeOK
    OBVIOUS
  <2>1. /\ live \in [Providers -> LiveProvider]
        /\ presets \in [PresetIds -> LivePreset]
        /\ edits \in 0..MaxEdits
    BY ConstantsOK DEF Init
  <2> QED
    BY <2>1, LocalsTyped DEF Init, TypeOK
<1>2. TypeOK /\ [Next]_vars => TypeOK'
  <2> SUFFICES ASSUME TypeOK, [Next]_vars
               PROVE  TypeOK'
    OBVIOUS
  <2>1. ASSUME NEW apply \in BOOLEAN, NEW rotate \in BOOLEAN, Start(apply, rotate)
        PROVE  TypeOK'
    BY <2>1, WantedTyped DEF Start, TypeOK, server, hand
  <2>2. CASE ListProviders
    <3>1. CASE Ends("abort")
      BY <2>2, <3>1, LocalsTyped DEF ListProviders, Ends, TypeOK, server, hand
    <3>2. CASE snapP' = live
      BY <2>2, <3>1, <3>2 DEF ListProviders, TypeOK, server, hand
    <3> QED
      BY <2>2, <3>1, <3>2 DEF ListProviders
  <2>3. CASE ListModels
    BY <2>3, LocalsTyped DEF ListModels, TypeOK, server, hand
  <2>4. CASE DryRun
    BY <2>4, LocalsTyped DEF DryRun, Ends, TypeOK, server, hand
  <2>5. ASSUME NEW p \in Providers, SkipProvider(p)
        PROVE  TypeOK'
    BY <2>5 DEF SkipProvider, TakeProvider, Answered, TypeOK, server, hand, loaded
  <2>6. ASSUME NEW p \in Providers, CreateProvider(p)
        PROVE  TypeOK'
    <3>1. CASE /\ pc = "apply" /\ p \in todoP
               /\ Ends("abort")
               /\ UNCHANGED <<server, hand, calm>>
      BY <3>1, LocalsTyped DEF Ends, TypeOK, server, hand
    <3>2. CASE /\ desired[p].kind = "keyed" => desired[p].key # NoKey
               /\ TakeProvider(p)
               /\ live' = [live EXCEPT ![p] = Created(p)]
               /\ \E ack \in BOOLEAN : Answered(ack)
               /\ UNCHANGED presets
      BY <3>2, RowsTyped DEF TakeProvider, Answered, TypeOK, hand, loaded
    <3>3. CASE TakeProvider(p) /\ Answered(FALSE) /\ UNCHANGED server
      BY <3>3 DEF TakeProvider, Answered, TypeOK, server, hand, loaded
    <3> QED
      BY <2>6, <3>1, <3>2, <3>3 DEF CreateProvider, server
  <2>7. ASSUME NEW p \in Providers, UpdateProvider(p)
        PROVE  TypeOK'
    BY <2>7, RowsTyped
       DEF UpdateProvider, TakeProvider, Answered, TypeOK, hand, loaded
  <2>8. ASSUME NEW p \in Providers, NEW m \in Models, UpdatePreset(p, m)
        PROVE  TypeOK'
    <3>1. PICK i \in PresetIds :
             \/ UNCHANGED presets
             \/ \E s \in [PresetFields -> Specs] :
                   presets' = [presets EXCEPT ![i] = [@ EXCEPT !.spec = s]]
      BY <2>8, UpdateWrites
    <3>2. \A s \in [PresetFields -> Specs] :
             [presets[i] EXCEPT !.spec = s] \in LivePreset
      BY SpecSaved DEF TypeOK
    <3>3. presets' \in [PresetIds -> LivePreset]
      BY <3>1, <3>2 DEF TypeOK
    <3>4. failed' \in BOOLEAN
      BY <2>8 DEF UpdatePreset, Answered, TypeOK
    <3> QED
      BY <2>8, <3>3, <3>4
         DEF UpdatePreset, TakePreset, Answered, TypeOK, hand, loaded
  <2>9. ASSUME NEW p \in Providers, NEW m \in Models, ResolveProvider(p, m)
        PROVE  TypeOK'
    <3>1. live[p].gen \in Nat
      BY DEF TypeOK, LiveProvider
    <3>2. CASE Ends("abort") /\ UNCHANGED <<hand, calm>>
      BY <2>9, <3>2, LocalsTyped
         DEF ResolveProvider, Ends, TypeOK, server, hand
    <3>3. CASE /\ TakePreset(p, m)
               /\ \/ Answered(FALSE) /\ UNCHANGED <<pc, cur, pid>>
                  \/ /\ pc' = "post" /\ cur' = <<p, m>> /\ pid' = live[p].gen
                     /\ Answered(TRUE)
      <4>1. UNCHANGED server
        BY <2>9 DEF ResolveProvider
      <4>2. failed' \in BOOLEAN
        BY <3>3 DEF Answered, TypeOK
      <4>3. /\ cur' \in Providers \X Models
            /\ pid' \in Nat
            /\ pc' \in {"apply", "post"}
        BY <3>1, <3>3 DEF TypeOK, TakePreset
      <4> QED
        BY <3>3, <4>1, <4>2, <4>3
           DEF TakePreset, Answered, TypeOK, server, hand, loaded
    <3> QED
      BY <2>9, <3>2, <3>3 DEF ResolveProvider
  <2>10. CASE CreatePreset
    <3>1. presets' \in [PresetIds -> LivePreset]
      BY <2>10, CreateWrites DEF TypeOK
    <3> QED
      BY <2>10, <3>1 DEF CreatePreset, Answered, TypeOK, hand, loaded
  <2>11. CASE Finish
    BY <2>11, LocalsTyped DEF Finish, Ends, TypeOK, server, hand
  <2>12. CASE Crash
    BY <2>12, LocalsTyped DEF Crash, Ends, TypeOK, server, hand
  <2>13. CASE Hands
    <3>1. ByHand
      BY <2>13 DEF Hands, EditFile, DashboardSavesProvider, DashboardDeletesProvider,
                   DashboardCreatesProvider, DashboardSavesPreset
    <3>2. edits' \in 0..MaxEdits /\ calm' = "edited" /\ UNCHANGED run
      BY <3>1, ConstantsOK DEF ByHand, TypeOK
    <3>3. file' \in Files
      BY <2>13 DEF Hands, EditFile, DashboardSavesProvider, DashboardDeletesProvider,
                   DashboardCreatesProvider, DashboardSavesPreset, TypeOK
    <3>4. live' \in [Providers -> LiveProvider]
      <4>1. ASSUME NEW p \in Providers, NEW e \in BOOLEAN, NEW c \in Confs
            PROVE  /\ [live[p] EXCEPT !.enabled = e, !.conf = c] \in LiveProvider
                   /\ [live[p] EXCEPT !.up = FALSE] \in LiveProvider
                   /\ [live[p] EXCEPT !.up = TRUE, !.gen = live[p].gen + 1, !.enabled = e,
                                      !.conf = c, !.keys = {}] \in LiveProvider
        <5>1. live[p] \in LiveProvider
          BY DEF TypeOK
        <5>2. live[p].gen + 1 \in Nat
          BY <5>1 DEF LiveProvider
        <5> QED
          BY <5>1, <5>2 DEF LiveProvider
      <4>2. ASSUME NEW p \in Providers, DashboardSavesProvider(p)
            PROVE  live' \in [Providers -> LiveProvider]
        <5>1. PICK e \in BOOLEAN, c \in Confs :
                live' = [live EXCEPT ![p] = [@ EXCEPT !.enabled = e, !.conf = c]]
          BY <4>2 DEF DashboardSavesProvider
        <5>2. [live[p] EXCEPT !.enabled = e, !.conf = c] \in LiveProvider
          BY <4>1
        <5> QED
          BY <5>1, <5>2 DEF TypeOK
      <4>3. ASSUME NEW p \in Providers, DashboardDeletesProvider(p)
            PROVE  live' \in [Providers -> LiveProvider]
        <5>1. live[p] \in LiveProvider
          BY DEF TypeOK
        <5>2. [live[p] EXCEPT !.up = FALSE] \in LiveProvider
          BY <5>1 DEF LiveProvider
        <5> QED
          BY <5>2, <4>3 DEF DashboardDeletesProvider, TypeOK
      <4>4. ASSUME NEW p \in Providers, DashboardCreatesProvider(p)
            PROVE  live' \in [Providers -> LiveProvider]
        <5>1. PICK e \in BOOLEAN, c \in Confs :
                live' = [live EXCEPT ![p] =
                           [live[p] EXCEPT !.up = TRUE, !.gen = live[p].gen + 1,
                                           !.enabled = e, !.conf = c, !.keys = {}]]
          BY <4>4 DEF DashboardCreatesProvider
        <5>2. [live[p] EXCEPT !.up = TRUE, !.gen = live[p].gen + 1, !.enabled = e,
                               !.conf = c, !.keys = {}] \in LiveProvider
          BY <4>1
        <5> QED
          BY <5>1, <5>2 DEF TypeOK
      <4> QED
        BY <2>13, <4>2, <4>3, <4>4
           DEF Hands, EditFile, DashboardSavesPreset, TypeOK, server
    <3>5. presets' \in [PresetIds -> LivePreset]
      <4>1. ASSUME NEW i \in PresetIds, NEW f \in PresetFields, NEW s \in Specs
            PROVE  [presets[i] EXCEPT !.spec = [@ EXCEPT ![f] = s]] \in LivePreset
        <5>1. [presets[i].spec EXCEPT ![f] = s] \in [PresetFields -> Specs]
          BY DEF TypeOK, LivePreset
        <5> QED
          BY <5>1, SpecSaved DEF TypeOK
      <4>2. ASSUME NEW i \in PresetIds
            PROVE  [presets[i] EXCEPT !.st = "gone"] \in LivePreset
        <5>1. presets[i] \in LivePreset
          BY DEF TypeOK
        <5> QED
          BY <5>1 DEF LivePreset
      <4>3. ASSUME NEW i \in PresetIds, DashboardSavesPreset(i)
            PROVE  presets' \in [PresetIds -> LivePreset]
        BY <4>1, <4>2, <4>3 DEF DashboardSavesPreset, TypeOK
      <4>4. ASSUME NEW p \in Providers, DashboardDeletesProvider(p)
            PROVE  presets' \in [PresetIds -> LivePreset]
        BY <4>2, <4>4 DEF DashboardDeletesProvider, TypeOK
      <4> QED
        BY <2>13, <4>3, <4>4
           DEF Hands, EditFile, DashboardSavesProvider, DashboardCreatesProvider,
               TypeOK, server
    <3> QED
      BY <3>2, <3>3, <3>4, <3>5 DEF TypeOK, run
  <2>14. CASE UNCHANGED vars
    BY <2>14 DEF vars, TypeOK
  <2> QED
    BY <2>1, <2>2, <2>3, <2>4, <2>5, <2>6, <2>7, <2>8, <2>9, <2>10, <2>11,
       <2>12, <2>13, <2>14 DEF Next, Reconcile
<1> QED
  BY <1>1, <1>2, PTL DEF Spec

-----------------------------------------------------------------------------
(* A provider the run skips, creates or updates while its snapshot is true *)
(* comes out in step with its entry.                                       *)
LEMMA SkippedInSync ==
    ASSUME TypeOK, NEW p \in Providers, ProviderAction(p) = "NOOP"
    PROVE  RowInSync(desired[p], snapP[p])
BY DEF TypeOK, ProviderAction, RowInSync, SetKey

(* The same for a row the POST writes.                                     *)
LEMMA CreatedInSync ==
    ASSUME TypeOK, NEW p \in Providers,
           desired[p].kind = "keyed" => desired[p].key # NoKey
    PROVE  RowInSync(desired[p], Created(p))
<1> desired[p] \in DesiredProvider
  BY EntryTyped
<1>1. Created(p).up /\ ~Drift(desired[p], Created(p))
  BY DEF Created, Drift, DesiredProvider
<1>2. ~SetKey(desired[p], Created(p), FALSE)
  BY DEF Created, SetKey, MasksOf
<1> QED
  BY <1>1, <1>2 DEF RowInSync

(* The same for a row the PATCH writes over the row that was listed; it    *)
(* stays the same row.                                                     *)
LEMMA PatchedInSync ==
    ASSUME TypeOK, NEW p \in Providers, live[p] = snapP[p], live[p].up
    PROVE  /\ RowInSync(desired[p], Patched(p))
           /\ Patched(p).gen = live[p].gen
<1> live[p] \in LiveProvider
  BY DEF TypeOK
<1> desired[p] \in DesiredProvider
  BY EntryTyped
<1>1. /\ Patched(p).up /\ Patched(p).gen = live[p].gen
      /\ ~Drift(desired[p], Patched(p))
  BY DEF Patched, Drift
<1>2. ~SetKey(desired[p], Patched(p), FALSE)
  <2>1. CASE SetKey(desired[p], snapP[p], opts.rotate)
    <3>1. Patched(p).keys = {desired[p].key}
      BY <2>1 DEF Patched
    <3> QED
      BY <3>1 DEF SetKey, MasksOf
  <2>2. CASE ~SetKey(desired[p], snapP[p], opts.rotate)
    <3>1. Patched(p).keys = snapP[p].keys
      BY <2>2 DEF Patched
    <3> QED
      BY <2>2, <3>1 DEF SetKey
  <2> QED
    BY <2>1, <2>2
<1> QED
  BY <1>1, <1>2 DEF RowInSync

-----------------------------------------------------------------------------
(* Hands other than the run's disturb it and leave its locals alone.       *)
LEMMA HandsDisturb ==
    ASSUME Hands
    PROVE  calm' = "edited" /\ UNCHANGED run
BY DEF Hands, EditFile, DashboardSavesProvider, DashboardDeletesProvider,
       DashboardCreatesProvider, DashboardSavesPreset, ByHand

(* No preset is taken up while a provider is left.                         *)
LEMMA ProvidersFirstInv == Spec => []ProvidersFirst
<1>1. Init => ProvidersFirst
  BY DEF Init, ProvidersFirst
<1>2. ProvidersFirst /\ [Next]_vars => ProvidersFirst'
  <2> SUFFICES ASSUME ProvidersFirst, [Next]_vars
               PROVE  ProvidersFirst'
    OBVIOUS
  <2> USE DEF ProvidersFirst, Applying, Declared, Wanted
  <2>1. ASSUME NEW apply \in BOOLEAN, NEW rotate \in BOOLEAN, Start(apply, rotate)
        PROVE  ProvidersFirst'
    BY <2>1 DEF Start
  <2>2. CASE ListProviders \/ ListModels \/ DryRun
    BY <2>2 DEF ListProviders, ListModels, DryRun, Ends
  <2>3. ASSUME NEW p \in Providers,
               SkipProvider(p) \/ CreateProvider(p) \/ UpdateProvider(p)
        PROVE  ProvidersFirst'
    BY <2>3 DEF SkipProvider, CreateProvider, UpdateProvider, TakeProvider,
                Answered, Ends, loaded
  <2>4. ASSUME NEW p \in Providers, NEW m \in Models,
               UpdatePreset(p, m) \/ ResolveProvider(p, m)
        PROVE  ProvidersFirst'
    BY <2>4 DEF UpdatePreset, ResolveProvider, TakePreset, Answered, Ends, loaded
  <2>5. CASE CreatePreset \/ Finish \/ Crash
    BY <2>5 DEF CreatePreset, Finish, Crash, Answered, Ends, loaded
  <2>6. CASE Hands \/ UNCHANGED vars
    BY <2>6, HandsDisturb DEF run, vars
  <2> QED
    BY <2>1, <2>2, <2>3, <2>4, <2>5, <2>6 DEF Next, Reconcile
<1> QED
  BY <1>1, <1>2, PTL DEF Spec

(* An undisturbed run works from the file as it is.                        *)
LEMMA FileLoadedInv == Spec => []FileLoaded
<1>1. Init => FileLoaded
  BY DEF Init, FileLoaded
<1>2. FileLoaded /\ [Next]_vars => FileLoaded'
  <2> SUFFICES ASSUME FileLoaded, [Next]_vars
               PROVE  FileLoaded'
    OBVIOUS
  <2> USE DEF FileLoaded, Undisturbed, hand
  <2>1. ASSUME NEW apply \in BOOLEAN, NEW rotate \in BOOLEAN, Start(apply, rotate)
        PROVE  FileLoaded'
    BY <2>1 DEF Start
  <2>2. CASE ListProviders \/ ListModels \/ DryRun
    BY <2>2 DEF ListProviders, ListModels, DryRun, Ends
  <2>3. ASSUME NEW p \in Providers,
               SkipProvider(p) \/ CreateProvider(p) \/ UpdateProvider(p)
        PROVE  FileLoaded'
    BY <2>3 DEF SkipProvider, CreateProvider, UpdateProvider, TakeProvider,
                Answered, Ends, loaded
  <2>4. ASSUME NEW p \in Providers, NEW m \in Models,
               UpdatePreset(p, m) \/ ResolveProvider(p, m)
        PROVE  FileLoaded'
    BY <2>4 DEF UpdatePreset, ResolveProvider, TakePreset, Answered, Ends, loaded
  <2>5. CASE CreatePreset \/ Finish \/ Crash
    BY <2>5 DEF CreatePreset, Finish, Crash, Answered, Ends, loaded
  <2>6. CASE Hands \/ UNCHANGED vars
    BY <2>6, HandsDisturb DEF vars
  <2> QED
    BY <2>1, <2>2, <2>3, <2>4, <2>5, <2>6 DEF Next, Reconcile
<1> QED
  BY <1>1, <1>2, PTL DEF Spec

SnapshotsTrue == ProviderSnapshotTrue /\ PresetSnapshotTrue

(* An undisturbed run's snapshots are true of what it has not reached.     *)
LEMMA SnapshotsTrueInv == Spec => []SnapshotsTrue
<1>1. Init => SnapshotsTrue
  BY DEF Init, SnapshotsTrue, ProviderSnapshotTrue, PresetSnapshotTrue, Applying
<1>2. TypeOK /\ SnapshotsTrue /\ [Next]_vars => SnapshotsTrue'
  <2> SUFFICES ASSUME TypeOK, SnapshotsTrue, [Next]_vars
               PROVE  SnapshotsTrue'
    OBVIOUS
  <2> USE DEF SnapshotsTrue, ProviderSnapshotTrue, PresetSnapshotTrue, Applying,
              Undisturbed
  <2>1. CASE pc' = "idle"
    BY <2>1
  <2>2. ASSUME NEW apply \in BOOLEAN, NEW rotate \in BOOLEAN, Start(apply, rotate)
        PROVE  SnapshotsTrue'
    BY <2>2 DEF Start
  <2>3. CASE ListProviders
    BY <2>1, <2>3 DEF ListProviders, Ends, server
  <2>4. CASE ListModels
    <3>1. \A i \in PresetIds : NoSnapM[i].st = "free"
      BY DEF NoSnapM
    <3> QED
      BY <2>4, <3>1 DEF ListModels, server
  <2>5. ASSUME NEW p \in Providers, SkipProvider(p)
        PROVE  SnapshotsTrue'
    BY <2>5 DEF SkipProvider, TakeProvider, Answered, loaded, server
  <2>6. ASSUME NEW p \in Providers, CreateProvider(p), pc' # "idle"
        PROVE  SnapshotsTrue'
    <3>1. ~snapP[p].up
      BY <2>6 DEF CreateProvider, ProviderAction
    <3>2. \A q \in Providers \ {p} : live'[q] = live[q]
      BY <2>6 DEF CreateProvider, server, Ends, TypeOK
    <3> QED
      BY <2>6, <3>1, <3>2
         DEF CreateProvider, TakeProvider, Answered, Ends, loaded, server
  <2>7. ASSUME NEW p \in Providers, UpdateProvider(p)
        PROVE  SnapshotsTrue'
    <3>1. /\ \A q \in Providers \ {p} : live'[q] = live[q]
          /\ live'[p].up = live[p].up /\ live'[p].gen = live[p].gen
      <4>1. Patched(p).up = live[p].up /\ Patched(p).gen = live[p].gen
        BY DEF Patched
      <4>2. live' = [live EXCEPT ![p] = Patched(p)] \/ UNCHANGED live
        BY <2>7 DEF UpdateProvider
      <4> QED
        BY <4>1, <4>2 DEF TypeOK
    <3> QED
      BY <2>7, <3>1 DEF UpdateProvider, TakeProvider, Answered, loaded
  <2>8. ASSUME NEW p \in Providers, NEW m \in Models, UpdatePreset(p, m)
        PROVE  SnapshotsTrue'
    <3>1. PICK i \in Matching(p, m) :
             \/ UNCHANGED presets
             \/ \E s \in [PresetFields -> Specs] :
                   presets' = [presets EXCEPT ![i] = [@ EXCEPT !.spec = s]]
      BY <2>8, UpdateWrites
    <3>2. /\ i \in PresetIds /\ snapM[i].prov = p /\ snapM[i].model = m
      BY DEF Matching
    <3>3. \A j \in PresetIds \ {i} : presets'[j] = presets[j]
      BY <3>1, <3>2 DEF TypeOK
    <3>4. /\ presets'[i].st = presets[i].st /\ presets'[i].prov = presets[i].prov
          /\ presets'[i].gen = presets[i].gen
          /\ presets'[i].model = presets[i].model
      BY <3>1, <3>2, SpecSaved DEF TypeOK
    <3>5. <<p, m>> \notin todoM' /\ todoM' \subseteq todoM
      BY <2>8 DEF UpdatePreset, TakePreset
    <3> QED
      BY <2>8, <3>2, <3>3, <3>4, <3>5
         DEF UpdatePreset, TakePreset, Answered, loaded
  <2>9. ASSUME NEW p \in Providers, NEW m \in Models, ResolveProvider(p, m)
        PROVE  SnapshotsTrue'
    BY <2>9 DEF ResolveProvider, TakePreset, Answered, Ends, loaded, server
  <2>10. CASE CreatePreset
    <3>1. \A j \in PresetIds : presets[j].st # "free" => presets'[j] = presets[j]
      BY <2>10, CreateWrites DEF TypeOK
    <3> QED
      BY <2>10, <3>1 DEF CreatePreset, Answered, loaded
  <2>11. CASE DryRun \/ Finish \/ Crash
    BY <2>1, <2>11 DEF DryRun, Finish, Crash, Ends
  <2>12. CASE Hands \/ UNCHANGED vars
    BY <2>12, HandsDisturb DEF vars
  <2> QED
    BY <2>1, <2>2, <2>3, <2>4, <2>5, <2>6, <2>7, <2>8, <2>9, <2>10, <2>11, <2>12
       DEF Next, Reconcile
<1> QED
  BY <1>1, <1>2, TypeCorrect, PTL DEF Spec

-----------------------------------------------------------------------------
(* An undisturbed run that exits 0 leaves every declared provider and      *)
(* every declared preset of an enabled provider as the file says, and they *)
(* stay so until the next edit by hand.                                    *)
Synced == DoneInSync /\ CleanExitConverges

(* Nothing the tables show changed, and nothing was taken up.              *)
LEMMA SyncedIdle ==
    ASSUME Synced, UNCHANGED <<server, file>>, pc' = "idle",
           Stands' => Stands
    PROVE  Synced'
BY DEF Synced, DoneInSync, CleanExitConverges, Converged, Applying, ProviderInSync,
       PresetInSync, server

(* A step of an applying run that takes up provider p.                     *)
LEMMA SyncedProvider ==
    ASSUME TypeOK, ProvidersFirst, FileLoaded, SnapshotsTrue, Synced,
           NEW p \in Providers, TakeProvider(p),
           UNCHANGED <<file, desired, calm, presets>>,
           failed' \in BOOLEAN, failed => failed',
           \A q \in Providers \ {p} : live'[q] = live[q],
           live'[p] = live[p] \/ RowInSync(desired[p], live'[p]) \/ ~Undisturbed,
           failed' \/ RowInSync(desired[p], live'[p]) \/ ~Undisturbed,
           live'[p].gen = live[p].gen \/ ~live[p].up \/ ~Undisturbed
    PROVE  Synced'
<1>1. pc = "apply" /\ pc' = "apply" /\ p \in todoP /\ todoP' = todoP \ {p}
      /\ todoM' = todoM /\ todoM = Wanted(desired)
  BY DEF TakeProvider, ProvidersFirst, Applying
<1>2. DoneInSync'
  <2> SUFFICES ASSUME Undisturbed, ~failed'
               PROVE  /\ \A q \in Declared(desired) \ todoP' :
                            RowInSync(desired[q], live'[q])
    BY <1>1 DEF DoneInSync, Undisturbed, Wanted, Declared, ProviderInSync
  <2>1. ~failed /\ RowInSync(desired[p], live'[p])
    OBVIOUS
  <2>2. \A q \in Declared(desired) \ todoP : RowInSync(desired[q], live[q])
    BY <2>1, <1>1 DEF Synced, DoneInSync, Applying, ProviderInSync
  <2> QED
    BY <2>1, <2>2, <1>1 DEF Declared
<1>3. CleanExitConverges'
  <2> SUFFICES ASSUME Stands
               PROVE  Converged'
    BY DEF CleanExitConverges
  <2>1. Undisturbed /\ desired = file /\ Converged
    BY <1>1 DEF Undisturbed, FileLoaded, Synced, CleanExitConverges
  <2>2. p \in Declared(file)
    BY <1>1, <2>1 DEF ProvidersFirst
  <2>3. RowInSync(file[p], live[p])
    BY <2>1, <2>2 DEF Converged, ProviderInSync
  <2>4. \A q \in Declared(file) : RowInSync(file[q], live'[q])
    BY <2>1, <2>3 DEF Converged, ProviderInSync, Declared
  <2>5. \A q \in Providers : live'[q].gen = live[q].gen
    BY <2>1, <2>3 DEF RowInSync
  <2>6. \A k \in Wanted(file) : PresetInSync(file, k[1], k[2])'
    BY <2>1, <2>5 DEF Converged, PresetInSync, Wanted
  <2> QED
    BY <2>4, <2>6 DEF Converged, Declared, Wanted, ProviderInSync
<1> QED
  BY <1>2, <1>3 DEF Synced

(* A step that keeps the provider table and every preset in step.          *)
LEMMA SyncedPreset ==
    ASSUME TypeOK, FileLoaded, Synced, Applying, Applying',
           UNCHANGED <<file, live, desired, calm, todoP>>,
           todoM' \subseteq todoM, failed => failed',
           Undisturbed => \A q \in Providers, n \in Models :
               PresetInSync(desired, q, n) => PresetInSync(desired, q, n)',
           Undisturbed /\ ~failed' =>
               \A k \in Wanted(desired) \ todoM' :
                  \/ PresetInSync(desired, k[1], k[2])'
                  \/ pc' = "post" /\ cur' = k
                  \/ k \notin todoM /\ ~(pc = "post" /\ cur = k)
    PROVE  Synced'
<1>1. DoneInSync'
  <2> SUFFICES ASSUME Undisturbed, ~failed'
               PROVE  /\ \A q \in Declared(desired) \ todoP :
                            RowInSync(desired[q], live[q])
                      /\ \A k \in Wanted(desired) \ todoM' :
                            \/ PresetInSync(desired, k[1], k[2])'
                            \/ pc' = "post" /\ cur' = k
    BY DEF DoneInSync, Undisturbed, Wanted, Declared, ProviderInSync, PresetInSync
  <2>1. DoneInSync!2
    BY DEF Synced, DoneInSync
  <2>2. \A k \in Wanted(desired) : k[1] \in Providers /\ k[2] \in Models
    BY DEF Wanted
  <2> QED
    BY <2>1, <2>2 DEF ProviderInSync
<1>2. CleanExitConverges'
  <2> SUFFICES ASSUME Stands
               PROVE  Converged'
    BY DEF CleanExitConverges
  <2>1. Undisturbed /\ desired = file /\ Converged
    BY DEF Undisturbed, FileLoaded, Synced, CleanExitConverges, Applying
  <2>2. \A k \in Wanted(file) : PresetInSync(file, k[1], k[2])'
    BY <2>1 DEF Converged, Wanted, PresetInSync
  <2> QED
    BY <2>1, <2>2 DEF Converged, Declared, Wanted, ProviderInSync
<1> QED
  BY <1>1, <1>2 DEF Synced

(* Every step keeps what is done in sync, and a clean exit converged.       *)
LEMMA SyncedStep ==
    ASSUME TypeOK, ProvidersFirst, FileLoaded, SnapshotsTrue, Synced, [Next]_vars
    PROVE  Synced'
<1>1. ASSUME NEW apply \in BOOLEAN, NEW rotate \in BOOLEAN, Start(apply, rotate)
      PROVE  Synced'
  BY <1>1 DEF Start, Synced, DoneInSync, CleanExitConverges, Converged, Applying,
              ProviderInSync, PresetInSync, server, hand
<1>2. CASE ListProviders
  BY <1>2, SyncedIdle
     DEF ListProviders, Ends, Synced, DoneInSync, CleanExitConverges, Converged,
         Applying, ProviderInSync, PresetInSync, server, hand
<1>3. CASE ListModels
  BY <1>3 DEF ListModels, ProvidersFirst, Synced, DoneInSync, CleanExitConverges,
              Converged, Applying, ProviderInSync, PresetInSync, server, hand
<1>4. ASSUME NEW p \in Providers, SkipProvider(p)
      PROVE  Synced'
  <2>1. RowInSync(desired[p], snapP[p])
    BY <1>4, SkippedInSync DEF SkipProvider
  <2>2. Undisturbed => live[p] = snapP[p]
    BY <1>4 DEF SnapshotsTrue, ProviderSnapshotTrue, SkipProvider, TakeProvider,
                Applying
  <2> QED
    BY <1>4, <2>1, <2>2, SyncedProvider
       DEF SkipProvider, Answered, loaded, hand, server, TypeOK
<1>5. ASSUME NEW p \in Providers, CreateProvider(p)
      PROVE  Synced'
  <2>1. CASE Ends("abort") /\ UNCHANGED <<server, hand, calm>>
    BY <2>1, SyncedIdle DEF Ends, hand
  <2>2. CASE TakeProvider(p) /\ Answered(FALSE) /\ UNCHANGED server
    BY <2>2, SyncedProvider DEF Answered, loaded, hand, server, TypeOK
  <2>3. CASE /\ desired[p].kind = "keyed" => desired[p].key # NoKey
             /\ TakeProvider(p)
             /\ live' = [live EXCEPT ![p] = Created(p)]
             /\ ~live[p].up
             /\ \E ack \in BOOLEAN : Answered(ack)
             /\ UNCHANGED presets
    <3>1. live'[p] = Created(p) /\ \A q \in Providers \ {p} : live'[q] = live[q]
      BY <2>3 DEF TypeOK
    <3>2. RowInSync(desired[p], live'[p])
      BY <2>3, <3>1, CreatedInSync
    <3> QED
      BY <2>3, <3>1, <3>2, SyncedProvider DEF Answered, loaded, hand, TypeOK
  <2> QED
    BY <1>5, <2>1, <2>2, <2>3 DEF CreateProvider, server
<1>6. ASSUME NEW p \in Providers, UpdateProvider(p)
      PROVE  Synced'
  <2>1. CASE UNCHANGED live /\ Answered(FALSE)
    BY <1>6, <2>1, SyncedProvider
       DEF UpdateProvider, Answered, loaded, hand, TypeOK
  <2>2. CASE /\ live[p].up
             /\ live' = [live EXCEPT ![p] = Patched(p)]
             /\ \E ack \in BOOLEAN : Answered(ack)
    <3>1. live'[p] = Patched(p) /\ \A q \in Providers \ {p} : live'[q] = live[q]
      BY <2>2 DEF TypeOK
    <3>2. Undisturbed => live[p] = snapP[p]
      BY <1>6 DEF SnapshotsTrue, ProviderSnapshotTrue, UpdateProvider,
                  TakeProvider, Applying
    <3>3. Undisturbed => RowInSync(desired[p], live'[p]) /\ live'[p].gen = live[p].gen
      BY <2>2, <3>1, <3>2, PatchedInSync
    <3> QED
      BY <1>6, <2>2, <3>1, <3>3, SyncedProvider
         DEF UpdateProvider, Answered, loaded, hand, TypeOK
  <2> QED
    BY <1>6, <2>1, <2>2 DEF UpdateProvider
<1>7. ASSUME NEW p \in Providers, NEW m \in Models, UpdatePreset(p, m)
      PROVE  Synced'
  <2> DEFINE want == desired[p].models[m].spec
  <2>1. PICK i \in Matching(p, m) :
           \/ /\ UNCHANGED presets
              /\ failed' \/ InStep(want, snapM[i].spec)
           \/ /\ ~InStep(want, snapM[i].spec)
              /\ PatchedSpec(want, snapM[i].spec, presets[i].spec) \in [PresetFields -> Specs]
              /\ presets' = [presets EXCEPT ![i] = [@ EXCEPT !.spec =
                                PatchedSpec(want, snapM[i].spec, presets[i].spec)]]
    BY <1>7, UpdateWrites
  <2>2. /\ i \in PresetIds /\ snapM[i].st = "up" /\ snapP[p].up
        /\ snapM[i].prov = p /\ snapM[i].gen = snapP[p].gen /\ snapM[i].model = m
    BY DEF Matching
  <2>3. /\ pc = "apply" /\ pc' = "apply" /\ <<p, m>> \in todoM
        /\ todoM' = todoM \ {<<p, m>>}
        /\ failed => failed'
        /\ UNCHANGED <<file, live, desired, calm, todoP>>
    BY <1>7 DEF UpdatePreset, TakePreset, Answered, loaded, hand
  <2>4. Undisturbed =>
          /\ presets[i].st = "up" /\ presets[i].prov = p /\ presets[i].model = m
          /\ presets[i].gen = live[p].gen /\ presets[i].spec = snapM[i].spec
    BY <2>2, <2>3 DEF SnapshotsTrue, ProviderSnapshotTrue, PresetSnapshotTrue,
                      Applying
  <2>5. \A j \in PresetIds : j # i => presets'[j] = presets[j]
    BY <2>1, <2>2 DEF TypeOK
  <2>6. want \in [PresetFields -> Specs \cup {NotGiven}]
    BY WantTyped
  <2> HIDE DEF want
  <2>7. /\ presets'[i].st = presets[i].st /\ presets'[i].prov = presets[i].prov
        /\ presets'[i].gen = presets[i].gen
        /\ presets'[i].model = presets[i].model
        /\ \/ UNCHANGED presets /\ (failed' \/ InStep(want, snapM[i].spec))
           \/ presets'[i].spec = PatchedSpec(want, snapM[i].spec, presets[i].spec)
    BY <2>1, <2>2, SpecSaved DEF TypeOK
  <2>11. presets[i].spec \in [PresetFields -> Specs]
    BY <2>2 DEF TypeOK, LivePreset
  <2>12. /\ InStep(want, presets[i].spec) => InStep(want, presets'[i].spec)
         /\ Undisturbed => failed' \/ InStep(want, presets'[i].spec)
    BY <2>4, <2>6, <2>7, <2>11, PatchTyped
  <2>8. ASSUME Undisturbed, NEW q \in Providers, NEW n \in Models,
               PresetInSync(desired, q, n)
        PROVE  PresetInSync(desired, q, n)'
    <3>1. PICK j \in PresetIds :
             /\ presets[j].st = "up" /\ presets[j].prov = q
             /\ presets[j].gen = live[q].gen /\ presets[j].model = n
             /\ InStep(desired[q].models[n].spec, presets[j].spec)
      BY <2>8 DEF PresetInSync
    <3>2. /\ presets'[j].st = "up" /\ presets'[j].prov = q
          /\ presets'[j].gen = live[q].gen /\ presets'[j].model = n
          /\ InStep(desired[q].models[n].spec, presets'[j].spec)
      <4>1. CASE j # i
        BY <2>5, <3>1, <4>1
      <4>2. CASE j = i
        <5>1. q = p /\ n = m
          BY <2>4, <2>8, <3>1, <4>2
        <5> QED
          BY <2>7, <2>12, <3>1, <4>2, <5>1 DEF want
      <4> QED
        BY <4>1, <4>2
    <3> QED
      BY <2>3, <3>2 DEF PresetInSync
  <2>9. ASSUME Undisturbed, ~failed'
        PROVE  PresetInSync(desired, p, m)'
    <3>1. InStep(desired[p].models[m].spec, presets'[i].spec)
      BY <2>9, <2>12 DEF want
    <3> QED
      BY <2>2, <2>3, <2>4, <2>7, <2>9, <3>1 DEF PresetInSync
  <2>10. \A k \in Wanted(desired) \ todoM' : k # <<p, m>> => k \notin todoM
    BY <2>3
  <2> QED
    BY <2>3, <2>8, <2>9, <2>10, SyncedPreset DEF Applying
<1>8. ASSUME NEW p \in Providers, NEW m \in Models, ResolveProvider(p, m)
      PROVE  Synced'
  <2>1. CASE Ends("abort") /\ UNCHANGED <<hand, calm>>
    BY <1>8, <2>1, SyncedIdle DEF ResolveProvider, Ends, hand
  <2>2. CASE TakePreset(p, m) /\ Answered(FALSE) /\ UNCHANGED <<pc, cur, pid>>
    BY <1>8, <2>2, SyncedPreset
       DEF ResolveProvider, TakePreset, Answered, loaded, hand, server, Applying,
           PresetInSync
  <2>3. CASE /\ TakePreset(p, m) /\ pc' = "post" /\ cur' = <<p, m>>
             /\ Answered(TRUE)
    BY <1>8, <2>3, SyncedPreset
       DEF ResolveProvider, TakePreset, Answered, loaded, hand, server, Applying,
           PresetInSync
  <2> QED
    BY <1>8, <2>1, <2>2, <2>3 DEF ResolveProvider
<1>9. CASE CreatePreset
  <2>1. /\ pc = "post" /\ pc' = "apply" /\ (failed => failed')
        /\ UNCHANGED <<file, live, desired, calm, todoP, todoM, cur>>
    BY <1>9 DEF CreatePreset, Answered, loaded, hand
  <2>2. CASE UNCHANGED presets /\ failed'
    BY <2>1, <2>2, SyncedPreset DEF Applying, PresetInSync
  <2>3. CASE ~(UNCHANGED presets /\ failed')
    <3>1. PICK i \in PresetIds, new \in LivePreset :
             /\ presets[i].st = "free" /\ live[cur[1]].gen = pid
             /\ new.st = "up" /\ new.prov = cur[1] /\ new.gen = pid /\ new.model = cur[2]
             /\ InStep(desired[cur[1]].models[cur[2]].spec, new.spec)
             /\ presets' = [presets EXCEPT ![i] = new]
      BY <1>9, <2>3, CreateWrites
    <3>2. \A j \in PresetIds : presets[j].st # "free" => presets'[j] = presets[j]
      BY <3>1 DEF TypeOK
    <3>3. presets'[i] = new
      BY <3>1 DEF TypeOK
    <3>4. PresetInSync(desired, cur[1], cur[2])'
      BY <2>1, <3>1, <3>3 DEF PresetInSync
    <3>5. \A q \in Providers, n \in Models :
             PresetInSync(desired, q, n) => PresetInSync(desired, q, n)'
      BY <2>1, <3>2 DEF PresetInSync
    <3> QED
      BY <2>1, <3>4, <3>5, SyncedPreset DEF Applying
  <2> QED
    BY <2>2, <2>3
<1>10. CASE Finish
  <2>1. CASE Stands' /\ ~Stands
    <3>1. /\ pc = "apply" /\ todoP = {} /\ todoM = {} /\ ~failed /\ Undisturbed
          /\ UNCHANGED <<file, live, presets>> /\ pc' = "idle"
      BY <1>10, <2>1 DEF Finish, Ends, NoItems, Undisturbed, server, hand
    <3>2. desired = file
      BY <3>1 DEF FileLoaded
    <3>3. Converged
      BY <3>1, <3>2 DEF Synced, DoneInSync, Applying, Converged
    <3>4. Converged'
      BY <3>1, <3>3 DEF Converged, ProviderInSync, PresetInSync
    <3> QED
      BY <3>1, <3>4 DEF Synced, DoneInSync, Applying, CleanExitConverges
  <2> QED
    BY <1>10, <2>1, SyncedIdle DEF Finish, Ends, hand
<1>11. CASE DryRun \/ Crash
  BY <1>11, SyncedIdle DEF DryRun, Crash, Ends, hand
<1>12. CASE Hands
  BY <1>12, HandsDisturb
     DEF Synced, DoneInSync, CleanExitConverges, Undisturbed
<1>13. CASE UNCHANGED vars
  BY <1>13 DEF vars, Synced, DoneInSync, CleanExitConverges, Converged, Undisturbed,
               Applying, ProviderInSync, PresetInSync
<1> QED
  BY <1>1, <1>2, <1>3, <1>4, <1>5, <1>6, <1>7, <1>8, <1>9, <1>10, <1>11, <1>12,
     <1>13 DEF Next, Reconcile

(* Exit status 0 of reconcile-ai-providers.py --apply, with nobody editing *)
(* since the run started, means the live tables are as the file says.      *)
THEOREM CleanExit == Spec => []CleanExitConverges
<1>1. Init => Synced
  BY DEF Init, Synced, DoneInSync, CleanExitConverges, Applying
<1>2. TypeOK /\ ProvidersFirst /\ FileLoaded /\ SnapshotsTrue /\ Synced
        /\ [Next]_vars => Synced'
  BY SyncedStep
<1>3. Synced => CleanExitConverges
  BY DEF Synced
<1> QED
  BY <1>1, <1>2, <1>3, TypeCorrect, ProvidersFirstInv, FileLoadedInv,
     SnapshotsTrueInv, PTL DEF Spec

(* A row a request of the script writes has the declared key if it sends   *)
(* one, and keeps its keys otherwise.                                      *)
LEMMA KeysWritten ==
    ASSUME NEW p \in Providers
    PROVE  /\ KeyAsDeclared(desired[p], Created(p))
           /\ KeyAsDeclared(desired[p], live[p]) => KeyAsDeclared(desired[p], Patched(p))
           /\ opts.rotate => KeyAsDeclared(desired[p], Patched(p))
BY DEF KeyAsDeclared, Created, Patched, SetKey

Rotating == RotatedDone /\ KeysRotated

(* A step that takes up provider p.                                        *)
LEMMA RotatingProvider ==
    ASSUME TypeOK, FileLoaded, Rotating, NEW p \in Providers, TakeProvider(p),
           UNCHANGED <<file, desired, opts, calm>>, failed => failed',
           \A q \in Providers \ {p} : live'[q] = live[q],
           failed' \/ ~opts.rotate \/ KeyAsDeclared(desired[p], live'[p]),
           KeyAsDeclared(desired[p], live[p]) => KeyAsDeclared(desired[p], live'[p])
    PROVE  Rotating'
<1>1. pc = "apply" /\ pc' = "apply" /\ todoP' = todoP \ {p}
  BY DEF TakeProvider
<1>2. RotatedDone'
  <2> SUFFICES ASSUME Undisturbed, ~failed', opts.rotate,
                      NEW q \in Declared(desired) \ todoP'
               PROVE  KeyAsDeclared(desired[q], live'[q])
    BY <1>1 DEF RotatedDone, Undisturbed, Declared
  <2>1. q \in Providers /\ ~failed
    BY DEF Declared
  <2>2. q # p => KeyAsDeclared(desired[q], live[q])
    BY <1>1, <2>1 DEF Rotating, RotatedDone, Applying
  <2> QED
    BY <2>1, <2>2
<1>3. KeysRotated'
  <2> SUFFICES ASSUME calm = "rotated", NEW q \in Declared(file)
               PROVE  KeyAsDeclared(file[q], live'[q])
    BY DEF KeysRotated, Declared
  <2>1. desired = file /\ q \in Providers /\ KeyAsDeclared(file[q], live[q])
    BY <1>1 DEF FileLoaded, Undisturbed, Rotating, KeysRotated, Declared
  <2> QED
    BY <2>1
<1> QED
  BY <1>2, <1>3 DEF Rotating

(* A step that leaves the providers and what is done of them alone.        *)
LEMMA RotatingStays ==
    ASSUME Rotating, UNCHANGED <<live, file>>, calm' = "rotated" => calm = "rotated",
           \/ pc' = "idle" \/ pc' = "listProviders" \/ pc' = "listModels"
           \/ /\ Applying /\ UNCHANGED <<desired, opts, todoP, calm>>
              /\ failed => failed'
    PROVE  Rotating'
BY DEF Rotating, RotatedDone, KeysRotated, Applying, Undisturbed, Declared

(* Every step keeps the keys a rotation set.                               *)
LEMMA RotatingStep ==
    ASSUME TypeOK, ProvidersFirst, FileLoaded, Rotating, [Next]_vars
    PROVE  Rotating'
<1>1. ASSUME NEW apply \in BOOLEAN, NEW rotate \in BOOLEAN, Start(apply, rotate)
      PROVE  Rotating'
  BY <1>1, RotatingStays DEF Start, server, hand
<1>2. CASE ListProviders \/ DryRun \/ Crash
  BY <1>2, RotatingStays DEF ListProviders, DryRun, Crash, Ends, server, hand
<1>3. CASE ListModels
  <2>1. todoP = Declared(desired) /\ UNCHANGED <<desired, todoP, file, live, calm>>
    BY <1>3 DEF ListModels, ProvidersFirst, server, hand
  <2> QED
    BY <2>1 DEF Rotating, RotatedDone, KeysRotated, Declared
<1>4. ASSUME NEW p \in Providers, SkipProvider(p)
      PROVE  Rotating'
  <2>1. opts.rotate => KeyAsDeclared(desired[p], live[p])
    BY <1>4 DEF SkipProvider, ProviderAction, SetKey, KeyAsDeclared
  <2>2. UNCHANGED <<live, file, desired, opts, calm, failed>>
    BY <1>4 DEF SkipProvider, Answered, loaded, hand, server, TypeOK
  <2> QED
    BY <1>4, <2>1, <2>2, RotatingProvider DEF SkipProvider, TypeOK
<1>5. ASSUME NEW p \in Providers, CreateProvider(p) \/ UpdateProvider(p)
      PROVE  Rotating'
  <2>1. CASE Ends("abort") /\ UNCHANGED <<server, hand, calm>>
    BY <2>1, RotatingStays DEF Ends, server, hand
  <2>2. CASE ~(Ends("abort") /\ UNCHANGED <<server, hand, calm>>)
    <3>1. /\ TakeProvider(p) /\ \E ack \in BOOLEAN : Answered(ack)
          /\ \/ UNCHANGED live /\ Answered(FALSE)
             \/ live' = [live EXCEPT ![p] = Created(p)]
             \/ live' = [live EXCEPT ![p] = Patched(p)]
      BY <1>5, <2>2 DEF CreateProvider, UpdateProvider, server
    <3>2. UNCHANGED <<file, desired, opts, calm>> /\ (failed => failed')
      BY <3>1 DEF Answered, loaded, hand
    <3>3. /\ \A q \in Providers \ {p} : live'[q] = live[q]
          /\ \/ live'[p] = live[p] /\ failed'
             \/ live'[p] = Created(p)
             \/ live'[p] = Patched(p)
      BY <3>1 DEF TypeOK, Answered
    <3> QED
      BY <3>1, <3>2, <3>3, KeysWritten, RotatingProvider
  <2> QED
    BY <2>1, <2>2
<1>6. ASSUME NEW p \in Providers, NEW m \in Models,
             UpdatePreset(p, m) \/ ResolveProvider(p, m)
      PROVE  Rotating'
  BY <1>6, RotatingStays DEF UpdatePreset, ResolveProvider, TakePreset, Answered, Ends,
     loaded, hand, server, Applying
<1>7. CASE CreatePreset
  BY <1>7, RotatingStays DEF CreatePreset, Answered, loaded, hand, Applying
<1>8. CASE Finish
  <2>1. CASE calm' = "rotated" /\ calm # "rotated"
    <3>1. /\ pc = "apply" /\ todoP = {} /\ ~failed /\ Undisturbed /\ opts.rotate
          /\ UNCHANGED <<file, live>> /\ pc' = "idle"
      BY <1>8, <2>1 DEF Finish, Ends, NoItems, Undisturbed, server, hand
    <3>2. desired = file
      BY <3>1 DEF FileLoaded
    <3>3. \A p \in Declared(file) : KeyAsDeclared(file[p], live[p])
      BY <3>1, <3>2 DEF Rotating, RotatedDone, Applying
    <3> QED
      BY <3>1, <3>3 DEF Rotating, RotatedDone, KeysRotated, Applying, Declared
  <2> QED
    BY <1>8, <2>1, RotatingStays DEF Finish, Ends, server, hand
<1>9. CASE Hands
  BY <1>9, HandsDisturb DEF Rotating, RotatedDone, KeysRotated, Undisturbed
<1>10. CASE UNCHANGED vars
  BY <1>10 DEF vars, Rotating, RotatedDone, KeysRotated, Applying, Undisturbed, Declared
<1> QED
  BY <1>1, <1>2, <1>3, <1>4, <1>5, <1>6, <1>7, <1>8, <1>9, <1>10 DEF Next, Reconcile

(* Exit status 0 under --rotate-keys, with nobody editing since the run    *)
(* started, means every keyed provider of the file has exactly the key of  *)
(* the environment, whatever key of the same rendering it had before.      *)
THEOREM RotationExact == Spec => []KeysRotated
<1>1. Init => Rotating
  BY DEF Init, Rotating, RotatedDone, KeysRotated, Applying
<1>2. TypeOK /\ ProvidersFirst /\ FileLoaded /\ Rotating /\ [Next]_vars => Rotating'
  BY RotatingStep
<1>3. Rotating => KeysRotated
  BY DEF Rotating
<1> QED
  BY <1>1, <1>2, <1>3, TypeCorrect, ProvidersFirstInv, FileLoadedInv, PTL DEF Spec

-----------------------------------------------------------------------------
(* What a request of the reconcile may touch, also while somebody edits by *)
(* hand; and what a second run does.                                       *)


(* A run applies only under --apply, and only what the file it loaded      *)
(* declares.                                                               *)
PlanDeclared ==
    /\ Applying => opts.apply
    /\ pc # "idle" => todoP \subseteq Declared(desired) /\ todoM \subseteq Wanted(desired)
    /\ pc = "post" => cur \in Wanted(desired)

(* A listed preset's id never comes to mean another preset, not even when  *)
(* the preset or its provider is deleted by hand.                          *)
ListedRowsStay ==
    Applying => \A i \in PresetIds : snapM[i].st = "up" =>
        /\ presets[i].st # "free"
        /\ presets[i].prov = snapM[i].prov /\ presets[i].model = snapM[i].model

(* The plan of a run stays inside the file it loaded.                      *)
LEMMA PlanDeclaredInv == Spec => []PlanDeclared
<1>1. Init => PlanDeclared
  BY DEF Init, PlanDeclared, Applying
<1>2. TypeOK /\ PlanDeclared /\ [Next]_vars => PlanDeclared'
  <2> SUFFICES ASSUME TypeOK, PlanDeclared, [Next]_vars
               PROVE  PlanDeclared'
    OBVIOUS
  <2> USE DEF PlanDeclared, Applying, Declared, Wanted
  <2>1. ASSUME NEW apply \in BOOLEAN, NEW rotate \in BOOLEAN, Start(apply, rotate)
        PROVE  PlanDeclared'
    BY <2>1 DEF Start
  <2>2. CASE ListProviders \/ ListModels \/ DryRun
    BY <2>2 DEF ListProviders, ListModels, DryRun, Ends
  <2>3. ASSUME NEW p \in Providers,
               SkipProvider(p) \/ CreateProvider(p) \/ UpdateProvider(p)
        PROVE  PlanDeclared'
    BY <2>3 DEF SkipProvider, CreateProvider, UpdateProvider, TakeProvider,
                Answered, Ends, loaded
  <2>4. ASSUME NEW p \in Providers, NEW m \in Models,
               UpdatePreset(p, m) \/ ResolveProvider(p, m)
        PROVE  PlanDeclared'
    BY <2>4 DEF UpdatePreset, ResolveProvider, TakePreset, Answered, Ends, loaded
  <2>5. CASE CreatePreset \/ Finish \/ Crash
    BY <2>5 DEF CreatePreset, Finish, Crash, Answered, Ends, loaded
  <2>6. CASE Hands \/ UNCHANGED vars
    BY <2>6, HandsDisturb DEF run, vars
  <2> QED
    BY <2>1, <2>2, <2>3, <2>4, <2>5, <2>6 DEF Next, Reconcile
<1> QED
  BY <1>1, <1>2, TypeCorrect, PTL DEF Spec

(* Nobody moves a preset from one provider or model to another.            *)
LEMMA RowsStay ==
    ASSUME TypeOK, [Next]_vars, NEW i \in PresetIds, presets[i].st # "free"
    PROVE  /\ presets'[i].st # "free"
           /\ presets'[i].prov = presets[i].prov
           /\ presets'[i].model = presets[i].model
<1> presets \in [PresetIds -> LivePreset]
  BY DEF TypeOK
<1>1. ASSUME NEW p \in Providers, NEW m \in Models, UpdatePreset(p, m)
      PROVE  /\ presets'[i].st # "free"
             /\ presets'[i].prov = presets[i].prov
             /\ presets'[i].model = presets[i].model
  <2>1. PICK j \in PresetIds :
           \/ UNCHANGED presets
           \/ \E s \in [PresetFields -> Specs] :
                 presets' = [presets EXCEPT ![j] = [@ EXCEPT !.spec = s]]
    BY <1>1, UpdateWrites
  <2> QED
    BY <2>1, SpecSaved
<1>2. CASE CreatePreset
  BY <1>2, CreateWrites
<1>3. ASSUME NEW j \in PresetIds, DashboardSavesPreset(j)
      PROVE  /\ presets'[i].st # "free"
             /\ presets'[i].prov = presets[i].prov
             /\ presets'[i].model = presets[i].model
  <2>1. CASE presets' = [presets EXCEPT ![j].st = "gone"]
    BY <2>1 DEF LivePreset
  <2>2. ASSUME NEW f \in PresetFields, NEW s \in Specs,
               presets' = [presets EXCEPT ![j].spec = [@ EXCEPT ![f] = s]]
        PROVE  /\ presets'[i].st # "free"
               /\ presets'[i].prov = presets[i].prov
               /\ presets'[i].model = presets[i].model
    BY <2>2 DEF LivePreset
  <2> QED
    BY <1>3, <2>1, <2>2 DEF DashboardSavesPreset
<1>4. ASSUME NEW p \in Providers, DashboardDeletesProvider(p)
      PROVE  /\ presets'[i].st # "free"
             /\ presets'[i].prov = presets[i].prov
             /\ presets'[i].model = presets[i].model
  <2>1. CASE UNCHANGED presets
    BY <2>1
  <2>2. CASE presets' = [j \in PresetIds |->
                 IF presets[j].st = "up" /\ presets[j].prov = p
                 THEN [presets[j] EXCEPT !.st = "gone"] ELSE presets[j]]
    <3>1. presets'[i] = presets[i] \/ presets'[i] = [presets[i] EXCEPT !.st = "gone"]
      BY <2>2
    <3> QED
      BY <3>1 DEF LivePreset
  <2> QED
    BY <1>4, <2>1, <2>2 DEF DashboardDeletesProvider
<1>5. CASE UNCHANGED presets
  BY <1>5
<1> QED
  BY <1>1, <1>2, <1>3, <1>4, <1>5
     DEF Next, Reconcile, Hands, Start, ListProviders, ListModels, DryRun,
         SkipProvider, CreateProvider, UpdateProvider, ResolveProvider, Finish,
         Crash, EditFile, DashboardSavesProvider, DashboardCreatesProvider,
         server, vars

(* The ids of the listing stay good for as long as the run uses them.      *)
LEMMA ListedRowsStayInv == Spec => []ListedRowsStay
<1>1. Init => ListedRowsStay
  BY DEF Init, ListedRowsStay, Applying
<1>2. TypeOK /\ ListedRowsStay /\ [Next]_vars => ListedRowsStay'
  <2> SUFFICES ASSUME TypeOK, ListedRowsStay, [Next]_vars, Applying',
                      NEW i \in PresetIds, snapM'[i].st = "up"
               PROVE  /\ presets'[i].st # "free"
                      /\ presets'[i].prov = snapM'[i].prov
                      /\ presets'[i].model = snapM'[i].model
    BY DEF ListedRowsStay
  <2>1. CASE ListModels
    <3>1. \A j \in PresetIds : NoSnapM[j].st = "free"
      BY DEF NoSnapM
    <3> QED
      BY <2>1, <3>1 DEF ListModels, server
  <2>2. CASE ~ListModels
    <3>1. Applying /\ UNCHANGED snapM
      BY <2>2, HandsDisturb
         DEF Next, Reconcile, Applying, Start, ListProviders, DryRun, Ends,
             SkipProvider, CreateProvider, UpdateProvider, TakeProvider,
             UpdatePreset, ResolveProvider, TakePreset, CreatePreset, Answered,
             Finish, Crash, loaded, run, vars
    <3> QED
      BY <3>1, RowsStay DEF ListedRowsStay
  <2> QED
    BY <2>1, <2>2
<1> QED
  BY <1>1, <1>2, TypeCorrect, PTL DEF Spec

-----------------------------------------------------------------------------
(* Hands always count as an edit.                                          *)
LEMMA HandsEdit ==
    ASSUME TypeOK, Hands
    PROVE  edits' # edits
<1>1. ByHand
  BY DEF Hands, EditFile, DashboardSavesProvider, DashboardDeletesProvider,
         DashboardCreatesProvider, DashboardSavesPreset
<1>2. edits \in Nat /\ edits' = edits + 1
  BY <1>1, ConstantsOK DEF ByHand, TypeOK
<1> QED
  BY <1>2

(* No request of the script touches a provider the file does not declare,  *)
(* deletes one, or moves a compared field to anything but the file's value *)
(* -- whatever was edited since the listing.                               *)
THEOREM ScopeOfProviders == Spec => OnlyDeclaredProviders
<1>1. TypeOK /\ PlanDeclared /\ [Next]_vars =>
        [UNCHANGED edits =>
            \A p \in Providers : live'[p] # live[p] =>
                /\ desired[p].declared /\ opts.apply /\ live'[p].up
                /\ live'[p].enabled \in {live[p].enabled, desired[p].enabled}
                /\ live'[p].conf \in {live[p].conf, desired[p].conf}
                /\ live[p].up => live'[p].gen = live[p].gen]_vars
  <2> DEFINE Scope(q) ==
          /\ desired[q].declared /\ opts.apply /\ live'[q].up
          /\ live'[q].enabled \in {live[q].enabled, desired[q].enabled}
          /\ live'[q].conf \in {live[q].conf, desired[q].conf}
          /\ live[q].up => live'[q].gen = live[q].gen
  <2> SUFFICES ASSUME TypeOK, PlanDeclared, Next, UNCHANGED edits,
                      NEW q \in Providers, live'[q] # live[q]
               PROVE  Scope(q)
    BY DEF vars
  <2>1. PICK p \in Providers : CreateProvider(p) \/ UpdateProvider(p)
    BY HandsEdit
       DEF Next, Reconcile, Start, ListProviders, ListModels, DryRun, SkipProvider,
           UpdatePreset, ResolveProvider, CreatePreset, Finish, Crash, server
  <2>2. /\ p = q
        /\ \/ ~live[q].up /\ live'[q] = Created(q)
           \/ live[q].up /\ live'[q] = Patched(q)
    BY <2>1 DEF CreateProvider, UpdateProvider, server, TypeOK
  <2>3. desired[q].declared /\ opts.apply
    BY <2>1, <2>2
       DEF CreateProvider, UpdateProvider, TakeProvider, server, PlanDeclared,
           Applying, Declared
  <2>4. CASE ~live[q].up /\ live'[q] = Created(q)
    BY <2>3, <2>4 DEF Created
  <2>5. CASE live[q].up /\ live'[q] = Patched(q)
    BY <2>3, <2>5 DEF Patched
  <2> QED
    BY <2>2, <2>4, <2>5
<1> QED
  BY <1>1, TypeCorrect, PlanDeclaredInv, PTL DEF Spec, OnlyDeclaredProviders

(* The only preset requests are for presets the file declares under a      *)
(* provider it enables; one that exists is not deleted or moved, and each  *)
(* of its fields is left as it is or set to what the file gives -- also    *)
(* when it was edited or deleted by hand since it was listed.              *)
THEOREM ScopeOfPresets == Spec => OnlyWantedPresets
<1> DEFINE Scope(i, row, q) ==
      LET want == desired[q.prov].models[q.model].spec
      IN /\ <<q.prov, q.model>> \in Wanted(desired)
         /\ q.st = "up" /\ row.st # "gone"
         /\ row.st = "up" =>
               /\ q = [row EXCEPT !.spec = q.spec]
               /\ \A f \in PresetFields : q.spec[f] \in {row.spec[f], want[f]}
         /\ row.st = "free" => InStep(want, q.spec)
<1>1. TypeOK /\ PlanDeclared /\ ListedRowsStay /\ [Next]_vars =>
        [UNCHANGED edits =>
            \A i \in PresetIds : presets'[i] # presets[i] =>
                LET q == presets'[i]
                    want == desired[q.prov].models[q.model].spec
                IN /\ <<q.prov, q.model>> \in Wanted(desired)
                   /\ q.st = "up" /\ presets[i].st # "gone"
                   /\ presets[i].st = "up" =>
                         /\ q = [presets[i] EXCEPT !.spec = q.spec]
                         /\ \A f \in PresetFields :
                               q.spec[f] \in {presets[i].spec[f], want[f]}
                   /\ presets[i].st = "free" => InStep(want, q.spec)]_vars
  <2> SUFFICES ASSUME TypeOK, PlanDeclared, ListedRowsStay, Next, UNCHANGED edits,
                      NEW i \in PresetIds, presets'[i] # presets[i]
               PROVE  Scope(i, presets[i], presets'[i])
    BY DEF vars
  <2>1. CreatePreset \/ \E p \in Providers, m \in Models : UpdatePreset(p, m)
    BY HandsEdit
       DEF Next, Reconcile, Start, ListProviders, ListModels, DryRun, SkipProvider,
           CreateProvider, UpdateProvider, ResolveProvider, Finish, Crash, server
  <2>2. CASE CreatePreset
    <3>1. PICK j \in PresetIds, q \in LivePreset :
             /\ presets[j].st = "free"
             /\ q.st = "up" /\ q.prov = cur[1] /\ q.model = cur[2]
             /\ InStep(desired[cur[1]].models[cur[2]].spec, q.spec)
             /\ presets' = [presets EXCEPT ![j] = q]
      BY <2>2, CreateWrites
    <3>2. i = j /\ presets'[i] = q
      BY <3>1 DEF TypeOK
    <3>3. <<cur[1], cur[2]>> \in Wanted(desired)
      <4>1. cur \in Wanted(desired)
        BY <2>2 DEF CreatePreset, PlanDeclared
      <4> QED
        BY <4>1 DEF Wanted
    <3> QED
      BY <3>1, <3>2, <3>3
  <2>3. ASSUME NEW p \in Providers, NEW m \in Models, UpdatePreset(p, m)
        PROVE  Scope(i, presets[i], presets'[i])
    <3> DEFINE want == desired[p].models[m].spec
               s(j) == PatchedSpec(want, snapM[j].spec, presets[j].spec)
    <3>1. PICK j \in Matching(p, m) :
             \/ UNCHANGED presets
             \/ /\ presets[j].st = "up" /\ s(j) \in [PresetFields -> Specs]
                /\ presets' = [presets EXCEPT ![j] = [@ EXCEPT !.spec = s(j)]]
      BY <2>3, UpdateWrites
    <3>2. /\ i = j /\ presets[i].st = "up" /\ s(i) \in [PresetFields -> Specs]
          /\ presets'[i] = [presets[i] EXCEPT !.spec = s(i)]
      BY <3>1 DEF Matching, TypeOK
    <3>3. presets[i].prov = p /\ presets[i].model = m
      BY <2>3, <3>2 DEF UpdatePreset, TakePreset, ListedRowsStay, Matching, Applying
    <3>4. <<p, m>> \in Wanted(desired)
      BY <2>3 DEF UpdatePreset, TakePreset, PlanDeclared
    <3>5. \A f \in PresetFields : s(i)[f] \in {presets[i].spec[f], want[f]}
      <4>1. presets[i].spec \in [PresetFields -> Specs]
        BY DEF TypeOK, LivePreset
      <4> QED
        BY <4>1, WantTyped, PatchTyped
    <3> HIDE DEF s, want
    <3>6. /\ presets'[i].st = "up" /\ presets'[i].prov = p
          /\ presets'[i].model = m /\ presets'[i].spec = s(i)
      BY <3>2, <3>3, SpecSaved DEF TypeOK
    <3> QED
      BY <3>2, <3>4, <3>5, <3>6 DEF want
  <2> QED
    BY <2>1, <2>2, <2>3
<1> QED
  BY <1>1, TypeCorrect, PlanDeclaredInv, ListedRowsStayInv, PTL
     DEF Spec, OnlyWantedPresets

(* While the result of a clean run stands, a run that does not rotate keys *)
(* finds every provider in step and sends nothing.                         *)
THEOREM SecondRunIsNoOp == Spec => ProvidersIdempotent
<1>1. TypeOK /\ PlanDeclared /\ FileLoaded /\ SnapshotsTrue /\ CleanExitConverges
        /\ [Next]_vars
        => [Stands /\ Stands' /\ ~opts.rotate
              => UNCHANGED live]_vars
  <2> SUFFICES ASSUME TypeOK, PlanDeclared, FileLoaded, SnapshotsTrue,
                      CleanExitConverges, Next,
                      Stands, Stands', ~opts.rotate
               PROVE  UNCHANGED live
    BY DEF vars
  <2>1. ASSUME NEW p \in Providers, p \in todoP, pc = "apply"
        PROVE  ProviderAction(p) = "NOOP"
    <3>1. desired = file /\ snapP[p] = live[p]
      BY <2>1 DEF FileLoaded, Undisturbed, Applying, SnapshotsTrue,
                  ProviderSnapshotTrue
    <3>2. RowInSync(desired[p], snapP[p])
      BY <2>1, <3>1 DEF CleanExitConverges, Converged, ProviderInSync,
                        PlanDeclared
    <3>3. opts.rotate = FALSE
      BY DEF TypeOK
    <3> QED
      BY <3>2, <3>3 DEF ProviderAction, RowInSync
  <2>2. ASSUME NEW p \in Providers, CreateProvider(p) \/ UpdateProvider(p)
        PROVE  UNCHANGED live
    BY <2>1, <2>2 DEF CreateProvider, UpdateProvider, TakeProvider
  <2>3. CASE Hands
    BY <2>3, HandsDisturb
  <2> QED
    BY <2>2, <2>3
       DEF Next, Reconcile, Start, ListProviders, ListModels, DryRun, SkipProvider,
           UpdatePreset, ResolveProvider, CreatePreset, Finish, Crash, server
<1> QED
  BY <1>1, TypeCorrect, PlanDeclaredInv, FileLoadedInv, SnapshotsTrueInv, CleanExit,
     PTL DEF Spec, ProvidersIdempotent

-----------------------------------------------------------------------------
(* Presets are created once, when the listing of the presets answers.      *)

(* No two presets of one provider and model, and a listing that answers.   *)
NoTwins(table) ==
    \A i, j \in PresetIds :
        /\ table[i].st = "up" /\ table[j].st = "up"
        /\ table[i].prov = table[j].prov /\ table[i].gen = table[j].gen
        /\ table[i].model = table[j].model
        => i = j

Listed == ListMayFail = FALSE /\ \A table \in PresetInits : NoTwins(table)

(* A preset of a provider as it is now.                                    *)
Current(i) ==
    /\ presets[i].st = "up" /\ live[presets[i].prov].up
    /\ presets[i].gen = live[presets[i].prov].gen

Item(i) == <<presets[i].prov, presets[i].model>>

(* A run has listed every preset it may yet have to create, and whose      *)
(* provider has not been created anew since.                               *)
ProviderListed ==
    pc = "listModels" \/ Applying =>
        \A i \in PresetIds : Current(i) /\ Item(i) \in todoM =>
            /\ snapP[presets[i].prov].up
            /\ snapP[presets[i].prov].gen = presets[i].gen

PresetListed ==
    Applying => \A i \in PresetIds : Current(i) /\ Item(i) \in todoM =>
        /\ snapM[i].st = "up" /\ snapM[i].prov = presets[i].prov
        /\ snapM[i].gen = presets[i].gen /\ snapM[i].model = presets[i].model

(* The preset about to be created is not there.                            *)
PostNew ==
    pc = "post" =>
        /\ cur \notin todoM /\ pid <= live[cur[1]].gen
        /\ \A i \in PresetIds : Current(i) /\ Item(i) = cur => presets[i].gen # pid

GensBounded == \A i \in PresetIds : presets[i].gen <= live[presets[i].prov].gen

PresetsKnown ==
    /\ GensBounded /\ NoTwins(presets)
    /\ ProviderListed /\ PresetListed /\ PostNew

(* A provider only comes up again as another one, and the presets that are *)
(* there stay the presets they are.                                        *)
LiveGrows ==
    \A q \in Providers :
        /\ live'[q].gen >= live[q].gen
        /\ live'[q].up => \/ live[q].up /\ live'[q].gen = live[q].gen
                          \/ live'[q].gen > live[q].gen

PresetsStay ==
    \A i \in PresetIds :
        /\ presets'[i].prov = presets[i].prov /\ presets'[i].gen = presets[i].gen
        /\ presets'[i].model = presets[i].model
        /\ presets'[i].st = "up" => presets[i].st = "up"

(* Any step that creates no preset and lists nothing.                      *)
LEMMA KnownStays ==
    ASSUME TypeOK, TypeOK', PresetsKnown, LiveGrows, PresetsStay
    PROVE  /\ GensBounded' /\ NoTwins(presets)'
           /\ \A i \in PresetIds : /\ Current(i)' => Current(i)
                                   /\ Item(i)' = Item(i)
<1>1. \A i \in PresetIds : /\ presets[i].prov \in Providers /\ presets[i].gen \in Nat
                           /\ live[presets[i].prov].gen \in Nat
                           /\ live'[presets[i].prov].gen \in Nat
  BY DEF TypeOK, LivePreset, LiveProvider
<1>2. GensBounded'
  BY <1>1 DEF PresetsKnown, GensBounded, LiveGrows, PresetsStay
<1>3. NoTwins(presets)'
  BY DEF PresetsKnown, NoTwins, PresetsStay
<1>4. ASSUME NEW i \in PresetIds
      PROVE  (Current(i)' => Current(i)) /\ Item(i)' = Item(i)
  BY <1>1 DEF PresetsKnown, GensBounded, LiveGrows, PresetsStay, Current, Item
<1> QED
  BY <1>2, <1>3, <1>4

(* In particular one of an applying run, or by hand.                       *)
LEMMA KnownGoesOn ==
    ASSUME TypeOK, TypeOK', PresetsKnown, LiveGrows, PresetsStay,
           todoM' \subseteq todoM, UNCHANGED <<snapP, snapM, cur, pid>>,
           pc' = pc \/ (pc = "apply" /\ pc' = "idle")
    PROVE  PresetsKnown'
<1>1. /\ GensBounded' /\ NoTwins(presets)'
      /\ \A i \in PresetIds : (Current(i)' => Current(i)) /\ Item(i)' = Item(i)
  BY KnownStays
<1>2. ProviderListed' /\ PresetListed'
  BY <1>1 DEF PresetsKnown, ProviderListed, PresetListed, PresetsStay, Applying
<1>3. PostNew'
  <2> SUFFICES ASSUME pc' = "post" PROVE PostNew'
    BY DEF PostNew
  <2>1. pc = "post" /\ PostNew
    BY DEF PresetsKnown
  <2>2. cur[1] \in Providers /\ pid \in Nat
    BY DEF TypeOK
  <2>3. pid <= live'[cur[1]].gen
    <3>1. live[cur[1]].gen \in Nat /\ live'[cur[1]].gen \in Nat
      BY <2>2 DEF TypeOK, LiveProvider
    <3> QED
      BY <2>1, <2>2, <3>1 DEF PostNew, LiveGrows
  <2> QED
    BY <1>1, <2>1, <2>3 DEF PostNew, PresetsStay
<1> QED
  BY <1>1, <1>2, <1>3 DEF PresetsKnown

(* Nothing of it is at stake while no run applies.                         *)
LEMMA KnownAtRest ==
    ASSUME PresetsKnown, UNCHANGED server, pc' \in {"idle", "listProviders"}
    PROVE  PresetsKnown'
BY DEF PresetsKnown, GensBounded, NoTwins, ProviderListed, PresetListed, PostNew,
       Applying, server

(* The server's row of a provider, under a request of the script.          *)
LEMMA ProvidersGrow ==
    ASSUME TypeOK, NEW p \in Providers, CreateProvider(p) \/ UpdateProvider(p)
    PROVE  LiveGrows
<1>1. \A q \in Providers : live[q].gen \in Nat
  BY DEF TypeOK, LiveProvider
<1>2. Patched(p).up = live[p].up /\ Patched(p).gen = live[p].gen
      /\ Created(p).gen = live[p].gen + 1
  BY DEF Patched, Created
<1>3. \/ live' = live
      \/ ~live[p].up /\ live' = [live EXCEPT ![p] = Created(p)]
      \/ live' = [live EXCEPT ![p] = Patched(p)]
  BY DEF CreateProvider, UpdateProvider, server
<1> HIDE DEF Patched, Created
<1>4. \A q \in Providers : \/ live'[q] = live[q]
                           \/ live'[q].gen = live[q].gen + 1
                           \/ live'[q].up = live[q].up /\ live'[q].gen = live[q].gen
  BY <1>2, <1>3 DEF TypeOK
<1> QED
  BY <1>1, <1>4 DEF LiveGrows

(* And under a hand.                                                       *)
LEMMA HandsGrow ==
    ASSUME TypeOK, Hands
    PROVE  LiveGrows /\ PresetsStay
<1>1. \A q \in Providers : live[q].gen \in Nat /\ live[q].up \in BOOLEAN
  BY DEF TypeOK, LiveProvider
<1>2. LiveGrows
  <2>1. CASE UNCHANGED live
    BY <1>1, <2>1 DEF LiveGrows
  <2>2. ASSUME NEW p \in Providers, DashboardSavesProvider(p)
        PROVE  LiveGrows
    <3>1. PICK e \in BOOLEAN, c \in Confs :
              live' = [live EXCEPT ![p] = [live[p] EXCEPT !.enabled = e, !.conf = c]]
      BY <2>2 DEF DashboardSavesProvider
    <3>2. \A q \in Providers : live'[q].up = live[q].up /\ live'[q].gen = live[q].gen
      BY <3>1 DEF TypeOK, LiveProvider
    <3> QED
      BY <1>1, <3>2 DEF LiveGrows
  <2>3. ASSUME NEW p \in Providers, DashboardDeletesProvider(p)
        PROVE  LiveGrows
    <3>1. live' = [live EXCEPT ![p].up = FALSE]
      BY <2>3 DEF DashboardDeletesProvider
    <3>2. \A q \in Providers : /\ live'[q].gen = live[q].gen
                               /\ live'[q].up => live[q].up
      BY <3>1 DEF TypeOK, LiveProvider
    <3> QED
      BY <1>1, <3>2 DEF LiveGrows
  <2>4. ASSUME NEW p \in Providers, DashboardCreatesProvider(p)
        PROVE  LiveGrows
    <3>1. PICK e \in BOOLEAN, c \in Confs :
              live' = [live EXCEPT ![p] =
                       [live[p] EXCEPT !.up = TRUE, !.gen = live[p].gen + 1,
                                       !.enabled = e, !.conf = c, !.keys = {}]]
      BY <2>4 DEF DashboardCreatesProvider
    <3>2. \A q \in Providers : live'[q] = live[q] \/ live'[q].gen = live[q].gen + 1
      BY <3>1 DEF TypeOK, LiveProvider
    <3> QED
      BY <1>1, <3>2 DEF LiveGrows
  <2> QED
    BY <2>1, <2>2, <2>3, <2>4 DEF Hands, EditFile, DashboardSavesPreset, server
<1>3. PresetsStay
  <2>1. CASE UNCHANGED presets
    BY <2>1 DEF PresetsStay
  <2>2. ASSUME NEW p \in Providers, DashboardDeletesProvider(p)
        PROVE  PresetsStay
    <3>1. \/ UNCHANGED presets
          \/ \A i \in PresetIds : presets'[i] \in {presets[i], [presets[i] EXCEPT !.st = "gone"]}
      BY <2>2 DEF DashboardDeletesProvider
    <3> QED
      BY <3>1 DEF PresetsStay, TypeOK, LivePreset
  <2>3. ASSUME NEW i \in PresetIds, DashboardSavesPreset(i)
        PROVE  PresetsStay
    <3>1. \/ presets' = [presets EXCEPT ![i].st = "gone"]
          \/ \E f \in PresetFields, s \in Specs :
                presets' = [presets EXCEPT ![i].spec = [@ EXCEPT ![f] = s]]
      BY <2>3 DEF DashboardSavesPreset
    <3>2. ASSUME NEW f \in PresetFields, NEW s \in Specs,
                 presets' = [presets EXCEPT ![i].spec = [@ EXCEPT ![f] = s]]
          PROVE  PresetsStay
      <4> DEFINE t == [presets[i].spec EXCEPT ![f] = s]
      <4>1. t \in [PresetFields -> Specs]
        BY DEF TypeOK, LivePreset
      <4>2. presets' = [presets EXCEPT ![i] = [@ EXCEPT !.spec = t]]
        BY <3>2 DEF TypeOK
      <4> HIDE DEF t
      <4> QED
        BY <4>1, <4>2, SpecSaved DEF PresetsStay, TypeOK
    <3>3. CASE presets' = [presets EXCEPT ![i].st = "gone"]
      BY <3>3 DEF PresetsStay, TypeOK, LivePreset
    <3> QED
      BY <3>1, <3>2, <3>3
  <2> QED
    BY <2>1, <2>2, <2>3
       DEF Hands, EditFile, DashboardSavesProvider, DashboardCreatesProvider, server
<1> QED
  BY <1>2, <1>3

(* An UpdatePreset changes the spec of one preset, or nothing.             *)
LEMMA UpdatesStay ==
    ASSUME TypeOK, NEW p \in Providers, NEW m \in Models, UpdatePreset(p, m)
    PROVE  PresetsStay
<1>1. PICK i \in PresetIds :
         \/ UNCHANGED presets
         \/ \E s \in [PresetFields -> Specs] :
               presets' = [presets EXCEPT ![i] = [@ EXCEPT !.spec = s]]
  BY UpdateWrites
<1> QED
  BY <1>1, SpecSaved DEF TypeOK, PresetsStay

(* A preset that has to be created is new: the listing would have it.      *)
LEMMA ResolveKnown ==
    ASSUME TypeOK, TypeOK', PresetsKnown, NEW p \in Providers, NEW m \in Models,
           ResolveProvider(p, m), pc' # "idle"
    PROVE  PresetsKnown'
<1>1. /\ UNCHANGED <<live, presets, snapP, snapM>> /\ pc = "apply"
      /\ todoM' = todoM \ {<<p, m>>} /\ <<p, m>> \in todoM /\ Matching(p, m) = {}
  BY DEF ResolveProvider, TakePreset, Answered, loaded, server, Ends
<1>2. GensBounded' /\ NoTwins(presets)' /\ ProviderListed' /\ PresetListed'
  BY <1>1 DEF PresetsKnown, GensBounded, NoTwins, ProviderListed, PresetListed,
              Applying, Current, Item
<1>3. PostNew'
  <2> SUFFICES ASSUME pc' = "post" PROVE PostNew'
    BY DEF PostNew
  <2>1. cur' = <<p, m>> /\ pid' = live[p].gen /\ live[p].gen \in Nat
    <3>1. live[p].gen \in Nat
      BY DEF TypeOK, LiveProvider
    <3> QED
      BY <1>1, <3>1 DEF ResolveProvider, Ends
  <2>2. ASSUME NEW i \in PresetIds, Current(i), Item(i) = <<p, m>>
        PROVE  FALSE
    <3>1. presets[i].prov = p /\ presets[i].model = m
      BY <2>2 DEF Item
    <3>2. /\ snapP[p].up /\ snapP[p].gen = presets[i].gen
          /\ snapM[i].st = "up" /\ snapM[i].prov = p
          /\ snapM[i].gen = presets[i].gen /\ snapM[i].model = m
      BY <1>1, <2>2, <3>1 DEF PresetsKnown, ProviderListed, PresetListed, Applying
    <3> QED
      BY <1>1, <3>2 DEF Matching
  <2> QED
    BY <1>1, <2>1, <2>2 DEF PostNew, Current, Item
<1> QED
  BY <1>2, <1>3 DEF PresetsKnown

(* The POST adds a preset that was not there.                              *)
LEMMA PostKnown ==
    ASSUME TypeOK, TypeOK', PresetsKnown, CreatePreset
    PROVE  PresetsKnown'
<1>1. /\ UNCHANGED <<live, snapP, snapM, todoM, cur, pid>> /\ pc = "post" /\ pc' = "apply"
  BY DEF CreatePreset, Answered, loaded
<1>2. PostNew'
  BY <1>1 DEF PostNew
<1>3. CASE UNCHANGED presets
  BY <1>1, <1>2, <1>3 DEF PresetsKnown, GensBounded, NoTwins, ProviderListed,
       PresetListed, Applying, Current, Item
<1>4. CASE ~UNCHANGED presets
  <2>1. PICK i \in PresetIds, q \in LivePreset :
           /\ live[cur[1]].up /\ live[cur[1]].gen = pid
           /\ q.st = "up" /\ q.prov = cur[1] /\ q.gen = pid /\ q.model = cur[2]
           /\ presets' = [presets EXCEPT ![i] = q]
    BY <1>4, CreateWrites
  <2>2. /\ presets'[i].st = "up" /\ presets'[i].prov = cur[1]
        /\ presets'[i].gen = pid /\ presets'[i].model = cur[2]
        /\ \A j \in PresetIds \ {i} : presets'[j] = presets[j]
    BY <2>1 DEF TypeOK
  <2>3. cur = <<cur[1], cur[2]>> /\ cur \notin todoM
        /\ \A j \in PresetIds : Current(j) /\ Item(j) = cur => presets[j].gen # pid
    BY <1>1 DEF PresetsKnown, PostNew, TypeOK
  <2>4. GensBounded'
    BY <1>1, <2>1, <2>2 DEF PresetsKnown, GensBounded, TypeOK
  <2>5. NoTwins(presets)'
    <3>1. ASSUME NEW j \in PresetIds \ {i}, presets[j].st = "up", presets[j].prov = cur[1],
                 presets[j].gen = pid, presets[j].model = cur[2]
          PROVE  FALSE
      BY <2>1, <2>3, <3>1 DEF Current, Item
    <3> QED
      BY <2>2, <3>1 DEF PresetsKnown, NoTwins
  <2>6. \A j \in PresetIds : Current(j)' /\ Item(j)' \in todoM' =>
           j # i /\ Current(j) /\ Item(j) \in todoM /\ presets'[j] = presets[j]
    BY <1>1, <2>2, <2>3 DEF Current, Item
  <2>7. ProviderListed' /\ PresetListed'
    BY <1>1, <2>6 DEF PresetsKnown, ProviderListed, PresetListed, Applying
  <2> QED
    BY <1>2, <2>4, <2>5, <2>7 DEF PresetsKnown
<1> QED
  BY <1>3, <1>4

(* One step, when the listing answers.                                     *)
LEMMA KnownStep ==
    ASSUME Listed, TypeOK, TypeOK', PresetsKnown, [Next]_vars
    PROVE  PresetsKnown'
<1>0. /\ \A q \in Providers : live[q].gen \in Nat
      /\ UNCHANGED live => LiveGrows
      /\ UNCHANGED presets => PresetsStay
  BY DEF TypeOK, LiveProvider, LiveGrows, PresetsStay
<1>1. ASSUME NEW apply \in BOOLEAN, NEW rotate \in BOOLEAN, Start(apply, rotate)
      PROVE  PresetsKnown'
  BY <1>1, KnownAtRest DEF Start
<1>2. CASE ListProviders
  <2>1. CASE Ends("abort")
    BY <1>2, <2>1, KnownAtRest DEF ListProviders, Ends
  <2>2. CASE snapP' = live /\ pc' = "listModels"
    BY <1>2, <2>2 DEF ListProviders, PresetsKnown, GensBounded, NoTwins, ProviderListed,
         PresetListed, PostNew, Applying, Current, Item, Ends, server
  <2> QED
    BY <1>2, <2>1, <2>2 DEF ListProviders
<1>3. CASE ListModels
  <2>1. snapM' = presets
    BY <1>3 DEF ListModels, Listed
  <2> QED
    BY <1>3, <2>1 DEF ListModels, PresetsKnown, GensBounded, NoTwins, ProviderListed,
         PresetListed, PostNew, Applying, Current, Item, server
<1>4. CASE DryRun \/ Finish \/ Crash
  BY <1>4, KnownAtRest DEF DryRun, Finish, Crash, Ends
<1>5. ASSUME NEW p \in Providers, SkipProvider(p)
      PROVE  PresetsKnown'
  BY <1>0, <1>5, KnownGoesOn DEF SkipProvider, TakeProvider, Answered, loaded, server
<1>6. ASSUME NEW p \in Providers, CreateProvider(p) \/ UpdateProvider(p)
      PROVE  PresetsKnown'
  <2>1. CASE pc' = "idle" /\ UNCHANGED server
    BY <2>1, KnownAtRest
  <2>2. CASE TakeProvider(p)
    <3>1. UNCHANGED <<snapP, snapM, presets>>
      BY <1>6, <2>2 DEF CreateProvider, UpdateProvider, TakeProvider, Answered, loaded,
           Ends, server
    <3> QED
      BY <1>0, <1>6, <2>2, <3>1, ProvidersGrow, KnownGoesOn DEF TakeProvider
  <2> QED
    BY <1>6, <2>1, <2>2 DEF CreateProvider, UpdateProvider, Ends
<1>7. ASSUME NEW p \in Providers, NEW m \in Models, UpdatePreset(p, m)
      PROVE  PresetsKnown'
  <2>1. /\ UNCHANGED <<live, snapP, snapM, cur, pid, pc>> /\ todoM' \subseteq todoM
    BY <1>7 DEF UpdatePreset, TakePreset, Answered, loaded
  <2> QED
    BY <1>0, <1>7, <2>1, UpdatesStay, KnownGoesOn
<1>8. ASSUME NEW p \in Providers, NEW m \in Models, ResolveProvider(p, m)
      PROVE  PresetsKnown'
  <2>1. CASE pc' = "idle"
    BY <1>8, <2>1, KnownAtRest DEF ResolveProvider
  <2> QED
    BY <1>8, <2>1, ResolveKnown
<1>9. CASE Hands
  BY <1>9, HandsGrow, HandsDisturb, KnownGoesOn DEF run
<1>10. CASE UNCHANGED vars
  BY <1>0, <1>10, KnownGoesOn DEF vars
<1> QED
  BY <1>1, <1>2, <1>3, <1>4, <1>5, <1>6, <1>7, <1>8, <1>9, <1>10, PostKnown
     DEF Next, Reconcile

(* When the preset listing answers and the server's table starts without   *)
(* two presets of one model of a provider, a run after a clean exit        *)
(* creates no preset and changes none, until somebody edits by hand.       *)
THEOREM SecondRunKeepsPresets == Listed => (Spec => PresetsIdempotent)
<1> SUFFICES ASSUME Listed PROVE Spec => PresetsIdempotent
  OBVIOUS
<1>1. Init => PresetsKnown
  BY DEF Init, Listed, PresetsKnown, GensBounded, ProviderListed, PresetListed, PostNew,
         Applying
<1>2. TypeOK /\ TypeOK' /\ PresetsKnown /\ [Next]_vars => PresetsKnown'
  BY KnownStep
<1>3. TypeOK /\ PlanDeclared /\ FileLoaded /\ SnapshotsTrue /\ CleanExitConverges
        /\ PresetsKnown /\ [Next]_vars
        => [Stands /\ Stands' => UNCHANGED presets]_vars
  <2> SUFFICES ASSUME TypeOK, PlanDeclared, FileLoaded, SnapshotsTrue,
                      CleanExitConverges, PresetsKnown, Next,
                      Stands, Stands'
               PROVE  UNCHANGED presets
    BY DEF vars
  <2>1. pc # "idle" => desired = file
    BY DEF FileLoaded, Undisturbed
  <2>2. \A k \in Wanted(file) : PresetInSync(file, k[1], k[2])
    BY DEF CleanExitConverges, Converged
  <2>3. ASSUME NEW p \in Providers, NEW m \in Models, UpdatePreset(p, m)
        PROVE  UNCHANGED presets
    <3>1. PICK i \in Matching(p, m) :
             UNCHANGED presets \/ ~InStep(desired[p].models[m].spec, snapM[i].spec)
      BY <2>3, UpdateWrites
    <3>2. /\ pc = "apply" /\ <<p, m>> \in todoM /\ <<p, m>> \in Wanted(file)
          /\ desired = file
      BY <2>1, <2>3 DEF UpdatePreset, TakePreset, PlanDeclared
    <3>3. /\ i \in PresetIds /\ snapP[p].up /\ snapM[i].st = "up" /\ snapM[i].prov = p
          /\ snapM[i].gen = snapP[p].gen /\ snapM[i].model = m
      BY DEF Matching
    <3>4. /\ presets[i].st = "up" /\ presets[i].prov = p /\ presets[i].gen = live[p].gen
          /\ presets[i].model = m /\ presets[i].spec = snapM[i].spec
      BY <3>2, <3>3 DEF SnapshotsTrue, ProviderSnapshotTrue, PresetSnapshotTrue,
           Applying, Undisturbed
    <3>5. PICK j \in PresetIds :
             /\ presets[j].st = "up" /\ presets[j].prov = p
             /\ presets[j].gen = live[p].gen /\ presets[j].model = m
             /\ InStep(file[p].models[m].spec, presets[j].spec)
      BY <2>2, <3>2 DEF PresetInSync
    <3>6. i = j
      BY <3>3, <3>4, <3>5 DEF PresetsKnown, NoTwins
    <3> QED
      BY <3>1, <3>2, <3>4, <3>5, <3>6
  <2>4. ASSUME CreatePreset
        PROVE  UNCHANGED presets
    <3> SUFFICES ASSUME live[cur[1]].up, live[cur[1]].gen = pid PROVE FALSE
      BY <2>4, CreateWrites
    <3>1. pc = "post" /\ cur \in Wanted(file) /\ cur = <<cur[1], cur[2]>>
      BY <2>1, <2>4 DEF CreatePreset, PlanDeclared, TypeOK
    <3>2. PICK j \in PresetIds :
             /\ presets[j].st = "up" /\ presets[j].prov = cur[1]
             /\ presets[j].gen = live[cur[1]].gen /\ presets[j].model = cur[2]
      BY <2>2, <3>1 DEF PresetInSync
    <3> QED
      BY <3>1, <3>2 DEF PresetsKnown, PostNew, Current, Item
  <2>5. CASE Hands
    BY <2>5, HandsDisturb
  <2> QED
    BY <2>3, <2>4, <2>5
       DEF Next, Reconcile, Start, ListProviders, ListModels, DryRun, SkipProvider,
           CreateProvider, UpdateProvider, ResolveProvider, Finish, Crash, server
<1> QED
  BY <1>1, <1>2, <1>3, TypeCorrect, PlanDeclaredInv, FileLoadedInv, SnapshotsTrueInv,
     CleanExit, PTL DEF Spec, PresetsIdempotent
=============================================================================
