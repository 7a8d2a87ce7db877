---------------------------- MODULE EnvDocsProofs ----------------------------
(***************************************************************************)
(* Proofs about EnvDocs, for any runs, images, flags and faults: the runs  *)
(* of setup-envdocs.py are runs of OidcClient, whose theorems therefore    *)
(* hold of them, and DNS comes last.                                       *)
(***************************************************************************)
EXTENDS EnvDocs, OidcClientProofs

(* Every step of the site is a step of OidcClient or leaves its state.     *)
LEMMA SiteStepIsClientStep == [SiteNext]_siteVars => [Next]_vars
<1> SUFFICES ASSUME [SiteNext]_siteVars PROVE Next \/ UNCHANGED vars
  OBVIOUS
<1>1. ASSUME NEW r \in Runs, SiteStart(r) PROVE Next
  BY <1>1 DEF SiteStart, Next, RunNext
<1>2. ASSUME NEW r \in Runs, ClientStep(r) PROVE Next
  BY <1>2 DEF ClientStep, Step, Next, RunNext
<1>3. ASSUME NEW r \in Runs, Publish(r) PROVE Next
  <2>1. PutValue(r) \/ CreateSecret(r)
    BY <1>3 DEF Publish, PutValue, CreateSecret
  <2> QED
    BY <2>1 DEF Step, Next, RunNext
<1>4. ASSUME NEW r \in Runs, PublishRefused(r) PROVE Next
  <2>1. PutValue(r) \/ CreateSecret(r)
    BY <1>4 DEF PublishRefused, PutValue, CreateSecret
  <2> QED
    BY <2>1 DEF Step, Next, RunNext
<1>5. ASSUME NEW r \in Runs,
             \/ CraneLogin(r) \/ EnsureRepo(r) \/ CopyImage(r) \/ ApplyManifest(r)
             \/ WaitForSecret(r) \/ ResolveLoadBalancer(r) \/ UpsertAlias(r)
      PROVE  UNCHANGED vars
  BY <1>5 DEF CraneLogin, EnsureRepo, CopyImage, ApplyManifest, WaitForSecret,
    ResolveLoadBalancer, UpsertAlias, Mirrored, Fails, StageDies, Advance
<1>6. ASSUME NEW r \in Runs, SiteCrash(r) PROVE Next \/ UNCHANGED vars
  BY <1>6 DEF SiteCrash, StageDies, Advance, Next, RunNext
<1>7. CASE SiteSync \/ PodsStart \/ AdminNext
  BY <1>7 DEF SiteSync, PodsStart, AdminNext, Next
<1>8. CASE UNCHANGED siteVars
  BY <1>8 DEF siteVars
<1> QED
  BY <1>1, <1>2, <1>3, <1>4, <1>5, <1>6, <1>7, <1>8 DEF SiteNext, SiteStep

(* setup-envdocs.py implements OidcClient, for every instance.             *)
THEOREM SiteImplementsClient == SiteSpec => Spec
<1>1. SiteInit => Init
  BY DEF SiteInit
<1> QED
  BY <1>1, SiteStepIsClientStep, PTL DEF SiteSpec, Spec

(* Setting up the site gives an existing client another secret only when a *)
(* request of that run was refused and taken for an answer, or somebody    *)
(* else replaced the secret between the run's GET and its PUT.             *)
THEOREM SiteNeverRotates == SiteSpec => NeverRotates
BY SiteImplementsClient, NeverRotatesAlways, PTL

-----------------------------------------------------------------------------
(* How far a run has come tells what it leaves behind it.                  *)

Behind == [m \in Manifests |->
    CASE m = "namespace" -> {}
      [] m = "configmap" -> {"namespace"}
      [] m = "externalsecret" -> {"namespace", "configmap"}
      [] m = "deployment" -> {"namespace", "configmap", "externalsecret"}
      [] m = "oauth2-proxy" -> Manifests \ {"oauth2-proxy", "ingress"}
      [] m = "ingress" -> Manifests \ {"ingress"}]

(* What holds of a run at stage s, its flags included, with the site st,   *)
(* the ASM secret there or not.                                            *)
StageHolds(s, st, exists) ==
    /\ s.at # "none" => exists
    /\ s.at = "repo" => IMAGES \subseteq st.images \cup s.todo
    /\ s.at = "image" => /\ s.image \in IMAGES
                         /\ IMAGES \subseteq st.images \cup s.todo \cup {s.image}
    /\ s.at \in Manifests \cup {"wait", "host", "alias"}
         => "mirror" \in s.flags \/ st.images = IMAGES
    /\ s.at \in Manifests => Behind[s.at] \subseteq st.applied
    /\ s.at = "wait" => Behind["deployment"] \subseteq st.applied
    /\ s.at \in {"host", "alias"} => "apply" \in s.flags \/ st.applied = Manifests

SiteInv ==
    /\ site \in Site /\ stage \in [Runs -> Stage]
    /\ \A r \in Runs : StageHolds(stage[r], site, AsmExists)
    /\ DnsLast

(* The site only grows, and the ASM secret stays.                          *)
Grows ==
    /\ site' \in Site
    /\ site.images \subseteq site'.images /\ site.applied \subseteq site'.applied
    /\ AsmExists => AsmExists'

(* What holds of a stage keeps holding while the site grows.               *)
LEMMA StageKept ==
  ASSUME site \in Site, Grows, NEW s \in Stage,
         StageHolds(s, site, AsmExists)
  PROVE  StageHolds(s, site', AsmExists')
<1>1. /\ site.images \subseteq IMAGES /\ site'.images \subseteq IMAGES
      /\ site.applied \subseteq Manifests /\ site'.applied \subseteq Manifests
  BY DEF Site, Grows
<1> QED
  BY <1>1 DEF Grows, StageHolds

(* One run goes on to a stage of which the invariant holds.                *)
LEMMA RunAdvances ==
  ASSUME SiteInv, Grows, DnsLast', NEW r \in Runs, NEW s \in Stage,
         stage' = [stage EXCEPT ![r] = s],
         StageHolds(s, site', AsmExists')
  PROVE  SiteInv'
<1>1. site' \in Site /\ stage' \in [Runs -> Stage]
  BY DEF SiteInv, Grows
<1>2. ASSUME NEW q \in Runs
      PROVE  StageHolds(stage'[q], site', AsmExists')
  <2>1. CASE q = r
    BY <2>1 DEF SiteInv
  <2>2. CASE q # r
    <3>1. stage'[q] = stage[q] /\ stage[q] \in Stage
      BY <2>2 DEF SiteInv
    <3> QED
      BY <3>1, StageKept DEF SiteInv
  <2> QED
    BY <2>1, <2>2
<1> QED
  BY <1>1, <1>2 DEF SiteInv

(* No run advances.                                                        *)
LEMMA NoRunAdvances ==
  ASSUME SiteInv, Grows, DnsLast', UNCHANGED stage
  PROVE  SiteInv'
<1>1. ASSUME NEW q \in Runs
      PROVE  StageHolds(stage'[q], site', AsmExists')
  <2>1. stage'[q] = stage[q] /\ stage[q] \in Stage
    BY DEF SiteInv
  <2> QED
    BY <2>1, StageKept DEF SiteInv
<1> QED
  BY <1>1 DEF SiteInv, Grows

AliasStays == site'.dns = site.dns /\ aliasBy' = aliasBy

(* The invariant of DNS survives whatever does not set the alias.          *)
LEMMA DnsKept ==
  ASSUME SiteInv, Grows, AliasStays
  PROVE  DnsLast'
<1>1. /\ site.images \subseteq IMAGES /\ site'.images \subseteq IMAGES
      /\ site.applied \subseteq Manifests /\ site'.applied \subseteq Manifests
  BY DEF Site, Grows, SiteInv
<1> QED
  BY <1>1 DEF SiteInv, Grows, AliasStays, DnsLast

(* Once ASM holds the secret it is never without it again.                 *)
LEMMA AsmStays == IInv /\ [Next]_vars /\ AsmExists => AsmExists'
<1> SUFFICES ASSUME IInv, [Next]_vars, AsmExists PROVE AsmExists'
  OBVIOUS
<1>1. \/ Delivery!Publish \/ Delivery!Sync \/ Delivery!Load
      \/ UNCHANGED <<asm, k8s, app>>
  BY StepDelivers
<1>2. CASE Delivery!Publish
  <2>1. asm'["secret"] # 0
    BY <1>2 DEF Delivery!Publish, Delivery!Whole
  <2> QED
    BY <2>1, OidcAssumption DEF AsmExists, Nothing
<1> QED
  BY <1>1, <1>2 DEF Delivery!Sync, Delivery!Load, AsmExists, Nothing

-----------------------------------------------------------------------------
(* The steps that leave the site as it is, and advance no run.             *)
LEMMA IdleSiteKeeps ==
  ASSUME IInv, SiteInv, [Next]_vars, UNCHANGED <<site, stage, aliasBy>>
  PROVE  SiteInv'
<1>1. Grows /\ AliasStays
  BY AsmStays DEF Grows, AliasStays, SiteInv
<1> QED
  BY <1>1, DnsKept, NoRunAdvances

(* A run starts, with its flags.                                           *)
LEMMA SiteStartKeeps ==
  ASSUME IInv, SiteInv, NEW r \in Runs, SiteStart(r)
  PROVE  SiteInv'
<1>1. PICK flags \in FlagSets : stage' = [stage EXCEPT ![r].flags = flags]
  BY DEF SiteStart
<1> DEFINE s == [stage[r] EXCEPT !.flags = flags]
<1>2. Grows /\ AliasStays
  BY <1>1 DEF SiteStart, Start, secretVars, AsmExists, Nothing, AliasStays, Grows, SiteInv
<1>3. stage[r] \in Stage /\ stage[r].at = "none"
  BY DEF SiteInv, SiteStart
<1>4. s \in Stage /\ s.at = "none" /\ s.flags = flags
  BY <1>3 DEF Stage
<1>5. stage' = [stage EXCEPT ![r] = s]
  BY <1>1 DEF SiteInv
<1> HIDE DEF s
<1>6. StageHolds(s, site', AsmExists')
  BY <1>1, <1>4 DEF StageHolds, Manifests
<1> QED
  BY <1>2, <1>4, <1>5, <1>6, DnsKept, RunAdvances

(* A run that dies, or ends, after ASM has been written.                   *)
LEMMA StageDiesKeeps ==
  ASSUME SiteInv, NEW r \in Runs, Grows, DnsLast', stage' = [stage EXCEPT ![r] = NoStage]
  PROVE  SiteInv'
<1>1. NoStage \in Stage /\ NoStage.at = "none" /\ NoStage.flags = {}
  BY DEF NoStage, Stage
<1>2. StageHolds(NoStage, site', AsmExists')
  BY <1>1 DEF StageHolds, Manifests
<1> QED
  BY <1>1, <1>2, RunAdvances

(* Going on to the stage the flags say, once ASM holds the secret.         *)
LEMMA GoesTo ==
  ASSUME SiteInv, NEW r \in Runs, NEW at \in {"none", "login", "host", "alias", "wait"} \cup Manifests,
         Grows, DnsLast', AsmExists',
         stage' = [stage EXCEPT ![r] = To(r, at)],
         at \in Manifests \cup {"wait", "host", "alias"}
           => "mirror" \in stage[r].flags \/ site'.images = IMAGES,
         at \in Manifests => Behind[at] \subseteq site'.applied,
         at = "wait" => Behind["deployment"] \subseteq site'.applied,
         at \in {"host", "alias"} => "apply" \in stage[r].flags \/ site'.applied = Manifests
  PROVE  SiteInv'
<1>1. CASE at = "none"
  BY <1>1, StageDiesKeeps DEF To
<1>2. CASE at # "none"
  <2> DEFINE s == [stage[r] EXCEPT !.at = at]
  <2>1. stage[r] \in Stage /\ StageHolds(stage[r], site, AsmExists)
    BY DEF SiteInv
  <2>2. s \in Stage /\ s.at = at /\ s.flags = stage[r].flags
    BY <2>1 DEF Stage
  <2>3. stage' = [stage EXCEPT ![r] = s]
    BY <1>2 DEF To
  <2> HIDE DEF s
  <2>5. at \notin {"repo", "image"}
    BY DEF Manifests
  <2>6. StageHolds(s, site', AsmExists')
    BY <2>2, <2>5 DEF StageHolds
  <2> QED
    BY <2>2, <2>3, <2>6, RunAdvances
<1> QED
  BY <1>1, <1>2

(* ASM is written: the run goes on to mirroring, or past what it skips.    *)
LEMMA PublishKeeps ==
  ASSUME IInv, SiteInv, NEW r \in Runs, Publish(r)
  PROVE  SiteInv'
<1>1. AsmExists'
  <2>1. Delivery!Publish
    BY WritesWhole DEF Publish, Writing
  <2> QED
    BY <2>1, OidcAssumption DEF Delivery!Publish, Delivery!Whole, AsmExists, Nothing
<1>2. Grows /\ AliasStays
  BY <1>1 DEF Publish, AliasStays, Grows, SiteInv
<1>3. DnsLast'
  BY <1>2, DnsKept
<1> DEFINE at == Mirror(stage[r].flags)
<1>4. /\ at \in {"none", "login", "host", "alias", "wait"} \cup Manifests
      /\ at = "login" \/ "mirror" \in stage[r].flags
      /\ at \in {"none", "login", "host", "namespace"}
      /\ at = "host" => "apply" \in stage[r].flags
  BY DEF Mirror, Apply, Manifests
<1>5. stage' = [stage EXCEPT ![r] = To(r, at)]
  BY DEF Publish
<1> HIDE DEF at
<1>6. at \in Manifests => Behind[at] \subseteq site'.applied
  BY <1>4 DEF Behind, Manifests
<1>7. at = "login" => at \notin Manifests \cup {"wait", "host", "alias"}
  BY DEF Manifests
<1> QED
  BY <1>1, <1>2, <1>3, <1>4, <1>5, <1>6, <1>7, GoesTo

(* mirror_images leaves images behind it, and goes on when all are there.  *)
LEMMA MirrorKeeps ==
  ASSUME IInv, SiteInv, NEW r \in Runs,
         CraneLogin(r) \/ EnsureRepo(r) \/ CopyImage(r)
  PROVE  SiteInv'
<1>1. /\ site \in Site /\ stage[r] \in Stage
      /\ StageHolds(stage[r], site, AsmExists)
      /\ DnsLast
  BY DEF SiteInv
<1>2. AsmExists /\ AsmExists' /\ UNCHANGED <<vars, aliasBy>>
  BY <1>1 DEF CraneLogin, EnsureRepo, CopyImage, Mirrored, Fails, StageDies, Advance,
    StageHolds, vars, AsmExists, Nothing
<1>3. CASE stage' = [stage EXCEPT ![r] = NoStage] /\ UNCHANGED <<site, aliasBy>>
  <2>1. Grows /\ AliasStays
    BY <1>1, <1>2, <1>3 DEF AliasStays, Grows
  <2> QED
    BY <1>3, <2>1, DnsKept, StageDiesKeeps
<1>4. CASE CraneLogin(r) /\ ~StageDies(r)
  <2> DEFINE s == [stage[r] EXCEPT !.at = "repo", !.todo = IMAGES]
  <2>1. /\ s \in Stage /\ s.at = "repo" /\ s.todo = IMAGES /\ s.flags = stage[r].flags
    <3> DEFINE t == [stage[r] EXCEPT !.at = "repo"]
    <3>1. t \in Stage /\ t.at = "repo" /\ t.flags = stage[r].flags
      BY <1>1 DEF Stage
    <3>2. s = [t EXCEPT !.todo = IMAGES]
      OBVIOUS
    <3> HIDE DEF t, s
    <3> QED
      BY <3>1, <3>2 DEF Stage
  <2>2. stage' = [stage EXCEPT ![r] = s] /\ UNCHANGED site
    BY <1>4 DEF CraneLogin, Advance, Fails
  <2> HIDE DEF s
  <2>3. Grows /\ AliasStays
    BY <1>1, <1>2, <2>2 DEF AliasStays, Grows
  <2>4. StageHolds(s, site', AsmExists')
    BY <1>1, <1>2, <2>1 DEF StageHolds, Manifests
  <2> QED
    BY <2>1, <2>2, <2>3, <2>4, DnsKept, RunAdvances
<1>5. CASE EnsureRepo(r) /\ stage[r].todo = {} /\ ~StageDies(r)
  <2> DEFINE at == Apply(stage[r].flags)
  <2>1. stage' = [stage EXCEPT ![r] = To(r, at)] /\ UNCHANGED site
    BY <1>5 DEF EnsureRepo, Advance, Fails
  <2>2. at \in {"none", "host", "namespace"} /\ (at = "host" => "apply" \in stage[r].flags)
    BY DEF Apply
  <2> HIDE DEF at
  <2>3. site.images = IMAGES
    <3>1. IMAGES \subseteq site.images /\ site.images \subseteq IMAGES
      BY <1>1, <1>5 DEF EnsureRepo, StageHolds, Site
    <3> QED
      BY <3>1
  <2>4. Grows /\ AliasStays
    BY <1>1, <1>2, <2>1 DEF AliasStays, Grows
  <2>5. at \in Manifests => Behind[at] \subseteq site'.applied
    BY <2>2 DEF Behind, Manifests
  <2>6. at \in {"none", "login", "host", "alias", "wait"} \cup Manifests
    BY <2>2 DEF Manifests
  <2> QED
    BY <1>2, <2>1, <2>2, <2>3, <2>4, <2>5, <2>6, DnsKept, GoesTo
<1>6. CASE EnsureRepo(r) /\ stage[r].todo # {} /\ ~StageDies(r)
  <2>1. PICK i \in stage[r].todo :
           /\ stage' = [stage EXCEPT ![r] = [stage[r] EXCEPT !.at = "image", !.todo = @ \ {i}, !.image = i]]
           /\ site' = [site EXCEPT !.repos = @ \cup {i}]
    BY <1>6 DEF EnsureRepo, Advance, Fails
  <2> DEFINE s == [stage[r] EXCEPT !.at = "image", !.todo = @ \ {i}, !.image = i]
  <2>2. i \in IMAGES
    BY <1>1 DEF Stage
  <2>3. /\ s \in Stage /\ s.at = "image" /\ s.todo = stage[r].todo \ {i} /\ s.image = i
        /\ s.flags = stage[r].flags
    <3> DEFINE t == [stage[r] EXCEPT !.at = "image"]
               u == [t EXCEPT !.todo = @ \ {i}]
    <3>1. t \in Stage /\ t.at = "image" /\ t.flags = stage[r].flags /\ t.todo = stage[r].todo
      BY <1>1 DEF Stage
    <3>2. u = [t EXCEPT !.todo = @ \ {i}] /\ s = [u EXCEPT !.image = i]
      OBVIOUS
    <3> HIDE DEF t, u, s
    <3>3. u \in Stage /\ u.at = "image" /\ u.flags = stage[r].flags /\ u.todo = stage[r].todo \ {i}
      BY <3>1, <3>2 DEF Stage
    <3> QED
      BY <2>2, <3>2, <3>3 DEF Stage
  <2>4. stage' = [stage EXCEPT ![r] = s]
    BY <2>1
  <2> HIDE DEF s
  <2>5. /\ site' \in Site /\ site'.images = site.images /\ site'.applied = site.applied
        /\ AliasStays
    BY <1>1, <1>2, <2>1, <2>2 DEF Site, AliasStays
  <2>6. Grows
    BY <1>2, <2>5 DEF Grows
  <2>7. IMAGES \subseteq site.images \cup stage[r].todo
    BY <1>1, <1>6 DEF EnsureRepo, StageHolds
  <2>8. StageHolds(s, site', AsmExists')
    BY <1>1, <1>2, <2>2, <2>3, <2>5, <2>7 DEF StageHolds, Manifests
  <2> QED
    BY <2>3, <2>4, <2>5, <2>6, <2>8, DnsKept, RunAdvances
<1>7. CASE CopyImage(r) /\ ~StageDies(r)
  <2> DEFINE s == [stage[r] EXCEPT !.at = "repo", !.image = "none"]
  <2>1. s \in Stage /\ s.at = "repo" /\ s.todo = stage[r].todo /\ s.flags = stage[r].flags
    <3> DEFINE t == [stage[r] EXCEPT !.at = "repo"]
    <3>1. t \in Stage /\ t.at = "repo" /\ t.flags = stage[r].flags /\ t.todo = stage[r].todo
      BY <1>1 DEF Stage
    <3>2. s = [t EXCEPT !.image = "none"]
      OBVIOUS
    <3> HIDE DEF t, s
    <3> QED
      BY <3>1, <3>2 DEF Stage
  <2>2. stage' = [stage EXCEPT ![r] = s] /\ stage[r].at = "image"
    BY <1>7 DEF CopyImage, Mirrored, Advance, Fails
  <2> HIDE DEF s
  <2>3. IMAGES \subseteq site.images \cup stage[r].todo \cup {stage[r].image}
    BY <1>1, <2>2 DEF StageHolds
  <2>4. CASE stage[r].image \in site.images /\ UNCHANGED site
    <3>1. Grows /\ AliasStays
      BY <1>1, <1>2, <2>4 DEF AliasStays, Grows
    <3>2. StageHolds(s, site', AsmExists')
      BY <1>1, <1>2, <2>1, <2>3, <2>4 DEF StageHolds, Manifests
    <3> QED
      BY <2>1, <2>2, <2>4, <3>1, <3>2, DnsKept, RunAdvances
  <2>5. CASE /\ stage[r].image \notin site.images
             /\ site' = [site EXCEPT !.images = @ \cup {stage[r].image}]
    <3>1. /\ site'.images = site.images \cup {stage[r].image}
          /\ site'.repos = site.repos /\ site'.applied = site.applied /\ AliasStays
      BY <1>1, <1>2, <2>5 DEF Site, AliasStays
    <3>3. stage[r].image \in IMAGES
      BY <1>1, <2>2 DEF StageHolds
    <3>4. site' \in Site
      BY <1>1, <2>5, <3>3 DEF Site
    <3>5. Grows
      BY <1>2, <3>1, <3>4 DEF Grows
    <3>6. StageHolds(s, site', AsmExists')
      BY <1>1, <1>2, <2>1, <2>3, <3>1 DEF StageHolds, Manifests
    <3> QED
      BY <2>1, <2>2, <3>1, <3>5, <3>6, DnsKept, RunAdvances
  <2> QED
    BY <1>7, <2>4, <2>5 DEF CopyImage, Fails
<1> QED
  BY <1>3, <1>4, <1>5, <1>6, <1>7 DEF CraneLogin, EnsureRepo, CopyImage, StageDies, Advance

(* apply_manifests applies them in order, so that each has those before it *)
(* behind it, and the last leaves all of them.                             *)
LEMMA ApplyKeeps ==
  ASSUME IInv, SiteInv, NEW r \in Runs, ApplyManifest(r) \/ WaitForSecret(r)
  PROVE  SiteInv'
<1>1. /\ site \in Site /\ stage[r] \in Stage
      /\ StageHolds(stage[r], site, AsmExists)
      /\ DnsLast
  BY DEF SiteInv
<1>2. stage[r].at \in Manifests \cup {"wait"}
  BY DEF ApplyManifest, WaitForSecret
<1>3. /\ AsmExists /\ AsmExists' /\ UNCHANGED <<vars, aliasBy>>
      /\ "mirror" \in stage[r].flags \/ site.images = IMAGES
  BY <1>1, <1>2 DEF ApplyManifest, WaitForSecret, Fails, StageDies, Advance,
    StageHolds, vars, AsmExists, Nothing, Manifests
<1>4. CASE stage' = [stage EXCEPT ![r] = NoStage] /\ UNCHANGED <<site, aliasBy>>
  <2>1. Grows /\ AliasStays
    BY <1>1, <1>3, <1>4 DEF AliasStays, Grows
  <2> QED
    BY <1>4, <2>1, DnsKept, StageDiesKeeps
<1>5. CASE WaitForSecret(r)
  <2>1. stage' = [stage EXCEPT ![r] = To(r, "deployment")] /\ UNCHANGED site
    BY <1>5 DEF WaitForSecret, Advance
  <2>2. Grows /\ AliasStays
    BY <1>1, <1>3, <2>1 DEF AliasStays, Grows
  <2>3. "deployment" \in Manifests /\ Behind["deployment"] \subseteq site'.applied
    BY <1>1, <1>5, <2>1 DEF WaitForSecret, StageHolds, Manifests
  <2> QED
    BY <1>3, <2>1, <2>2, <2>3, DnsKept, GoesTo DEF Manifests
<1>6. CASE ApplyManifest(r) /\ ~StageDies(r)
  <2> DEFINE m == stage[r].at
             next == IF m = "ingress" /\ "dns" \in stage[r].flags THEN "none" ELSE AfterManifest[m]
  <2>1. /\ m \in Manifests
        /\ stage' = [stage EXCEPT ![r] = To(r, next)]
        /\ site' = [site EXCEPT !.applied = @ \cup {m}]
    BY <1>6 DEF ApplyManifest, Advance, Fails
  <2>2. /\ site' \in Site /\ site'.applied = site.applied \cup {m}
        /\ site'.images = site.images /\ AliasStays
    BY <1>1, <1>3, <2>1 DEF Site, AliasStays
  <2>3. Grows
    BY <1>3, <2>2 DEF Grows
  <2>4. Behind[m] \subseteq site.applied
    BY <1>1, <2>1 DEF StageHolds
  <2>5. site.applied \subseteq Manifests
    BY <1>1 DEF Site
  <2>6. /\ next \in {"none", "host", "wait"} \cup Manifests
        /\ next \in Manifests => Behind[next] \subseteq site'.applied
        /\ next = "wait" => Behind["deployment"] \subseteq site'.applied
        /\ next = "host" => site'.applied = Manifests
    <3>1. CASE m = "namespace"
      BY <2>2, <2>4, <3>1 DEF Behind, AfterManifest, Manifests
    <3>2. CASE m = "configmap"
      BY <2>2, <2>4, <3>2 DEF Behind, AfterManifest, Manifests
    <3>3. CASE m = "externalsecret"
      BY <2>2, <2>4, <3>3 DEF Behind, AfterManifest, Manifests
    <3>4. CASE m = "deployment"
      BY <2>2, <2>4, <3>4 DEF Behind, AfterManifest, Manifests
    <3>5. CASE m = "oauth2-proxy"
      BY <2>2, <2>4, <3>5 DEF Behind, AfterManifest, Manifests
    <3>6. CASE m = "ingress"
      <4>1. Manifests \ {"ingress"} \subseteq site.applied
        BY <2>4, <3>6 DEF Behind, Manifests
      <4>2. site'.applied = Manifests
        BY <2>1, <2>2, <2>5, <3>6, <4>1
      <4>3. next \in {"none", "host"}
        BY <3>6 DEF AfterManifest, Manifests
      <4> QED
        BY <4>2, <4>3 DEF Manifests
    <3> QED
      BY <2>1, <3>1, <3>2, <3>3, <3>4, <3>5, <3>6 DEF Manifests
  <2> HIDE DEF m, next
  <2>7. next \in {"host", "alias"} => site'.applied = Manifests
    BY <2>6 DEF Manifests
  <2> QED
    BY <1>3, <2>1, <2>2, <2>3, <2>6, <2>7, DnsKept, GoesTo
<1> QED
  BY <1>4, <1>5, <1>6 DEF StageDies, Advance

(* The DNS alias is set by a run that has everything behind it, or whose   *)
(* flags said to skip it.                                                  *)
LEMMA AliasKeeps ==
  ASSUME IInv, SiteInv, NEW r \in Runs, ResolveLoadBalancer(r) \/ UpsertAlias(r)
  PROVE  SiteInv'
<1>1. /\ site \in Site /\ stage[r] \in Stage
      /\ StageHolds(stage[r], site, AsmExists)
      /\ DnsLast
  BY DEF SiteInv
<1>2. /\ AsmExists /\ AsmExists' /\ UNCHANGED vars
      /\ "mirror" \in stage[r].flags \/ site.images = IMAGES
      /\ "apply" \in stage[r].flags \/ site.applied = Manifests
  BY <1>1 DEF ResolveLoadBalancer, UpsertAlias, Fails, StageDies, Advance,
    StageHolds, vars, AsmExists, Nothing, Manifests
<1>3. CASE stage' = [stage EXCEPT ![r] = NoStage] /\ UNCHANGED <<site, aliasBy>>
  <2>1. Grows /\ AliasStays
    BY <1>1, <1>2, <1>3 DEF AliasStays, Grows
  <2> QED
    BY <1>3, <2>1, DnsKept, StageDiesKeeps
<1>4. CASE stage' = [stage EXCEPT ![r] = To(r, "alias")] /\ UNCHANGED <<site, aliasBy>>
  <2>1. Grows /\ AliasStays
    BY <1>1, <1>2, <1>4 DEF AliasStays, Grows
  <2>2. "alias" \notin Manifests
    BY DEF Manifests
  <2> QED
    BY <1>2, <1>4, <2>1, <2>2, DnsKept, GoesTo
<1>5. CASE /\ stage' = [stage EXCEPT ![r] = NoStage]
           /\ site' = [site EXCEPT !.dns = TRUE] /\ aliasBy' = stage[r].flags
  <2>1. /\ site' \in Site /\ site'.images = site.images /\ site'.applied = site.applied
    BY <1>1, <1>5 DEF Site
  <2>2. Grows
    BY <1>2, <2>1 DEF Grows
  <2>3. DnsLast'
    BY <1>2, <1>5, <2>1 DEF DnsLast
  <2> QED
    BY <1>5, <2>2, <2>3, StageDiesKeeps
<1> QED
  BY <1>3, <1>4, <1>5 DEF ResolveLoadBalancer, UpsertAlias, Fails, StageDies, Advance

(* The invariant of the site is inductive, on top of OidcClient's.         *)
LEMMA SiteNextKeeps == IInv /\ SiteInv /\ [SiteNext]_siteVars => SiteInv'
<1> SUFFICES ASSUME IInv, SiteInv, [SiteNext]_siteVars PROVE SiteInv'
  OBVIOUS
<1>1. [Next]_vars
  BY SiteStepIsClientStep
<1>2. ASSUME NEW r \in Runs, SiteStart(r) PROVE SiteInv'
  BY <1>2, SiteStartKeeps
<1>3. ASSUME NEW r \in Runs, ClientStep(r) \/ PublishRefused(r) PROVE SiteInv'
  BY <1>1, <1>3, IdleSiteKeeps DEF ClientStep, PublishRefused
<1>4. ASSUME NEW r \in Runs, SiteStep(r), ~ClientStep(r), ~PublishRefused(r)
      PROVE  SiteInv'
  BY <1>4, PublishKeeps, MirrorKeeps, ApplyKeeps, AliasKeeps DEF SiteStep
<1>5. ASSUME NEW r \in Runs, SiteCrash(r) PROVE SiteInv'
  <2>1. CASE StageDies(r)
    <3>1. UNCHANGED <<vars, site, aliasBy>> /\ stage' = [stage EXCEPT ![r] = NoStage]
      BY <2>1 DEF StageDies, Advance
    <3>2. Grows /\ AliasStays
      BY <3>1 DEF AliasStays, Grows, SiteInv, vars, AsmExists, Nothing
    <3> QED
      BY <3>1, <3>2, DnsKept, StageDiesKeeps
  <2>2. CASE UNCHANGED <<site, stage, aliasBy>>
    BY <1>1, <2>2, IdleSiteKeeps
  <2> QED
    BY <1>5, <2>1, <2>2 DEF SiteCrash
<1>6. CASE SiteSync \/ PodsStart \/ AdminNext \/ UNCHANGED siteVars
  BY <1>1, <1>6, IdleSiteKeeps DEF SiteSync, PodsStart, AdminNext, siteVars
<1> QED
  BY <1>2, <1>3, <1>4, <1>5, <1>6 DEF SiteNext

(* The invariant holds in every reachable state.                           *)
LEMMA SiteInvariant == SiteSpec => []SiteInv
<1>1. SiteInit => SiteInv
  <2> SUFFICES ASSUME SiteInit PROVE SiteInv
    OBVIOUS
  <2>1. NoStage \in Stage /\ NoStage.at = "none" /\ NoStage.flags = {}
    BY DEF NoStage, Stage
  <2>2. StageHolds(NoStage, site, AsmExists)
    BY <2>1 DEF StageHolds, Manifests
  <2> QED
    BY <2>1, <2>2 DEF SiteInit, SiteInv, Site, DnsLast
<1>2. SiteSpec => []IInv
  BY SiteImplementsClient, Invariant, PTL
<1> QED
  BY <1>1, <1>2, SiteNextKeeps, PTL DEF SiteSpec

(* DNS comes last, for any runs at once, any images, flags and faults.     *)
THEOREM DnsLastAlways == SiteSpec => []DnsLast
<1>1. SiteInv => DnsLast
  BY DEF SiteInv
<1> QED
  BY <1>1, SiteInvariant, PTL

AliasTyped == aliasBy \subseteq Flags

(* The type invariant of the site.                                         *)
THEOREM SiteTypes == SiteSpec => []SiteTypeOK
<1>1. SiteInit => AliasTyped
  BY DEF SiteInit, AliasTyped
<1>2. SiteInv /\ AliasTyped /\ [SiteNext]_siteVars => AliasTyped'
  <2> SUFFICES ASSUME SiteInv, AliasTyped, [SiteNext]_siteVars PROVE AliasTyped'
    OBVIOUS
  <2>1. ASSUME NEW r \in Runs, UpsertAlias(r) PROVE AliasTyped'
    <3>1. stage[r].flags \subseteq Flags
      BY EnvDocsAssumption DEF SiteInv, Stage
    <3> QED
      BY <2>1, <3>1 DEF UpsertAlias, Fails, StageDies, AliasTyped
  <2>2. CASE UNCHANGED aliasBy
    BY <2>2 DEF AliasTyped
  <2>3. (\E r \in Runs : UpsertAlias(r)) \/ UNCHANGED aliasBy
    BY DEF SiteNext, SiteStart, SiteStep, SiteCrash, SiteSync, PodsStart, AdminNext,
      ClientStep, Publish, PublishRefused, CraneLogin, EnsureRepo, CopyImage, ApplyManifest,
      WaitForSecret, ResolveLoadBalancer, Mirrored, Fails, StageDies, siteVars
  <2> QED
    BY <2>1, <2>2, <2>3
<1>3. SiteSpec => []AliasTyped
  BY <1>1, <1>2, SiteInvariant, PTL DEF SiteSpec
<1>4. IInv /\ SiteInv /\ AliasTyped => SiteTypeOK
  BY DEF IInv, SiteInv, SiteTypeOK, AliasTyped
<1> QED
  BY <1>3, <1>4, SiteInvariant, SiteImplementsClient, Invariant, PTL

(* Once a run none of whose requests was refused has published, the client *)
(* and its mapper are as desired until somebody edits them.                *)
THEOREM SiteConfigures == SiteSpec => []CleanRunConfigures
BY SiteImplementsClient, CleanRunConfiguresAlways, PTL

(* A run replaces the cookie secret only when a request of that run was    *)
(* refused and taken for an answer, or another run wrote ASM since it      *)
(* looked for the cookie secret there.                                     *)
THEOREM SiteKeepsKey == SiteSpec => KeyPreserved
BY EnvDocsAssumption, SiteImplementsClient, KeyPreservedAlways, PTL
=============================================================================
