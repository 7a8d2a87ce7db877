------------------------------- MODULE EnvDocs -------------------------------
(***************************************************************************)
(* scripts/setup-envdocs.py: the documentation site.  Its first half is    *)
(* that of OidcClient, with a cookie secret for a key; once ASM is written *)
(* a run mirrors the images into ECR, applies the manifests, and points    *)
(* DNS at the site, unless flags skip that.  Every command is run with     *)
(* check=True: what fails ends the run.                                    *)
(*                                                                         *)
(* deploy/envdocs is not in the repository: that the ExternalSecret is     *)
(* synced once applied, and that the pods of oauth2-proxy start once they  *)
(* have their images and Secret, is taken from what the script says.       *)
(***************************************************************************)
EXTENDS OidcClient

CONSTANTS
    IMAGES,     \* the images to mirror
    FlagSets,   \* the combinations of --skip-mirror, --skip-apply, --skip-dns
                \* runs are started with
    SiteFaults  \* the commands that may fail

Flags == {"mirror", "apply", "dns"}
Manifests == {"namespace", "configmap", "externalsecret", "deployment", "oauth2-proxy", "ingress"}

ASSUME EnvDocsAssumption ==
    /\ HasKey
    /\ FlagSets \subseteq SUBSET Flags
    /\ SiteFaults \subseteq {"ecr", "crane", "kubectl", "dns"}

VARIABLES
    site,   \* repos and images of ECR, manifests applied, the DNS alias
    stage,  \* each run: where it is after ASM, its flags, images left
    aliasBy \* history: the flags of the run that set the alias last

siteVars == <<vars, site, stage, aliasBy>>

(* Mutation: a manifest that is not among those of the site.               *)
AfterManifestService ==
    [m \in Manifests |-> IF m = "deployment" THEN "service" ELSE "wait"]

(* What follows each step of apply_manifests.                              *)
AfterManifest ==
    [m \in Manifests |-> CASE m = "namespace" -> "configmap"
                           [] m = "configmap" -> "externalsecret"
                           [] m = "externalsecret" -> "wait"
                           [] m = "deployment" -> "oauth2-proxy"
                           [] m = "oauth2-proxy" -> "ingress"
                           [] m = "ingress" -> "host"]

Site == [repos : SUBSET IMAGES, images : SUBSET IMAGES, applied : SUBSET Manifests, dns : BOOLEAN]

Stage == [at : {"none", "login", "repo", "image", "wait", "host", "alias"} \cup Manifests,
          flags : FlagSets \cup {{}}, todo : SUBSET IMAGES, image : IMAGES \cup {"none"}]
NoStage == [at |-> "none", flags |-> {}, todo |-> {}, image |-> "none"]

SiteInit ==
    /\ Init
    /\ site = [repos |-> {}, images |-> {}, applied |-> {}, dns |-> FALSE]
    /\ stage = [r \in Runs |-> NoStage] /\ aliasBy = {}

-----------------------------------------------------------------------------
(* The first half.                                                         *)

SiteStart(r) ==
    /\ stage[r].at = "none"
    /\ Start(r)
    /\ \E flags \in FlagSets : stage' = [stage EXCEPT ![r].flags = flags]
    /\ UNCHANGED <<site, aliasBy>>

(* From the token to the cookie secret and describe-secret.                *)
ClientStep(r) ==
    /\ \/ GetClient(r) \/ PutClient(r) \/ PostClient(r) \/ RegetClient(r)
       \/ GetMapper(r) \/ PutMapper(r) \/ PostMapper(r)
       \/ GetSecret(r) \/ PostSecret(r) \/ GetKey(r) \/ Describe(r)
    /\ UNCHANGED <<site, stage, aliasBy>>

Advance(r, change) ==
    /\ stage' = [stage EXCEPT ![r] = change]
    /\ UNCHANGED vars

(* Where a run goes next, past what its flags skip; the end is exit 0.     *)
Apply(flags) ==
    IF "apply" \notin flags THEN "namespace" ELSE IF "dns" \notin flags THEN "host" ELSE "none"
Mirror(flags) == IF "mirror" \notin flags THEN "login" ELSE Apply(flags)

To(r, at) == IF at = "none" THEN NoStage ELSE [stage[r] EXCEPT !.at = at]

(* put_asm                                                                 *)
Publish(r) ==
    /\ \/ run[r].at = "putValue"
       \/ run[r].at = "createSecret" /\ ~AsmExists
    /\ Publishes(r)
    /\ stage' = [stage EXCEPT ![r] = To(r, Mirror(stage[r].flags))]
    /\ UNCHANGED <<site, aliasBy>>

PublishRefused(r) ==
    /\ \/ run[r].at \in {"putValue", "createSecret"} /\ "asmWrite" \in Faults
       \/ run[r].at = "createSecret" /\ AsmExists
    /\ NotPublished(r)
    /\ UNCHANGED <<site, stage, aliasBy>>

-----------------------------------------------------------------------------
(* mirror_images                                                           *)

StageDies(r) == Advance(r, NoStage) /\ UNCHANGED <<site, aliasBy>>

Fails(r, fault) == fault \in SiteFaults /\ StageDies(r)

CraneLogin(r) ==
    /\ stage[r].at = "login"
    /\ \/ /\ Advance(r, [stage[r] EXCEPT !.at = "repo", !.todo = IMAGES])
          /\ UNCHANGED <<site, aliasBy>>
       \/ Fails(r, "crane")

(* ecr_ensure_repo, for the next image; a failed describe counts as "none",*)
(* and create-repository is refused if there is one.  The two calls, like  *)
(* those of CopyImage, are one step: whatever another run does in between  *)
(* makes the second call fail, as Fails has it.                            *)
EnsureRepo(r) ==
    /\ stage[r].at = "repo"
    /\ \/ /\ stage[r].todo = {}
          /\ Advance(r, To(r, Apply(stage[r].flags)))
          /\ UNCHANGED <<site, aliasBy>>
       \/ \E i \in stage[r].todo :
             /\ Advance(r, [stage[r] EXCEPT !.at = "image", !.todo = @ \ {i}, !.image = i])
             /\ site' = [site EXCEPT !.repos = @ \cup {i}]
             /\ UNCHANGED aliasBy
       \/ Fails(r, "ecr")

Mirrored(r) ==
    /\ Advance(r, [stage[r] EXCEPT !.at = "repo", !.image = "none"])
    /\ UNCHANGED aliasBy

(* Mutation: a copy that fails is not looked at.                           *)
CopyImageUnchecked(r) ==
    /\ stage[r].at = "image"
    /\ Mirrored(r)
    /\ \/ site' = [site EXCEPT !.images = @ \cup {stage[r].image}]
       \/ "crane" \in SiteFaults /\ UNCHANGED site

(* ecr_image_exists, then crane copy.  A present tag that is taken for     *)
(* missing is copied again, which its immutability refuses.                *)
CopyImage(r) ==
    /\ stage[r].at = "image"
    /\ \/ stage[r].image \in site.images /\ Mirrored(r) /\ UNCHANGED site
       \/ /\ stage[r].image \notin site.images
          /\ Mirrored(r)
          /\ site' = [site EXCEPT !.images = @ \cup {stage[r].image}]
       \/ Fails(r, "crane")

-----------------------------------------------------------------------------
(* apply_manifests                                                         *)

ApplyManifest(r) ==
    LET m == stage[r].at
        next == IF m = "ingress" /\ "dns" \in stage[r].flags THEN "none" ELSE AfterManifest[m]
    IN  /\ m \in Manifests
        /\ \/ /\ Advance(r, To(r, next))
              /\ site' = [site EXCEPT !.applied = @ \cup {m}]
              /\ UNCHANGED aliasBy
           \/ Fails(r, "kubectl")

(* wait_for_secret: the Secret is there, or 90 seconds have passed.        *)
WaitForSecret(r) ==
    /\ stage[r].at = "wait"
    /\ Advance(r, To(r, "deployment")) /\ UNCHANGED <<site, aliasBy>>

(* nlb_hostname, nlb_zone_id                                               *)
ResolveLoadBalancer(r) ==
    /\ stage[r].at = "host"
    /\ \/ Advance(r, To(r, "alias")) /\ UNCHANGED <<site, aliasBy>>
       \/ Fails(r, "dns")

(* upsert_route53, and exit 0.                                             *)
UpsertAlias(r) ==
    /\ stage[r].at = "alias"
    /\ \/ /\ Advance(r, NoStage)
          /\ site' = [site EXCEPT !.dns = TRUE]
          /\ aliasBy' = stage[r].flags
       \/ Fails(r, "dns")

SiteStep(r) ==
    \/ ClientStep(r) \/ Publish(r) \/ PublishRefused(r)
    \/ CraneLogin(r) \/ EnsureRepo(r) \/ CopyImage(r)
    \/ ApplyManifest(r) \/ WaitForSecret(r) \/ ResolveLoadBalancer(r) \/ UpsertAlias(r)

SiteCrash(r) ==
    \/ Crash(r) /\ UNCHANGED <<site, stage, aliasBy>>
    \/ stage[r].at # "none" /\ run[r].at = "idle" /\ StageDies(r)

-----------------------------------------------------------------------------
(* ESO syncs once the ExternalSecret is applied; the pods start when their *)
(* Secret and images are there.                                            *)
SiteSync ==
    /\ "externalsecret" \in site.applied
    /\ SyncNext
    /\ UNCHANGED <<site, stage, aliasBy>>

PodsStart ==
    /\ "oauth2-proxy" \in site.applied /\ site.images = IMAGES
    /\ RollNext
    /\ UNCHANGED <<site, stage, aliasBy>>

AdminNext ==
    /\ AdminRotates \/ AdminEdits
    /\ UNCHANGED <<site, stage, aliasBy>>

SiteNext ==
    \/ \E r \in Runs : SiteStart(r) \/ SiteStep(r) \/ SiteCrash(r)
    \/ SiteSync \/ PodsStart \/ AdminNext

SiteSpec == SiteInit /\ [][SiteNext]_siteVars

(* A started run goes on, ESO refreshes, and pods that have not started    *)
(* yet start when they can; nobody has to roll them later.                 *)
SiteFairSpec ==
    /\ SiteSpec
    /\ \A r \in Runs : WF_siteVars(SiteStep(r))
    /\ WF_siteVars(SiteSync)
    /\ WF_siteVars(app = Nothing /\ PodsStart)

-----------------------------------------------------------------------------
(* Properties.                                                             *)

(* The type invariant.                                                     *)
SiteTypeOK ==
    /\ TypeOK
    /\ site \in Site /\ stage \in [Runs -> Stage] /\ aliasBy \subseteq Flags

(* DNS comes last: the alias sends users to the site only when its secret  *)
(* is published, its images are mirrored and its manifests applied, but    *)
(* for what the run that set the alias was itself told to skip -- whatever *)
(* failed, died or was skipped in the runs before it.                      *)
DnsLast ==
    site.dns => /\ AsmExists
                /\ "mirror" \in aliasBy \/ site.images = IMAGES
                /\ "apply" \in aliasBy \/ site.applied = Manifests

(* "oauth2-proxy will stay Pending until ESO syncs it": a site that is set *)
(* up completely comes up with a client secret and a cookie secret, though *)
(* the wait for its Secret may have timed out.                             *)
SiteComesUp ==
    (site.images = IMAGES /\ site.applied = Manifests /\ AsmExists)
        ~> (app["secret"] # 0 /\ app["key"] # 0)
=============================================================================
