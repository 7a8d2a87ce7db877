---------------------------- MODULE AgentWebhook ----------------------------
(***************************************************************************)
(* scripts/setup-gitlab-agent-webhook.py: the GitLab hook that delivers    *)
(* issue events to the bridge, and what the bridge does with one, which    *)
(* --simulate reproduces: read the issue, resolve the template, and create *)
(* an AI task or a workspace that its assignee owns.                       *)
(*                                                                         *)
(* Runs of the registration may overlap, be refused, lose the answer to a  *)
(* write that was carried out, or die.  The shared secret is rotated, and  *)
(* hooks and issues are edited, at any time.  GitLab, Coder and the bridge *)
(* are external.  A token is the version of the secret; 0 is none.         *)
(***************************************************************************)
EXTENDS Naturals, FiniteSets, Sequences

CONSTANTS
    Runs,           \* registrations at work at once
    Workers,        \* issues handled at once, by the bridge or --simulate
    Issues,
    Assignees,
    LabelLists,     \* the label lists an issue may have (bound)
    Templates,      \* the templates Coder has
    Declares,       \* those that declare git_repo
    DEFAULT_TEMPLATE,
    Refused,        \* the requests that may be refused or lost
    MaxHooks,       \* bound on hooks ever created
    MaxHands,       \* bound on rotations and edits of hooks by hand
    MaxEdits,       \* bound on edits of issues
    Overlap         \* whether issues are handled while registrations run, which
                    \* only share the hooks (bound)

LabelSet == UNION {{l[k] : k \in DOMAIN l} : l \in LabelLists}

ASSUME WebhookAssumption ==
    /\ IsFiniteSet(Runs) /\ Runs # {} /\ Workers # {}
    /\ LabelLists \subseteq Seq(LabelSet)
    /\ Declares \subseteq Templates
    /\ Refused \subseteq {"asmRead", "hookRead", "hookWrite", "coderRead", "coderWrite"}
    /\ MaxHooks \in Nat /\ MaxHands \in Nat /\ MaxEdits \in Nat
    /\ Overlap \in BOOLEAN

VARIABLES
    secret,     \* ASM agent-attribution/bridge[webhook-secret]
    bridge,     \* the version the bridge has loaded
    hooks,      \* the project's hooks for the bridge URL, by id
    made,       \* hooks created so far
    reg,        \* the registration runs
    registered, \* history: a run exited 0, and since any run now at work, or
                \* that one, started nobody rotated or edited a hook
    issue,      \* assignee and labels of each issue
    events,     \* issue events on their way: pairs of issue and hook
    work,       \* the issues being handled
    spawned,    \* the tasks and workspaces of Coder
    hands, edits,
    calm        \* history: no request refused, no run dead, no hook edited

hookVars == <<secret, bridge, hooks, made, reg, registered, hands>>
issueVars == <<issue, events, work, spawned, edits>>
vars == <<hookVars, issueVars, calm>>

HookIds == 1 .. MaxHooks
Hook == [token : Nat, on : BOOLEAN]     \* on: issues_events, as in the payload
NoHook == [token |-> 0, on |-> FALSE]
Existing == {h \in HookIds : hooks[h] # NoHook}

Reg == [at : {"idle", "hooks", "put", "post"}, token : Nat, id : HookIds \cup {0},
        stable : BOOLEAN]
NoReg == [at |-> "idle", token |-> 0, id |-> 0, stable |-> TRUE]

Bodies == Templates \cup {l.slug : l \in LabelSet} \cup {DEFAULT_TEMPLATE}
Issue == [assignee : Assignees \cup {"none"}, labels : LabelLists]

Spawn == [owner : Assignees, name : Issues, kind : {"agent", "workspace"},
          template : Bodies, repo : BOOLEAN]
NoBody == [owner |-> "none", name |-> "none", kind |-> "none", template |-> "none",
           repo |-> FALSE]
Work == [at : {"idle", "issue", "template", "params", "post"}, issue : Issues \cup {"none"},
         body : Spawn \cup {NoBody}, was : SUBSET Issue]
NoWork == [at |-> "idle", issue |-> "none", body |-> NoBody, was |-> {}]

Init ==
    /\ secret \in {0, 1} /\ bridge = 0
    /\ hooks = [h \in HookIds |-> NoHook] /\ made = 0
    /\ reg = [r \in Runs |-> NoReg] /\ registered = FALSE
    /\ issue \in [Issues -> Issue]
    /\ events = {} /\ work = [w \in Workers |-> NoWork] /\ spawned = {}
    /\ hands = 0 /\ edits = 0 /\ calm = TRUE

-----------------------------------------------------------------------------
(* Registration.                                                           *)

MayOverlap ==
    \/ Overlap
    \/ /\ \A w \in Workers : work[w].at = "idle"
       /\ events = {} \/ \A r \in Runs : reg[r].at = "idle"

RegGoes(r, change) == reg' = [reg EXCEPT ![r] = change]

RegDies(r) ==
    /\ RegGoes(r, NoReg) /\ calm' = FALSE
    /\ UNCHANGED <<secret, bridge, hooks, made, registered, hands, issueVars>>

(* The secret is resolved from ASM; a failed read counts as no secret.     *)
RegStart(r) ==
    /\ reg[r].at = "idle" /\ MayOverlap
    /\ \/ RegGoes(r, [NoReg EXCEPT !.at = "hooks", !.token = secret]) /\ UNCHANGED calm
       \/ /\ "asmRead" \in Refused
          /\ RegGoes(r, [NoReg EXCEPT !.at = "hooks"]) /\ calm' = FALSE
    /\ UNCHANGED <<secret, bridge, hooks, made, registered, hands, issueVars>>

(* GET the hooks and take the first with the bridge's URL.  Only the first *)
(* page is read, and the project is taken to have no more (bound).  A plan,*)
(* or a run without a secret, ends here.                                   *)
ListHooks(r) ==
    /\ reg[r].at = "hooks"
    /\ \/ /\ reg[r].token # 0
          /\ IF Existing = {} THEN RegGoes(r, [reg[r] EXCEPT !.at = "post"])
             ELSE \E h \in Existing : RegGoes(r, [reg[r] EXCEPT !.at = "put", !.id = h])
          /\ UNCHANGED calm
       \/ RegGoes(r, NoReg) /\ UNCHANGED calm
       \/ "hookRead" \in Refused /\ RegGoes(r, NoReg) /\ calm' = FALSE
    /\ UNCHANGED <<secret, bridge, hooks, made, registered, hands, issueVars>>

(* The write is carried out; its answer arrives, exit 0, or is lost.       *)
Written(r) ==
    /\ RegGoes(r, NoReg)
    /\ \/ /\ registered' = \A q \in Runs : reg[q].at # "idle" => reg[q].stable
          /\ UNCHANGED calm
       \/ "hookWrite" \in Refused /\ UNCHANGED registered /\ calm' = FALSE
    /\ UNCHANGED <<secret, bridge, hands, issueVars>>

(* Mutation: an existing hook keeps its token.                             *)
UpdateHookEvents(r) ==
    /\ reg[r].at = "put" /\ hooks[reg[r].id] # NoHook
    /\ hooks' = [hooks EXCEPT ![reg[r].id].on = TRUE]
    /\ Written(r)
    /\ UNCHANGED made

(* PUT; a hook that has been deleted meanwhile is refused.                 *)
UpdateHook(r) ==
    /\ reg[r].at = "put"
    /\ \/ /\ hooks[reg[r].id] # NoHook
          /\ hooks' = [hooks EXCEPT ![reg[r].id] = [token |-> reg[r].token, on |-> TRUE]]
          /\ Written(r)
          /\ UNCHANGED made
       \/ (hooks[reg[r].id] = NoHook \/ "hookWrite" \in Refused) /\ RegDies(r)

(* Mutation: a POST that was not answered is sent again.                   *)
CreateHookAgain(r) ==
    /\ reg[r].at = "post" /\ made < MaxHooks
    /\ made' = made + 1
    /\ hooks' = [hooks EXCEPT ![made + 1] = [token |-> reg[r].token, on |-> TRUE]]
    /\ \/ Written(r)
       \/ UNCHANGED <<reg, secret, bridge, registered, hands, issueVars, calm>>

(* POST.                                                                   *)
CreateHook(r) ==
    /\ reg[r].at = "post"
    /\ \/ /\ made < MaxHooks /\ made' = made + 1
          /\ hooks' = [hooks EXCEPT ![made + 1] = [token |-> reg[r].token, on |-> TRUE]]
          /\ Written(r)
       \/ "hookWrite" \in Refused /\ RegDies(r)

RegCrash(r) == reg[r].at # "idle" /\ RegDies(r)

-----------------------------------------------------------------------------
(* By hand.                                                                *)

Touched ==
    /\ hands < MaxHands /\ hands' = hands + 1
    /\ registered' = FALSE /\ reg' = [r \in Runs |-> [reg[r] EXCEPT !.stable = reg[r].at = "idle"]]
    /\ UNCHANGED <<bridge, made, issueVars>>

(* The secret is put into ASM for the first time, or rotated.              *)
Rotate ==
    /\ Touched
    /\ secret' = secret + 1 /\ calm' = (calm /\ secret = 0)
    /\ UNCHANGED hooks

(* A hook is deleted, or its events are changed, in GitLab.                *)
EditHook ==
    /\ \E h \in Existing : hooks' = [hooks EXCEPT ![h] = NoHook] \/ hooks' = [hooks EXCEPT ![h].on = FALSE]
    /\ Touched
    /\ calm' = FALSE
    /\ UNCHANGED secret

(* The bridge starts with the secret of ASM.                               *)
LoadSecret ==
    /\ secret # 0 /\ bridge' = secret
    /\ UNCHANGED <<secret, hooks, made, reg, registered, hands, issueVars, calm>>

(* An issue is assigned or labelled; every hook gets an event.             *)
EditIssue ==
    /\ edits < MaxEdits /\ edits' = edits + 1
    /\ \E i \in Issues, v \in Issue :
          /\ v # issue[i] /\ issue' = [issue EXCEPT ![i] = v]
          /\ events' = events \cup {<<i, h>> : h \in {g \in Existing : hooks[g].on}}
          /\ work' = [w \in Workers |->
                         IF work[w].issue = i THEN [work[w] EXCEPT !.was = @ \cup {v}] ELSE work[w]]
    /\ UNCHANGED <<hookVars, spawned, calm>>

-----------------------------------------------------------------------------
(* Handling an issue.                                                      *)

Accepts(h) == bridge # 0 /\ hooks[h].token = bridge

WorkGoes(w, change) == work' = [work EXCEPT ![w] = change]

Free(w) == work[w].at = "idle" /\ (Overlap \/ \A r \in Runs : reg[r].at = "idle")

Takes(w, i) == WorkGoes(w, [NoWork EXCEPT !.at = "issue", !.issue = i, !.was = {issue[i]}])

(* The bridge compares X-Gitlab-Token with its secret.                     *)
Deliver(w) ==
    /\ Free(w)
    /\ \E e \in events :
          /\ events' = events \ {e}
          /\ IF Accepts(e[2]) THEN Takes(w, e[1]) ELSE UNCHANGED work
    /\ UNCHANGED <<hookVars, issue, spawned, edits, calm>>

(* --simulate --issue N --apply.  Without --apply nothing is sent.         *)
Simulate(w) ==
    /\ Free(w)
    /\ \E i \in Issues : Takes(w, i)
    /\ UNCHANGED <<hookVars, issue, events, spawned, edits, calm>>

AgentLabels == {"coder-agent", "coder-task"}

(* Mutation: the label is taken for the name of the template.              *)
extract_mode_title(labels) ==
    IF labels = <<>> THEN [kind |-> "none", slug |-> ""]
    ELSE [kind |-> "workspace", slug |-> labels[1].base]

(* Mutation: the last label wins, whatever it is.                          *)
extract_mode_last(labels) ==
    LET at == {k \in DOMAIN labels : labels[k].base \in AgentLabels \cup {"coder-workspace"}}
    IN  IF at = {} THEN [kind |-> "none", slug |-> ""]
        ELSE LET l == labels[CHOOSE k \in at : \A j \in at : j <= k]
             IN  [kind |-> IF l.base \in AgentLabels THEN "agent" ELSE "workspace", slug |-> l.slug]

(* The first agent label, else the last workspace label.                   *)
extract_mode(labels) ==
    LET ks(bases) == {k \in DOMAIN labels : labels[k].base \in bases}
        agent == ks(AgentLabels)
        ws == ks({"coder-workspace"})
    IN  IF agent # {}
        THEN [kind |-> "agent", slug |-> labels[CHOOSE k \in agent : \A j \in agent : k <= j].slug]
        ELSE IF ws # {}
        THEN [kind |-> "workspace", slug |-> labels[CHOOSE k \in ws : \A j \in ws : j <= k].slug]
        ELSE [kind |-> "none", slug |-> ""]

(* Without a Coder label or an assignee there is nothing to do.            *)
ReadIssue(w) ==
    /\ work[w].at = "issue"
    /\ LET v == issue[work[w].issue]
           mode == extract_mode(v.labels)
       IN  WorkGoes(w, IF mode.kind = "none" \/ v.assignee = "none" THEN NoWork
                       ELSE [work[w] EXCEPT !.at = "template",
                             !.body = [owner |-> v.assignee, name |-> work[w].issue,
                                       kind |-> mode.kind, repo |-> FALSE,
                                       template |-> IF mode.slug = "" THEN DEFAULT_TEMPLATE
                                                    ELSE mode.slug]])
    /\ UNCHANGED <<hookVars, issue, events, spawned, edits, calm>>

WorkDies(w) ==
    /\ WorkGoes(w, NoWork) /\ calm' = FALSE
    /\ UNCHANGED <<hookVars, issue, events, spawned, edits>>

(* The token and the active version; an unknown template ends the run.     *)
ResolveTemplate(w) ==
    /\ work[w].at = "template"
    /\ \/ /\ WorkGoes(w, IF work[w].body.template \notin Templates THEN NoWork
                         ELSE [work[w] EXCEPT !.at = IF work[w].body.kind = "agent"
                                                     THEN "post" ELSE "params"])
          /\ UNCHANGED <<hookVars, issue, events, spawned, edits, calm>>
       \/ "coderRead" \in Refused /\ WorkDies(w)

(* git_repo is sent to a template that declares it; a refused read counts  *)
(* as "not declared".                                                      *)
ReadParameters(w) ==
    /\ work[w].at = "params"
    /\ \/ /\ WorkGoes(w, [work[w] EXCEPT !.at = "post", !.body.repo = work[w].body.template \in Declares])
          /\ UNCHANGED calm
       \/ "coderRead" \in Refused /\ WorkGoes(w, [work[w] EXCEPT !.at = "post"]) /\ calm' = FALSE
    /\ UNCHANGED <<hookVars, issue, events, spawned, edits>>

(* Mutation: names are unique among all users.                             *)
TakenByAnyone(body) == \E x \in spawned : x.name = body.name

(* The name is taken if the owner has one for this issue already.          *)
Taken(body) == \E x \in spawned : x.owner = body.owner /\ x.name = body.name

(* The POST; Coder refuses a name that is taken.                           *)
SendSpawn(w) ==
    /\ work[w].at = "post"
    /\ \/ /\ spawned' = IF Taken(work[w].body) THEN spawned ELSE spawned \cup {work[w].body}
          /\ WorkGoes(w, NoWork)
          /\ UNCHANGED <<hookVars, issue, events, edits, calm>>
       \/ "coderWrite" \in Refused /\ WorkDies(w)

WorkStep(w) == ReadIssue(w) \/ ResolveTemplate(w) \/ ReadParameters(w) \/ SendSpawn(w)

WorkCrash(w) == work[w].at # "idle" /\ WorkDies(w)

RegStep(r) == ListHooks(r) \/ UpdateHook(r) \/ CreateHook(r)

Next ==
    \/ \E r \in Runs : RegStart(r) \/ RegStep(r) \/ RegCrash(r)
    \/ Rotate \/ EditHook \/ LoadSecret \/ EditIssue
    \/ \E w \in Workers : Deliver(w) \/ Simulate(w) \/ WorkStep(w) \/ WorkCrash(w)

Spec == Init /\ [][Next]_vars

(* A started run goes on, and GitLab delivers its events: the bridge takes *)
(* several at once, so --simulate cannot keep it from a delivery for ever, *)
(* as it could keep a single worker.                                       *)
FairSpec ==
    /\ Spec
    /\ \A r \in Runs : WF_vars(RegStep(r))
    /\ \A w \in Workers : WF_vars(WorkStep(w)) /\ SF_vars(Deliver(w))

-----------------------------------------------------------------------------
(* Properties.                                                             *)

(* The type invariant.                                                     *)
TypeOK ==
    /\ secret \in Nat /\ bridge \in Nat /\ hands \in Nat /\ edits \in Nat
    /\ hooks \in [HookIds -> Hook] /\ made \in 0 .. MaxHooks
    /\ reg \in [Runs -> Reg] /\ registered \in BOOLEAN /\ calm \in BOOLEAN
    /\ issue \in [Issues -> Issue] /\ events \subseteq Issues \X HookIds
    /\ work \in [Workers -> Work] /\ spawned \subseteq Spawn

(* "idempotently create or update": there are never more hooks than        *)
(* registrations at work at once, however many runs there have been, died, *)
(* or never heard of the hook they had created.  (Two at once do create    *)
(* two, and every event is then delivered twice.)                          *)
HooksPerRun == Cardinality(Existing) <= Cardinality(Runs)

(* A registration that exits 0 leaves a hook the bridge accepts: one with  *)
(* the current secret and issue events, until somebody rotates or edits.   *)
RegisteredIsCurrent ==
    registered => \E h \in Existing : hooks[h] = [token |-> secret, on |-> TRUE]

(* "The owner is always the assignee"; "Agent wins when both labels are    *)
(* present": what is created has the owner, and the kind, the issue had at *)
(* some instant since the handler took it up, and no git_repo for a        *)
(* template that does not declare it.                                      *)
SpawnedForAssignee ==
    [][\A x \in spawned' \ spawned : \E w \in Workers :
          /\ x.repo => x.template \in Declares /\ x.kind = "workspace"
          /\ \E v \in work[w].was :
                /\ work[w].issue = x.name /\ v.assignee = x.owner
                /\ x.kind = "agent" <=> \E k \in DOMAIN v.labels : v.labels[k].base \in AgentLabels]_vars

Ready(i) ==
    LET mode == extract_mode(issue[i].labels)
    IN  /\ issue[i].assignee # "none" /\ mode.kind # "none"
        /\ mode.slug = "" \/ mode.slug \in Templates

(* An event the bridge accepts ends in a task or workspace of the assignee *)
(* of the issue, if nothing goes wrong and the issue is not edited again.  *)
EventServed ==
    \A i \in Issues :
       (calm /\ edits = MaxEdits /\ Ready(i) /\ \E e \in events : e[1] = i /\ Accepts(e[2]))
          ~> (~calm \/ \E x \in spawned : x.name = i /\ x.owner = issue[i].assignee)
=============================================================================
