------------------------- MODULE AgentWebhookProofs -------------------------
(***************************************************************************)
(* Proofs about AgentWebhook, for any registrations and handlers at work   *)
(* at once, any faults, hooks, issues and edits.                           *)
(***************************************************************************)
EXTENDS AgentWebhook, FiniteSetTheorems, WellFoundedInduction, TLAPS

(* The runs about to create a hook: they saw none.                         *)
Creating == {r \in Runs : reg[r].at = "post"}

RegTypeOK ==
    /\ secret \in Nat /\ registered \in BOOLEAN
    /\ made \in 0 .. MaxHooks
    /\ hooks \in [HookIds -> Hook] /\ reg \in [Runs -> Reg]
    /\ \A h \in HookIds : h > made => hooks[h] = NoHook

(* Every hook, and every run about to create one, is owed to a run of its  *)
(* own.                                                                    *)
HooksOwed == Cardinality(Existing) + Cardinality(Creating) <= Cardinality(Runs)

(* A run that nobody disturbed works with the secret of ASM, or with none. *)
StableCurrent ==
    /\ \A r \in Runs :
          /\ reg[r].at = "put" => reg[r].id \in HookIds
          /\ reg[r].stable /\ reg[r].at = "hooks" => reg[r].token \in {0, secret}
          /\ reg[r].stable /\ reg[r].at \in {"put", "post"} => reg[r].token = secret
    /\ registered => \A r \in Runs : reg[r].at # "idle" => reg[r].stable
    /\ RegisteredIsCurrent

HInv == RegTypeOK /\ HooksOwed /\ StableCurrent

(* The hooks, and the runs about to create one, are finitely many.         *)
LEMMA AllFinite ==
  /\ IsFiniteSet(Existing) /\ IsFiniteSet(Creating)
  /\ Cardinality(Existing) \in Nat /\ Cardinality(Creating) \in Nat
  /\ Cardinality(Runs) \in Nat /\ Cardinality(Creating) <= Cardinality(Runs)
<1>1. IsFiniteSet(HookIds)
  BY FS_Interval, WebhookAssumption DEF HookIds
<1>2. IsFiniteSet(Existing)
  BY <1>1, FS_Subset DEF Existing
<1>3. IsFiniteSet(Creating) /\ Cardinality(Creating) <= Cardinality(Runs)
  BY FS_Subset, WebhookAssumption DEF Creating
<1> QED
  BY <1>2, <1>3, FS_CardinalityType, WebhookAssumption

(* While hooks only go and the runs about to create one only become fewer, *)
(* what is owed stays owed.                                                *)
LEMMA OwedKept ==
  ASSUME HooksOwed, Existing' \subseteq Existing, Creating' \subseteq Creating
  PROVE  HooksOwed'
<1>1. /\ Cardinality(Existing') <= Cardinality(Existing)
      /\ Cardinality(Creating') <= Cardinality(Creating)
      /\ IsFiniteSet(Existing') /\ IsFiniteSet(Creating')
  BY AllFinite, FS_Subset
<1>2. Cardinality(Existing') \in Nat /\ Cardinality(Creating') \in Nat
  BY <1>1, FS_CardinalityType
<1> QED
  BY <1>1, <1>2, AllFinite DEF HooksOwed

(* A run goes on without touching a hook.                                  *)
LEMMA RunGoes ==
  ASSUME HInv, NEW r \in Runs, NEW s \in Reg, RegGoes(r, s),
         UNCHANGED <<secret, hooks, made, registered>>,
         s.stable = reg[r].stable \/ s.at = "idle" \/ (s.stable /\ reg[r].at = "idle"),
         s.at = "put" => s.id \in HookIds,
         s.stable /\ s.at = "hooks" => s.token \in {0, secret},
         s.stable /\ s.at \in {"put", "post"} => s.token = secret,
         reg[r].at = "idle" => s.stable,
         s.at = "post" => Existing = {} \/ reg[r].at = "post"
  PROVE  HInv'
<1>1. RegTypeOK /\ reg' = [reg EXCEPT ![r] = s]
  BY DEF HInv, RegGoes
<1>2. \A q \in Runs : reg'[q] = IF q = r THEN s ELSE reg[q]
  BY <1>1 DEF RegTypeOK
<1>3. RegTypeOK'
  BY <1>1 DEF RegTypeOK
<1>4. Existing' = Existing
  BY DEF Existing
<1>5. HooksOwed'
  <2>1. CASE s.at = "post" /\ Existing = {}
    <3>1. IsFiniteSet(Creating') /\ Cardinality(Creating') <= Cardinality(Runs)
      BY FS_Subset, WebhookAssumption DEF Creating
    <3>2. Cardinality(Existing') = 0 /\ Cardinality(Creating') \in Nat
      BY <1>4, <2>1, <3>1, FS_EmptySet, FS_CardinalityType
    <3> QED
      BY <3>1, <3>2, AllFinite DEF HooksOwed
  <2>2. CASE s.at # "post" \/ reg[r].at = "post"
    <3>1. Creating' \subseteq Creating
      BY <1>2, <2>2 DEF Creating
    <3> QED
      BY <1>4, <3>1, OwedKept DEF HInv
  <2> QED
    BY <2>1, <2>2
<1>6. StableCurrent'
  <2>1. RegisteredIsCurrent'
    BY DEF HInv, StableCurrent, RegisteredIsCurrent, Existing
  <2>2. \A q \in Runs :
          /\ reg'[q].at = "put" => reg'[q].id \in HookIds
          /\ reg'[q].stable /\ reg'[q].at = "hooks" => reg'[q].token \in {0, secret'}
          /\ reg'[q].stable /\ reg'[q].at \in {"put", "post"} => reg'[q].token = secret'
    BY <1>2 DEF HInv, StableCurrent
  <2>3. registered' => \A q \in Runs : reg'[q].at # "idle" => reg'[q].stable
    BY <1>2 DEF HInv, StableCurrent
  <2> QED
    BY <2>1, <2>2, <2>3 DEF StableCurrent
<1> QED
  BY <1>3, <1>5, <1>6 DEF HInv

(* A run ends without writing, or dies.                                    *)
LEMMA RunEnds ==
  ASSUME HInv, NEW r \in Runs, RegGoes(r, NoReg),
         UNCHANGED <<secret, hooks, made, registered>>
  PROVE  HInv'
<1>1. NoReg \in Reg /\ NoReg.at = "idle" /\ NoReg.stable
  BY DEF NoReg, Reg
<1> QED
  BY <1>1, RunGoes

(* A run starts.                                                           *)
LEMMA RegStartKeeps == ASSUME HInv, NEW r \in Runs, RegStart(r) PROVE HInv'
<1> DEFINE m == [NoReg EXCEPT !.at = "hooks"]
<1>1. m \in Reg /\ m.at = "hooks" /\ m.token = 0 /\ m.stable
  <2>1. NoReg \in Reg /\ NoReg.token = 0 /\ NoReg.stable
    BY DEF NoReg, Reg
  <2> QED
    BY <2>1 DEF Reg
<1>2. reg[r].at = "idle" /\ UNCHANGED <<secret, hooks, made, registered>> /\ secret \in Nat
  BY DEF RegStart, HInv, RegTypeOK
<1>3. CASE RegGoes(r, m)
  <2> HIDE DEF m
  <2> QED
    BY <1>1, <1>2, <1>3, RunGoes
<1>4. CASE RegGoes(r, [NoReg EXCEPT !.at = "hooks", !.token = secret])
  <2> DEFINE s == [m EXCEPT !.token = secret]
  <2>1. RegGoes(r, s)
    BY <1>4
  <2> HIDE DEF m
  <2>2. s \in Reg /\ s.at = "hooks" /\ s.token = secret /\ s.stable
    BY <1>1, <1>2 DEF Reg
  <2> HIDE DEF s
  <2> QED
    BY <1>2, <2>1, <2>2, RunGoes
<1> QED
  BY <1>3, <1>4 DEF RegStart

(* A run lists the hooks.                                                  *)
LEMMA ListHooksKeeps == ASSUME HInv, NEW r \in Runs, ListHooks(r) PROVE HInv'
<1>1. /\ reg[r] \in Reg /\ reg[r].at = "hooks"
      /\ UNCHANGED <<secret, hooks, made, registered>>
      /\ reg[r].stable => reg[r].token \in {0, secret}
  BY DEF HInv, RegTypeOK, StableCurrent, ListHooks
<1>2. CASE RegGoes(r, NoReg)
  BY <1>1, <1>2, RunEnds
<1>3. CASE reg[r].token # 0 /\ Existing = {} /\ RegGoes(r, [reg[r] EXCEPT !.at = "post"])
  <2> DEFINE s == [reg[r] EXCEPT !.at = "post"]
  <2>1. s \in Reg /\ s.at = "post" /\ s.token = reg[r].token /\ s.stable = reg[r].stable
    BY <1>1 DEF Reg
  <2>2. RegGoes(r, s)
    BY <1>3
  <2> HIDE DEF s
  <2> QED
    BY <1>1, <1>3, <2>1, <2>2, RunGoes
<1>4. ASSUME reg[r].token # 0, NEW h \in Existing,
             RegGoes(r, [reg[r] EXCEPT !.at = "put", !.id = h])
      PROVE  HInv'
  <2> DEFINE m == [reg[r] EXCEPT !.at = "put"]
             s == [reg[r] EXCEPT !.at = "put", !.id = h]
  <2>1. m \in Reg /\ m.at = "put" /\ m.token = reg[r].token /\ m.stable = reg[r].stable
    BY <1>1 DEF Reg
  <2>2. s = [m EXCEPT !.id = h] /\ RegGoes(r, s) /\ h \in HookIds
    BY <1>4 DEF Existing
  <2> HIDE DEF m, s
  <2>3. s \in Reg /\ s.at = "put" /\ s.id = h /\ s.token = reg[r].token /\ s.stable = reg[r].stable
    BY <2>1, <2>2 DEF Reg
  <2> QED
    BY <1>1, <1>4, <2>2, <2>3, RunGoes
<1> QED
  BY <1>2, <1>3, <1>4 DEF ListHooks

(* A run writes its hook, which is the one it found or takes its own place *)
(* among those owed.                                                       *)
LEMMA WriteKeeps ==
  ASSUME HInv, NEW r \in Runs, NEW h \in HookIds,
         reg[r].at \in {"put", "post"}, Written(r),
         hooks' = [hooks EXCEPT ![h] = [token |-> reg[r].token, on |-> TRUE]],
         \/ reg[r].at = "put" /\ hooks[h] # NoHook /\ made' = made
         \/ reg[r].at = "post" /\ h = made + 1 /\ made' = made + 1
  PROVE  HInv'
<1>1. /\ RegTypeOK /\ reg[r] \in Reg /\ NoReg \in Reg /\ NoReg.at = "idle" /\ NoReg.stable
      /\ reg' = [reg EXCEPT ![r] = NoReg] /\ secret' = secret
  BY DEF HInv, RegTypeOK, NoReg, Reg, Written, RegGoes
<1>2. \A q \in Runs : reg'[q] = IF q = r THEN NoReg ELSE reg[q]
  BY <1>1 DEF RegTypeOK
<1>3. \A g \in HookIds : hooks'[g] = IF g = h THEN [token |-> reg[r].token, on |-> TRUE] ELSE hooks[g]
  BY <1>1 DEF RegTypeOK
<1>4. [token |-> reg[r].token, on |-> TRUE] \in Hook /\ MaxHooks \in Nat
  BY <1>1, WebhookAssumption DEF Hook, Reg
<1>5. registered' \in BOOLEAN
  BY <1>1 DEF Written, RegTypeOK
<1>6. RegTypeOK'
  <2>1. hooks' \in [HookIds -> Hook]
    BY <1>1, <1>4 DEF RegTypeOK
  <2>2. reg' \in [Runs -> Reg]
    BY <1>1 DEF RegTypeOK
  <2>3. made' \in 0 .. MaxHooks /\ h <= made'
    BY <1>1, <1>4, <1>3 DEF RegTypeOK, HookIds
  <2>4. \A g \in HookIds : g > made' => hooks'[g] = NoHook
    BY <1>1, <1>3, <2>3 DEF RegTypeOK, HookIds
  <2> QED
    BY <1>1, <1>5, <2>1, <2>2, <2>3, <2>4 DEF RegTypeOK
<1>7. HooksOwed'
  <2>1. CASE reg[r].at = "put" /\ hooks[h] # NoHook
    <3>1. Existing' \subseteq Existing /\ Creating' \subseteq Creating
      BY <1>1, <1>2, <1>3, <2>1 DEF Existing, Creating
    <3> QED
      BY <3>1, OwedKept DEF HInv
  <2>2. CASE reg[r].at = "post" /\ h = made + 1
    <3>1. hooks[h] = NoHook
      BY <1>1, <2>2 DEF RegTypeOK, HookIds
    <3>2. Existing' \subseteq Existing \cup {h} /\ h \notin Existing
      BY <1>3, <3>1 DEF Existing
    <3>3. Creating' = Creating \ {r} /\ r \in Creating
      BY <1>1, <1>2, <2>2 DEF Creating
    <3>4. /\ Cardinality(Existing \cup {h}) = Cardinality(Existing) + 1
          /\ IsFiniteSet(Existing \cup {h})
      BY <3>2, AllFinite, FS_AddElement
    <3>5. Cardinality(Existing') <= Cardinality(Existing) + 1 /\ IsFiniteSet(Existing')
      BY <3>2, <3>4, FS_Subset
    <3>6. Cardinality(Creating') = Cardinality(Creating) - 1
      BY <3>3, AllFinite, FS_RemoveElement
    <3>7. IsFiniteSet(Creating')
      BY <3>3, AllFinite, FS_RemoveElement
    <3>8. Cardinality(Existing') \in Nat /\ Cardinality(Creating') \in Nat
      BY <3>5, <3>7, FS_CardinalityType
    <3> QED
      BY <3>5, <3>6, <3>8, AllFinite DEF HInv, HooksOwed
  <2> QED
    BY <2>1, <2>2
<1>8. StableCurrent'
  <2>1. registered' => \A q \in Runs : reg[q].at # "idle" => reg[q].stable
    BY DEF Written, HInv, StableCurrent
  <2>2. \A q \in Runs :
          /\ reg'[q].at = "put" => reg'[q].id \in HookIds
          /\ reg'[q].stable /\ reg'[q].at = "hooks" => reg'[q].token \in {0, secret'}
          /\ reg'[q].stable /\ reg'[q].at \in {"put", "post"} => reg'[q].token = secret'
    BY <1>1, <1>2 DEF HInv, StableCurrent
  <2>3. registered' => \A q \in Runs : reg'[q].at # "idle" => reg'[q].stable
    BY <1>1, <1>2, <2>1
  <2>4. RegisteredIsCurrent'
    <3> SUFFICES ASSUME registered'
                 PROVE  h \in Existing' /\ hooks'[h] = [token |-> secret', on |-> TRUE]
      BY DEF RegisteredIsCurrent
    <3>1. reg[r].token = secret
      BY <2>1 DEF HInv, StableCurrent
    <3>2. [token |-> secret, on |-> TRUE] # NoHook
      <4>1. [token |-> secret, on |-> TRUE].on = TRUE /\ NoHook.on = FALSE
        BY DEF NoHook
      <4> QED
        BY <4>1
    <3> QED
      BY <1>1, <1>3, <3>1, <3>2 DEF Existing
  <2> QED
    BY <2>2, <2>3, <2>4 DEF StableCurrent
<1> QED
  BY <1>6, <1>7, <1>8 DEF HInv

(* The two writes, answered, lost, or refused.                             *)
LEMMA UpdateHookKeeps == ASSUME HInv, NEW r \in Runs, UpdateHook(r) PROVE HInv'
<1>1. CASE RegDies(r)
  BY <1>1, RunEnds DEF RegDies
<1>2. CASE ~RegDies(r)
  <2>1. reg[r].at = "put" /\ reg[r].id \in HookIds
    BY DEF UpdateHook, HInv, StableCurrent
  <2> QED
    BY <1>2, <2>1, WriteKeeps DEF UpdateHook
<1> QED
  BY <1>1, <1>2

(* The same of the POST.                                                   *)
LEMMA CreateHookKeeps == ASSUME HInv, NEW r \in Runs, CreateHook(r) PROVE HInv'
<1>1. CASE RegDies(r)
  BY <1>1, RunEnds DEF RegDies
<1>2. CASE ~RegDies(r)
  <2>1. reg[r].at = "post" /\ made + 1 \in HookIds
    BY <1>2, WebhookAssumption DEF CreateHook, HInv, RegTypeOK, HookIds
  <2> QED
    BY <1>2, <2>1, WriteKeeps DEF CreateHook
<1> QED
  BY <1>1, <1>2

(* What is done by hand: no run at work is undisturbed any more.           *)
LEMMA HandKeeps == ASSUME HInv, Rotate \/ EditHook PROVE HInv'
<1>1. /\ RegTypeOK /\ registered' = FALSE /\ made' = made
      /\ reg' = [r \in Runs |-> [reg[r] EXCEPT !.stable = reg[r].at = "idle"]]
  BY DEF HInv, Rotate, EditHook, Touched
<1>2. ASSUME NEW r \in Runs
      PROVE  /\ reg'[r] \in Reg /\ reg'[r].at = reg[r].at /\ reg'[r].id = reg[r].id
             /\ reg'[r].stable <=> reg[r].at = "idle"
  <2>1. reg[r] \in Reg /\ reg'[r] = [reg[r] EXCEPT !.stable = reg[r].at = "idle"]
    BY <1>1 DEF RegTypeOK
  <2> DEFINE b == reg[r].at = "idle"
  <2>2. b \in BOOLEAN /\ reg'[r] = [reg[r] EXCEPT !.stable = b]
    BY <2>1
  <2>3. b <=> reg[r].at = "idle"
    OBVIOUS
  <2> HIDE DEF b
  <2>4. reg'[r] \in Reg /\ reg'[r].at = reg[r].at /\ reg'[r].id = reg[r].id /\ reg'[r].stable = b
    BY <2>1, <2>2 DEF Reg
  <2> QED
    BY <2>3, <2>4
<1>3. /\ secret' \in Nat /\ hooks' \in [HookIds -> Hook]
      /\ \A h \in HookIds : hooks'[h] # NoHook => hooks[h] # NoHook
  <2>1. CASE Rotate
    BY <1>1, <2>1 DEF Rotate, RegTypeOK
  <2>2. CASE EditHook
    <3>1. PICK h \in Existing :
             hooks' = [hooks EXCEPT ![h] = NoHook] \/ hooks' = [hooks EXCEPT ![h].on = FALSE]
      BY <2>2 DEF EditHook
    <3>2. /\ h \in HookIds /\ hooks[h] \in Hook /\ hooks[h] # NoHook /\ NoHook \in Hook
          /\ [hooks[h] EXCEPT !.on = FALSE] \in Hook
      BY <1>1 DEF RegTypeOK, Existing, Hook, NoHook
    <3>3. CASE hooks' = [hooks EXCEPT ![h] = NoHook]
      BY <1>1, <2>2, <3>2, <3>3 DEF EditHook, RegTypeOK
    <3>4. CASE hooks' = [hooks EXCEPT ![h] = [hooks[h] EXCEPT !.on = FALSE]]
      BY <1>1, <2>2, <3>2, <3>4 DEF EditHook, RegTypeOK
    <3> QED
      BY <3>1, <3>3, <3>4
  <2> QED
    BY <2>1, <2>2
<1>4. RegTypeOK'
  BY <1>1, <1>2, <1>3 DEF RegTypeOK
<1>5. HooksOwed'
  <2>1. Existing' \subseteq Existing /\ Creating' \subseteq Creating
    BY <1>2, <1>3 DEF Existing, Creating
  <2> QED
    BY <2>1, OwedKept DEF HInv
<1>6. StableCurrent'
  BY <1>1, <1>2 DEF HInv, StableCurrent, RegisteredIsCurrent
<1> QED
  BY <1>4, <1>5, <1>6 DEF HInv

(* Nothing that concerns the hooks happens.                                *)
LEMMA HooksKept ==
  ASSUME HInv, UNCHANGED <<secret, hooks, made, reg, registered>> PROVE HInv'
BY DEF HInv, RegTypeOK, HooksOwed, StableCurrent, RegisteredIsCurrent, Existing, Creating

(* The invariant of the hooks is inductive.                                *)
LEMMA HooksNext == HInv /\ [Next]_vars => HInv'
<1> SUFFICES ASSUME HInv, [Next]_vars PROVE HInv'
  OBVIOUS
<1>1. ASSUME NEW r \in Runs, RegStart(r) \/ RegStep(r) PROVE HInv'
  BY <1>1, RegStartKeeps, ListHooksKeeps, UpdateHookKeeps, CreateHookKeeps DEF RegStep
<1>2. ASSUME NEW r \in Runs, RegCrash(r) PROVE HInv'
  BY <1>2, RunEnds DEF RegCrash, RegDies
<1>3. CASE Rotate \/ EditHook
  BY <1>3, HandKeeps
<1>4. CASE LoadSecret \/ EditIssue \/ UNCHANGED vars
  BY <1>4, HooksKept DEF LoadSecret, EditIssue, vars, hookVars
<1>5. ASSUME NEW w \in Workers, Deliver(w) \/ Simulate(w) \/ WorkStep(w) \/ WorkCrash(w)
      PROVE  HInv'
  BY <1>5, HooksKept DEF Deliver, Simulate, WorkStep, WorkCrash, ReadIssue,
    ResolveTemplate, ReadParameters, SendSpawn, WorkDies, hookVars
<1> QED
  BY <1>1, <1>2, <1>3, <1>4, <1>5 DEF Next

(* It holds at the start.                                                  *)
LEMMA HooksInit == Init => HInv
<1> SUFFICES ASSUME Init PROVE HInv
  OBVIOUS
<1>1. NoReg \in Reg /\ NoReg.at = "idle" /\ NoHook \in Hook
  BY DEF NoReg, Reg, NoHook, Hook
<1>2. RegTypeOK
  <2>1. /\ hooks = [h \in HookIds |-> NoHook] /\ made = 0 /\ MaxHooks \in Nat
        /\ reg = [r \in Runs |-> NoReg] /\ registered = FALSE /\ secret \in {0, 1}
    BY WebhookAssumption DEF Init
  <2>2. secret \in Nat /\ made \in 0 .. MaxHooks
    BY <2>1
  <2> QED
    BY <1>1, <2>1, <2>2 DEF RegTypeOK
<1>3. HooksOwed
  <2>1. Existing = {} /\ Creating = {}
    BY <1>1 DEF Init, Existing, Creating
  <2> QED
    BY <2>1, FS_EmptySet, AllFinite DEF HooksOwed
<1> QED
  BY <1>1, <1>2, <1>3 DEF Init, HInv, StableCurrent, RegisteredIsCurrent

(* It holds always.                                                        *)
THEOREM HooksInvariant == Spec => []HInv
  BY HooksInit, HooksNext, PTL DEF Spec

(* There are never more hooks than registrations at work at once, however  *)
(* many runs there have been, died, or lost the answer to a write.         *)
THEOREM HooksPerRunAlways == Spec => []HooksPerRun
<1>1. HInv => HooksPerRun
  BY AllFinite DEF HInv, HooksOwed, HooksPerRun
<1> QED
  BY HooksInvariant, <1>1, PTL

(* A registration that exits 0 leaves a hook with the current secret,      *)
(* whatever other registrations were at work.                              *)
THEOREM RegisteredIsCurrentAlways == Spec => []RegisteredIsCurrent
<1>1. HInv => RegisteredIsCurrent
  BY DEF HInv, StableCurrent
<1> QED
  BY HooksInvariant, <1>1, PTL

-----------------------------------------------------------------------------
(* What a handler has resolved is what the issue said when it read it.     *)

HasAgent(v) == \E k \in DOMAIN v.labels : v.labels[k].base \in AgentLabels

BodyTrue(x) ==
    /\ x.body.name = x.issue
    /\ x.body.kind \in {"agent", "workspace"}
    /\ x.body.repo => x.body.template \in Declares /\ x.body.kind = "workspace"
    /\ x.at \in {"template", "params"} => ~x.body.repo
    /\ x.at = "params" => x.body.kind = "workspace"
    /\ \E v \in x.was : v.assignee = x.body.owner /\ (x.body.kind = "agent" <=> HasAgent(v))

Slugs == {extract_mode(l).slug : l \in LabelLists}

WorkRecord == [at : {"idle", "issue", "template", "params", "post"},
               issue : Issues \cup {"none"},
               body : [owner : Assignees \cup {"none"}, name : Issues \cup {"none"},
                       kind : {"agent", "workspace", "none"},
                       template : Slugs \cup {DEFAULT_TEMPLATE, "none"}, repo : BOOLEAN],
               was : SUBSET Issue]

WorkTrue ==
    /\ issue \in [Issues -> Issue]
    /\ work \in [Workers -> WorkRecord]
    /\ \A w \in Workers :
          /\ work[w].at \in {"template", "params", "post"} => BodyTrue(work[w])
          /\ work[w].at = "issue" => work[w].issue \in Issues /\ issue[work[w].issue] \in work[w].was

(* A handler goes on to a state of which the invariant holds.              *)
LEMMA WorkMoves ==
  ASSUME WorkTrue, NEW w \in Workers, NEW x \in WorkRecord, WorkGoes(w, x),
         UNCHANGED issue,
         x.at \in {"template", "params", "post"} => BodyTrue(x),
         x.at = "issue" => x.issue \in Issues /\ issue[x.issue] \in x.was
  PROVE  WorkTrue'
<1>1. /\ work' = [work EXCEPT ![w] = x] /\ work \in [Workers -> WorkRecord]
      /\ issue' = issue
  BY DEF WorkGoes, WorkTrue
<1>2. \A u \in Workers : work'[u] = IF u = w THEN x ELSE work[u]
  BY <1>1
<1>3. work' \in [Workers -> WorkRecord]
  BY <1>1
<1>4. ASSUME NEW u \in Workers
      PROVE  /\ work'[u].at \in {"template", "params", "post"} => BodyTrue(work'[u])
             /\ work'[u].at = "issue"
                  => work'[u].issue \in Issues /\ issue'[work'[u].issue] \in work'[u].was
  <2>1. CASE u = w
    BY <1>1, <1>2, <2>1
  <2>2. CASE u # w
    BY <1>1, <1>2, <2>2 DEF WorkTrue
  <2> QED
    BY <2>1, <2>2
<1> QED
  BY <1>1, <1>3, <1>4 DEF WorkTrue

(* An idle handler is well formed.                                         *)
LEMMA NoWorkTyped == NoWork \in WorkRecord /\ NoWork.at = "idle"
<1>1. NoBody \in [owner : Assignees \cup {"none"}, name : Issues \cup {"none"},
                  kind : {"agent", "workspace", "none"},
                  template : Slugs \cup {DEFAULT_TEMPLATE, "none"}, repo : BOOLEAN]
  BY DEF NoBody
<1> QED
  BY <1>1 DEF NoWork, WorkRecord

(* A handler that is done, or dies, is idle.                               *)
LEMMA WorkEnds ==
  ASSUME WorkTrue, NEW w \in Workers, WorkGoes(w, NoWork), UNCHANGED issue
  PROVE  WorkTrue'
BY NoWorkTyped, WorkMoves

(* An issue is taken up.                                                   *)
LEMMA TakesKeeps ==
  ASSUME WorkTrue, NEW w \in Workers, NEW i \in Issues, Takes(w, i), UNCHANGED issue
  PROVE  WorkTrue'
<1> DEFINE y == [NoWork EXCEPT !.at = "issue"]
           z == [y EXCEPT !.issue = i]
           x == [z EXCEPT !.was = {issue[i]}]
<1>1. WorkGoes(w, x) /\ issue[i] \in Issue
  BY DEF Takes, WorkTrue
<1>2. y \in WorkRecord /\ y.at = "issue"
  BY NoWorkTyped DEF WorkRecord
<1> HIDE DEF y
<1>3. z \in WorkRecord /\ z.at = "issue" /\ z.issue = i
  BY <1>2 DEF WorkRecord
<1> HIDE DEF z
<1>4. x \in WorkRecord /\ x.at = "issue" /\ x.issue = i /\ x.was = {issue[i]}
  BY <1>1, <1>3 DEF WorkRecord
<1> HIDE DEF x
<1> QED
  BY <1>1, <1>4, WorkMoves

(* The mode of an issue is "agent" exactly if it has an agent label.       *)
LEMMA ModeIsLabel ==
  ASSUME NEW v \in Issue
  PROVE  extract_mode(v.labels).kind = "agent" <=> HasAgent(v)
<1> DEFINE agent == {k \in DOMAIN v.labels : v.labels[k].base \in AgentLabels}
           ws == {k \in DOMAIN v.labels : v.labels[k].base \in {"coder-workspace"}}
<1>1. agent # {} <=> HasAgent(v)
  BY DEF HasAgent
<1>2. extract_mode(v.labels).kind
        = IF agent # {} THEN "agent" ELSE IF ws # {} THEN "workspace" ELSE "none"
  BY DEF extract_mode
<1> HIDE DEF agent, ws
<1> QED
  BY <1>1, <1>2

(* Reading the issue fixes whose the task is and of what kind.             *)
LEMMA ReadIssueKeeps ==
  ASSUME WorkTrue, NEW w \in Workers, ReadIssue(w) PROVE WorkTrue'
<1> DEFINE v == issue[work[w].issue]
           mode == extract_mode(v.labels)
           slug == IF mode.slug = "" THEN DEFAULT_TEMPLATE ELSE mode.slug
           body == [owner |-> v.assignee, name |-> work[w].issue, kind |-> mode.kind,
                    repo |-> FALSE, template |-> slug]
           x == [work[w] EXCEPT !.at = "template", !.body = body]
<1>1. /\ work[w] \in WorkRecord /\ work[w].issue \in Issues /\ v \in work[w].was
      /\ v \in Issue /\ UNCHANGED issue
  BY DEF ReadIssue, WorkTrue
<1>2. CASE WorkGoes(w, NoWork)
  BY <1>1, <1>2, WorkEnds
<1>3. CASE mode.kind # "none" /\ v.assignee # "none" /\ WorkGoes(w, x)
  <2>1. v.labels \in LabelLists /\ v.assignee \in Assignees
    BY <1>1, <1>3 DEF Issue
  <2>2. mode.slug \in Slugs
    BY <2>1 DEF Slugs
  <2>3. mode.kind = "agent" <=> HasAgent(v)
    BY <1>1, ModeIsLabel
  <2>4. mode.kind \in {"agent", "workspace"}
    <3>1. mode.kind \in {"agent", "workspace", "none"}
      BY DEF extract_mode
    <3> QED
      BY <1>3, <3>1
  <2> HIDE DEF mode
  <2>5. slug \in Slugs \cup {DEFAULT_TEMPLATE, "none"}
    BY <2>2
  <2> HIDE DEF slug
  <2>6. /\ body \in [owner : Assignees \cup {"none"}, name : Issues \cup {"none"},
                     kind : {"agent", "workspace", "none"},
                     template : Slugs \cup {DEFAULT_TEMPLATE, "none"}, repo : BOOLEAN]
        /\ body.name = work[w].issue /\ body.kind = mode.kind /\ ~body.repo
        /\ body.owner = v.assignee
    BY <1>1, <2>1, <2>4, <2>5
  <2> DEFINE y == [work[w] EXCEPT !.at = "template"]
  <2>7. /\ y \in WorkRecord /\ y.at = "template" /\ y.issue = work[w].issue
        /\ y.was = work[w].was
    BY <1>1 DEF WorkRecord
  <2>8. x = [y EXCEPT !.body = body]
    OBVIOUS
  <2> HIDE DEF body, y
  <2>9. /\ x \in WorkRecord /\ x.at = "template" /\ x.issue = work[w].issue
        /\ x.was = work[w].was /\ x.body = body
    BY <2>6, <2>7, <2>8 DEF WorkRecord
  <2> HIDE DEF x, v
  <2>10. BodyTrue(x)
    BY <1>1, <2>3, <2>4, <2>6, <2>9 DEF BodyTrue
  <2> QED
    BY <1>1, <1>3, <2>9, <2>10, WorkMoves
<1> QED
  BY <1>2, <1>3 DEF ReadIssue

(* Resolving the template keeps the body.                                  *)
LEMMA ResolveKeeps ==
  ASSUME WorkTrue, NEW w \in Workers, ResolveTemplate(w) PROVE WorkTrue'
<1>1. /\ work[w] \in WorkRecord /\ BodyTrue(work[w]) /\ UNCHANGED issue
      /\ work[w].at = "template"
  BY DEF ResolveTemplate, WorkTrue, WorkDies
<1>2. CASE WorkGoes(w, NoWork)
  BY <1>1, <1>2, WorkEnds
<1>3. ASSUME NEW to \in {"post", "params"}, WorkGoes(w, [work[w] EXCEPT !.at = to]),
             to = "params" => work[w].body.kind # "agent"
      PROVE  WorkTrue'
  <2> DEFINE x == [work[w] EXCEPT !.at = to]
  <2>1. /\ x \in WorkRecord /\ x.at = to /\ x.issue = work[w].issue
        /\ x.was = work[w].was /\ x.body = work[w].body
    BY <1>1 DEF WorkRecord
  <2>2. WorkGoes(w, x)
    BY <1>3
  <2> HIDE DEF x
  <2>3. BodyTrue(x)
    BY <1>1, <1>3, <2>1 DEF BodyTrue
  <2> QED
    BY <1>1, <2>1, <2>2, <2>3, WorkMoves
<1>4. CASE work[w].body.kind = "agent" /\ WorkGoes(w, [work[w] EXCEPT !.at = "post"])
  BY <1>3, <1>4
<1>5. CASE work[w].body.kind # "agent" /\ WorkGoes(w, [work[w] EXCEPT !.at = "params"])
  BY <1>3, <1>5
<1> QED
  BY <1>2, <1>4, <1>5 DEF ResolveTemplate, WorkDies

(* A workspace gets git_repo only if its template declares it.             *)
LEMMA ParametersKeep ==
  ASSUME WorkTrue, NEW w \in Workers, ReadParameters(w) PROVE WorkTrue'
<1>1. /\ work[w] \in WorkRecord /\ BodyTrue(work[w]) /\ UNCHANGED issue
      /\ work[w].at = "params"
  BY DEF ReadParameters, WorkTrue
<1>2. ASSUME NEW repo \in BOOLEAN, repo => work[w].body.template \in Declares,
             WorkGoes(w, [work[w] EXCEPT !.at = "post", !.body.repo = repo])
      PROVE  WorkTrue'
  <2> DEFINE y == [work[w] EXCEPT !.at = "post"]
             body == [work[w].body EXCEPT !.repo = repo]
             x == [y EXCEPT !.body = body]
  <2>1. /\ body.owner = work[w].body.owner /\ body.name = work[w].body.name
        /\ body.kind = work[w].body.kind /\ body.template = work[w].body.template
        /\ body.repo = repo
        /\ body \in [owner : Assignees \cup {"none"}, name : Issues \cup {"none"},
                     kind : {"agent", "workspace", "none"},
                     template : Slugs \cup {DEFAULT_TEMPLATE, "none"}, repo : BOOLEAN]
    BY <1>1 DEF WorkRecord
  <2>2. y \in WorkRecord /\ y.at = "post" /\ y.issue = work[w].issue /\ y.was = work[w].was
        /\ y.body = work[w].body
    BY <1>1 DEF WorkRecord
  <2>3. WorkGoes(w, x)
    BY <1>2, <2>2
  <2> HIDE DEF body, y
  <2>4. x \in WorkRecord /\ x.at = "post" /\ x.issue = work[w].issue /\ x.was = work[w].was
        /\ x.body = body
    BY <2>1, <2>2 DEF WorkRecord
  <2> HIDE DEF x
  <2>5. BodyTrue(x)
    BY <1>1, <1>2, <2>1, <2>4 DEF BodyTrue
  <2> QED
    BY <1>1, <2>3, <2>4, <2>5, WorkMoves
<1>3. CASE WorkGoes(w, [work[w] EXCEPT !.at = "post", !.body.repo = work[w].body.template \in Declares])
  <2> DEFINE declared == work[w].body.template \in Declares
  <2>1. declared \in BOOLEAN /\ (declared => work[w].body.template \in Declares)
    OBVIOUS
  <2>2. WorkGoes(w, [work[w] EXCEPT !.at = "post", !.body.repo = declared])
    BY <1>3
  <2> HIDE DEF declared
  <2> QED
    BY <1>2, <2>1, <2>2
<1>4. CASE WorkGoes(w, [work[w] EXCEPT !.at = "post"])
  <2> DEFINE x == [work[w] EXCEPT !.at = "post"]
  <2>1. /\ x \in WorkRecord /\ x.at = "post" /\ x.issue = work[w].issue
        /\ x.was = work[w].was /\ x.body = work[w].body
    BY <1>1 DEF WorkRecord
  <2>2. WorkGoes(w, x)
    BY <1>4
  <2> HIDE DEF x
  <2>3. BodyTrue(x)
    BY <1>1, <2>1 DEF BodyTrue
  <2> QED
    BY <1>1, <2>1, <2>2, <2>3, WorkMoves
<1>5. CASE WorkDies(w)
  BY <1>1, <1>5, WorkEnds DEF WorkDies
<1> QED
  BY <1>3, <1>4, <1>5 DEF ReadParameters, WorkDies

(* An edit of an issue adds to what the issue was.                         *)
LEMMA EditIssueKeeps == ASSUME WorkTrue, EditIssue PROVE WorkTrue'
<1>1. PICK i \in Issues, v \in Issue :
         /\ issue' = [issue EXCEPT ![i] = v]
         /\ work' = [w \in Workers |->
                        IF work[w].issue = i THEN [work[w] EXCEPT !.was = @ \cup {v}] ELSE work[w]]
  BY DEF EditIssue
<1>2. issue' \in [Issues -> Issue]
  BY <1>1 DEF WorkTrue
<1>3. ASSUME NEW w \in Workers
      PROVE  /\ work'[w] \in WorkRecord
             /\ work'[w].at \in {"template", "params", "post"} => BodyTrue(work'[w])
             /\ work'[w].at = "issue"
                  => work'[w].issue \in Issues /\ issue'[work'[w].issue] \in work'[w].was
  <2>1. work[w] \in WorkRecord
    BY DEF WorkTrue
  <2>2. CASE work[w].issue = i
    <3> DEFINE x == [work[w] EXCEPT !.was = @ \cup {v}]
    <3>1. work'[w] = x
      BY <1>1, <2>2
    <3>2. /\ x \in WorkRecord /\ x.at = work[w].at /\ x.issue = i
          /\ x.body = work[w].body /\ x.was = work[w].was \cup {v}
      BY <2>1, <2>2 DEF WorkRecord
    <3> HIDE DEF x
    <3>3. x.at \in {"template", "params", "post"} => BodyTrue(x)
      BY <2>2, <3>2 DEF WorkTrue, BodyTrue
    <3>4. issue'[i] = v
      BY <1>1 DEF WorkTrue
    <3> QED
      BY <3>1, <3>2, <3>3, <3>4
  <2>3. CASE work[w].issue # i
    <3>1. work'[w] = work[w]
      BY <1>1, <2>3
    <3>2. work[w].issue \in Issues => issue'[work[w].issue] = issue[work[w].issue]
      BY <1>1, <2>3 DEF WorkTrue
    <3> QED
      BY <2>1, <3>1, <3>2 DEF WorkTrue
  <2> QED
    BY <2>2, <2>3
<1>4. work' \in [Workers -> WorkRecord]
  <2>1. work' = [w \in Workers |-> work'[w]]
    BY <1>1
  <2> QED
    BY <1>3, <2>1
<1> QED
  BY <1>2, <1>3, <1>4 DEF WorkTrue

(* An event is about an issue.                                             *)
EventsTyped == \A e \in events : e[1] \in Issues

(* Only an edit of an issue makes events.                                  *)
LEMMA EventsNext == EventsTyped /\ [Next]_vars => EventsTyped'
<1> SUFFICES ASSUME EventsTyped, [Next]_vars PROVE EventsTyped'
  OBVIOUS
<1>1. CASE EditIssue
  BY <1>1 DEF EditIssue, EventsTyped
<1>2. CASE ~EditIssue
  <2>1. events' \subseteq events
    BY <1>2 DEF Next, RegStart, RegStep, RegCrash, RegDies, ListHooks, UpdateHook, CreateHook,
      Written, Rotate, EditHook, Touched, LoadSecret, Deliver, Simulate, WorkStep, SendSpawn,
      WorkCrash, WorkDies, ReadIssue, ResolveTemplate, ReadParameters, issueVars, vars
  <2> QED
    BY <2>1 DEF EventsTyped
<1> QED
  BY <1>1, <1>2

(* The invariant of the handlers is inductive.                             *)
LEMMA WorkNext == EventsTyped /\ WorkTrue /\ [Next]_vars => WorkTrue'
<1> SUFFICES ASSUME EventsTyped, WorkTrue, [Next]_vars PROVE WorkTrue'
  OBVIOUS
<1>1. CASE UNCHANGED <<issue, work>>
  BY <1>1 DEF WorkTrue
<1>2. ASSUME NEW r \in Runs, RegStart(r) \/ RegStep(r) \/ RegCrash(r)
      PROVE  UNCHANGED <<issue, work>>
  BY <1>2 DEF RegStart, RegStep, RegCrash, RegDies, ListHooks, UpdateHook, CreateHook,
    Written, issueVars
<1>3. CASE Rotate \/ EditHook \/ LoadSecret \/ UNCHANGED vars
  BY <1>1, <1>3 DEF Rotate, EditHook, Touched, LoadSecret, issueVars, vars
<1>4. ASSUME NEW w \in Workers, Deliver(w) \/ Simulate(w) PROVE WorkTrue'
  <2>1. UNCHANGED issue
    BY <1>4 DEF Deliver, Simulate
  <2>2. CASE \E i \in Issues : Takes(w, i)
    BY <2>1, <2>2, TakesKeeps
  <2>3. CASE \E e \in events : Takes(w, e[1])
    <3>1. PICK e \in events : Takes(w, e[1])
      BY <2>3
    <3> QED
      BY <2>1, <3>1, TakesKeeps DEF EventsTyped
  <2> QED
    BY <1>1, <1>4, <2>1, <2>2, <2>3 DEF Deliver, Simulate
<1>5. ASSUME NEW w \in Workers, WorkStep(w) PROVE WorkTrue'
  <2>1. CASE SendSpawn(w)
    BY <2>1, WorkEnds DEF SendSpawn, WorkDies
  <2> QED
    BY <1>5, <2>1, ReadIssueKeeps, ResolveKeeps, ParametersKeep DEF WorkStep
<1>6. ASSUME NEW w \in Workers, WorkCrash(w) PROVE WorkTrue'
  BY <1>6, WorkEnds DEF WorkCrash, WorkDies
<1>7. CASE EditIssue
  BY <1>7, EditIssueKeeps
<1> QED
  BY <1>1, <1>2, <1>3, <1>4, <1>5, <1>6, <1>7 DEF Next

(* For any handlers at work at once and any edits meanwhile: what is       *)
(* created has the owner and the kind the issue had when it was read, and  *)
(* no parameter its template does not declare.                             *)
THEOREM SpawnedForAssigneeAlways == Spec => SpawnedForAssignee
<1>1. Init => EventsTyped /\ WorkTrue
  BY NoWorkTyped DEF Init, EventsTyped, WorkTrue
<1>2. WorkTrue /\ [Next]_vars
        => [\A x \in spawned' \ spawned : \E w \in Workers :
              /\ x.repo => x.template \in Declares /\ x.kind = "workspace"
              /\ \E v \in work[w].was :
                    /\ work[w].issue = x.name /\ v.assignee = x.owner
                    /\ x.kind = "agent" <=> \E k \in DOMAIN v.labels : v.labels[k].base \in AgentLabels]_vars
  <2> SUFFICES ASSUME WorkTrue, Next, NEW x \in spawned' \ spawned
               PROVE  \E w \in Workers :
                        /\ x.repo => x.template \in Declares /\ x.kind = "workspace"
                        /\ \E v \in work[w].was :
                              /\ work[w].issue = x.name /\ v.assignee = x.owner
                              /\ x.kind = "agent" <=> \E k \in DOMAIN v.labels : v.labels[k].base \in AgentLabels
    OBVIOUS
  <2>1. spawned' # spawned
    OBVIOUS
  <2>2. PICK w \in Workers : SendSpawn(w)
    BY <2>1 DEF Next, RegStart, RegStep, RegCrash, RegDies, ListHooks, UpdateHook, CreateHook,
      Written, Rotate, EditHook, Touched, LoadSecret, EditIssue, Deliver, Simulate, WorkStep,
      WorkCrash, WorkDies, ReadIssue, ResolveTemplate, ReadParameters, issueVars
  <2>3. x = work[w].body /\ work[w].at = "post"
    BY <2>1, <2>2 DEF SendSpawn, WorkDies
  <2>4. BodyTrue(work[w])
    BY <2>3 DEF WorkTrue
  <2> QED
    BY <2>3, <2>4 DEF BodyTrue, HasAgent
<1> QED
  BY <1>1, <1>2, EventsNext, WorkNext, PTL DEF Spec, SpawnedForAssignee

-----------------------------------------------------------------------------
(* Which label decides.                                                    *)

(* A set of numbers that is not empty has a first.                         *)
LEMMA HasFirst ==
  ASSUME NEW T \in SUBSET Nat, T # {}
  PROVE  \E k \in T : \A j \in T : k <= j
<1>1. PICK k \in T : \A j \in T : ~ (<<j, k>> \in OpToRel(<, Nat))
  BY NatLessThanWellFounded, WFMin
<1>2. \A j \in T : ~(j < k)
  BY <1>1 DEF OpToRel
<1> QED
  BY <1>2

(* A set of positions in a list that is not empty has a last.              *)
LEMMA HasLast ==
  ASSUME NEW n \in Nat, NEW T \in SUBSET (1 .. n), T # {}
  PROVE  \E k \in T : \A j \in T : j <= k
<1> DEFINE U == {n - k : k \in T}
<1>1. U \in SUBSET Nat /\ U # {}
  <2>1. \A k \in T : n - k \in Nat
    OBVIOUS
  <2> QED
    BY <2>1
<1>2. PICK u \in U : \A v \in U : u <= v
  BY <1>1, HasFirst
<1>3. PICK k \in T : u = n - k
  BY <1>2
<1>4. \A j \in T : n - k <= n - j
  BY <1>2, <1>3
<1> QED
  BY <1>3, <1>4

(* "Agent wins": the first agent label of an issue decides, or else its    *)
(* last workspace label; the template is the one that label names.         *)
LEMMA ModeIsFromLabel ==
  ASSUME NEW labels \in LabelLists, extract_mode(labels).kind # "none"
  PROVE  \E k \in DOMAIN labels :
            /\ extract_mode(labels).slug = labels[k].slug
            /\ \/ /\ labels[k].base \in AgentLabels
                  /\ \A j \in DOMAIN labels : labels[j].base \in AgentLabels => k <= j
               \/ /\ labels[k].base = "coder-workspace"
                  /\ \A j \in DOMAIN labels : labels[j].base \notin AgentLabels
                  /\ \A j \in DOMAIN labels : labels[j].base = "coder-workspace" => j <= k
<1> DEFINE agent == {k \in DOMAIN labels : labels[k].base \in AgentLabels}
           ws == {k \in DOMAIN labels : labels[k].base \in {"coder-workspace"}}
           first == CHOOSE k \in agent : \A j \in agent : k <= j
           last == CHOOSE k \in ws : \A j \in ws : j <= k
<1>1. labels \in Seq(LabelSet)
  BY WebhookAssumption
<1>2. DOMAIN labels = 1 .. Len(labels) /\ Len(labels) \in Nat
  BY <1>1
<1>3. extract_mode(labels)
        = IF agent # {} THEN [kind |-> "agent", slug |-> labels[first].slug]
          ELSE IF ws # {} THEN [kind |-> "workspace", slug |-> labels[last].slug]
          ELSE [kind |-> "none", slug |-> ""]
  BY DEF extract_mode
<1>4. CASE agent # {}
  <2>1. agent \in SUBSET Nat
    BY <1>2
  <2>2. first \in agent /\ \A j \in agent : first <= j
    BY <1>4, <2>1, HasFirst
  <2>3. extract_mode(labels).slug = labels[first].slug
    BY <1>3, <1>4
  <2> HIDE DEF first
  <2> QED
    BY <2>2, <2>3
<1>5. CASE agent = {} /\ ws # {}
  <2>1. ws \in SUBSET (1 .. Len(labels))
    BY <1>2
  <2>2. last \in ws /\ \A j \in ws : j <= last
    BY <1>2, <1>5, <2>1, HasLast
  <2>3. extract_mode(labels).slug = labels[last].slug
    BY <1>3, <1>5
  <2> HIDE DEF last
  <2> QED
    BY <1>5, <2>2, <2>3
<1>6. CASE agent = {} /\ ws = {}
  <2> DEFINE m == extract_mode(labels)
  <2>1. m = [kind |-> "none", slug |-> ""] /\ m.kind # "none"
    BY <1>3, <1>6
  <2> HIDE DEF m
  <2> QED
    BY <2>1
<1> QED
  BY <1>4, <1>5, <1>6

-----------------------------------------------------------------------------
(* The type invariant.                                                     *)

Resolved == {"template", "params", "post"}

RestTypeOK ==
    /\ bridge \in Nat /\ hands \in Nat /\ edits \in Nat /\ calm \in BOOLEAN
    /\ events \subseteq Issues \X HookIds /\ spawned \subseteq Spawn
    /\ \A w \in Workers :
          /\ work[w].at \in Resolved => work[w].body \in Spawn
          /\ work[w].body \in Spawn \cup {NoBody}

(* A handler goes on with a body, or is done.                              *)
LEMMA BodyMoves ==
  ASSUME WorkTrue, RestTypeOK, NEW w \in Workers, NEW x, WorkGoes(w, x),
         x.at \in Resolved => x.body \in Spawn, x.body \in Spawn \cup {NoBody}
  PROVE  \A u \in Workers : /\ work'[u].at \in Resolved => work'[u].body \in Spawn
                            /\ work'[u].body \in Spawn \cup {NoBody}
<1>1. \A u \in Workers : work'[u] = IF u = w THEN x ELSE work[u]
  BY DEF WorkTrue, WorkGoes
<1> QED
  BY <1>1 DEF RestTypeOK

(* The issue that is read gives a body.                                    *)
LEMMA IssueBody ==
  ASSUME WorkTrue, RestTypeOK, NEW w \in Workers, ReadIssue(w)
  PROVE  \A u \in Workers : /\ work'[u].at \in Resolved => work'[u].body \in Spawn
                            /\ work'[u].body \in Spawn \cup {NoBody}
<1> DEFINE v == issue[work[w].issue]
           mode == extract_mode(v.labels)
           slug == IF mode.slug = "" THEN DEFAULT_TEMPLATE ELSE mode.slug
           body == [owner |-> v.assignee, name |-> work[w].issue, kind |-> mode.kind,
                    repo |-> FALSE, template |-> slug]
           x == [work[w] EXCEPT !.at = "template", !.body = body]
<1>1. work[w] \in WorkRecord /\ work[w].issue \in Issues /\ v \in Issue
  BY DEF ReadIssue, WorkTrue
<1>2. CASE WorkGoes(w, NoWork)
  <2>1. NoWork.at \notin Resolved /\ NoWork.body = NoBody
    BY DEF NoWork, Resolved
  <2> QED
    BY <1>2, <2>1, BodyMoves
<1>3. CASE mode.kind # "none" /\ v.assignee # "none" /\ WorkGoes(w, x)
  <2>1. v.labels \in LabelLists /\ v.assignee \in Assignees
    BY <1>1, <1>3 DEF Issue
  <2>2. mode.kind \in {"agent", "workspace"}
    <3>1. mode.kind \in {"agent", "workspace", "none"}
      BY DEF extract_mode
    <3> QED
      BY <1>3, <3>1
  <2>3. PICK k \in DOMAIN v.labels : mode.slug = v.labels[k].slug
    BY <1>3, <2>1, ModeIsFromLabel
  <2>4. v.labels[k] \in LabelSet
    BY <2>1 DEF LabelSet
  <2> HIDE DEF mode
  <2>5. slug \in Bodies
    BY <2>3, <2>4 DEF Bodies
  <2> HIDE DEF slug, v
  <2>6. body \in Spawn
    BY <1>1, <2>1, <2>2, <2>5 DEF Spawn
  <2> DEFINE y == [work[w] EXCEPT !.at = "template"]
  <2>7. y \in WorkRecord
    BY <1>1 DEF WorkRecord
  <2>8. x = [y EXCEPT !.body = body]
    OBVIOUS
  <2> HIDE DEF body, y
  <2>9. x.body = body
    BY <2>7, <2>8 DEF WorkRecord
  <2> HIDE DEF x
  <2> QED
    BY <1>3, <2>6, <2>9, BodyMoves
<1> QED
  BY <1>2, <1>3 DEF ReadIssue

(* The other steps keep it, but for git_repo.                              *)
LEMMA StepBody ==
  ASSUME WorkTrue, RestTypeOK, NEW w \in Workers,
         Deliver(w) \/ Simulate(w) \/ WorkStep(w) \/ WorkCrash(w)
  PROVE  \A u \in Workers : /\ work'[u].at \in Resolved => work'[u].body \in Spawn
                            /\ work'[u].body \in Spawn \cup {NoBody}
<1>1. work[w] \in WorkRecord /\ NoWork.at \notin Resolved /\ NoWork.body = NoBody
  BY DEF WorkTrue, NoWork, Resolved
<1>2. CASE WorkGoes(w, NoWork)
  BY <1>1, <1>2, BodyMoves
<1>3. ASSUME NEW i, Takes(w, i)
      PROVE  \A u \in Workers : /\ work'[u].at \in Resolved => work'[u].body \in Spawn
                                /\ work'[u].body \in Spawn \cup {NoBody}
  <2> DEFINE x == [NoWork EXCEPT !.at = "issue", !.issue = i, !.was = {issue[i]}]
  <2>1. WorkGoes(w, x)
    BY <1>3 DEF Takes
  <2>2. x.at \notin Resolved /\ x.body = NoBody
    BY DEF NoWork, Resolved
  <2> HIDE DEF x
  <2> QED
    BY <2>1, <2>2, BodyMoves
<1>4. ASSUME NEW to \in Resolved, work[w].at \in Resolved,
             WorkGoes(w, [work[w] EXCEPT !.at = to])
      PROVE  \A u \in Workers : /\ work'[u].at \in Resolved => work'[u].body \in Spawn
                                /\ work'[u].body \in Spawn \cup {NoBody}
  <2> DEFINE x == [work[w] EXCEPT !.at = to]
  <2>1. WorkGoes(w, x) /\ x.body = work[w].body
    BY <1>1, <1>4 DEF WorkRecord
  <2>2. work[w].body \in Spawn
    BY <1>4 DEF RestTypeOK
  <2> HIDE DEF x
  <2> QED
    BY <2>1, <2>2, BodyMoves
<1>5. ASSUME NEW repo \in BOOLEAN, work[w].at \in Resolved,
             WorkGoes(w, [work[w] EXCEPT !.at = "post", !.body.repo = repo])
      PROVE  \A u \in Workers : /\ work'[u].at \in Resolved => work'[u].body \in Spawn
                                /\ work'[u].body \in Spawn \cup {NoBody}
  <2> DEFINE y == [work[w] EXCEPT !.at = "post"]
             body == [work[w].body EXCEPT !.repo = repo]
             x == [y EXCEPT !.body = body]
  <2>1. work[w].body \in Spawn
    BY <1>5 DEF RestTypeOK
  <2>2. body \in Spawn
    BY <2>1 DEF Spawn
  <2>3. y \in WorkRecord /\ y.body = work[w].body
    BY <1>1 DEF WorkRecord
  <2>4. WorkGoes(w, x)
    BY <1>5, <2>3
  <2> HIDE DEF body, y
  <2>5. x.body = body
    BY <2>3 DEF WorkRecord
  <2> HIDE DEF x
  <2> QED
    BY <2>2, <2>4, <2>5, BodyMoves
<1>6. CASE UNCHANGED work
  BY <1>6 DEF RestTypeOK
<1>7. CASE Deliver(w)
  BY <1>3, <1>6, <1>7 DEF Deliver
<1>8. CASE Simulate(w)
  BY <1>3, <1>8 DEF Simulate
<1>9. CASE ResolveTemplate(w)
  BY <1>2, <1>4, <1>9 DEF ResolveTemplate, WorkDies, Resolved
<1>10. CASE ReadParameters(w)
  <2> DEFINE declared == work[w].body.template \in Declares
  <2>1. declared \in BOOLEAN
    OBVIOUS
  <2>2. \/ WorkGoes(w, [work[w] EXCEPT !.at = "post", !.body.repo = declared])
        \/ WorkGoes(w, [work[w] EXCEPT !.at = "post"])
    BY <1>10 DEF ReadParameters
  <2>3. work[w].at \in Resolved /\ "post" \in Resolved
    BY <1>10 DEF ReadParameters, Resolved
  <2> HIDE DEF declared
  <2> QED
    BY <1>4, <1>5, <2>1, <2>2, <2>3
<1>11. CASE SendSpawn(w) \/ WorkCrash(w)
  BY <1>2, <1>11 DEF SendSpawn, WorkCrash, WorkDies
<1> QED
  BY <1>7, <1>8, <1>9, <1>10, <1>11, IssueBody DEF WorkStep

(* Every step.                                                             *)
LEMMA RestNext == HInv /\ WorkTrue /\ RestTypeOK /\ [Next]_vars => RestTypeOK'
<1> SUFFICES ASSUME HInv, WorkTrue, RestTypeOK, [Next]_vars PROVE RestTypeOK'
  OBVIOUS
<1>1. ASSUME NEW r \in Runs, RegStart(r) \/ RegStep(r) \/ RegCrash(r) PROVE RestTypeOK'
  <2>1. UNCHANGED <<bridge, hands, edits, events, spawned, work>> /\ calm' \in {calm, FALSE}
    BY <1>1 DEF RegStart, RegStep, RegCrash, RegDies, ListHooks, UpdateHook, CreateHook, Written,
      issueVars
  <2> QED
    BY <2>1 DEF RestTypeOK
<1>2. CASE Rotate \/ EditHook
  <2>1. /\ UNCHANGED <<bridge, edits, events, spawned, work>> /\ hands' = hands + 1
        /\ calm' \in BOOLEAN
    BY <1>2 DEF Rotate, EditHook, Touched, issueVars
  <2> QED
    BY <2>1 DEF RestTypeOK
<1>3. CASE LoadSecret \/ UNCHANGED vars
  <2>1. UNCHANGED <<hands, edits, events, spawned, work, calm>> /\ bridge' \in {secret, bridge}
    BY <1>3 DEF LoadSecret, vars, hookVars, issueVars
  <2> QED
    BY <2>1 DEF RestTypeOK, HInv, RegTypeOK
<1>4. CASE EditIssue
  <2>1. PICK i \in Issues, v \in Issue :
          /\ events' = events \cup {<<i, h>> : h \in {g \in Existing : hooks[g].on}}
          /\ work' = [w \in Workers |->
                 IF work[w].issue = i THEN [work[w] EXCEPT !.was = @ \cup {v}] ELSE work[w]]
    BY <1>4 DEF EditIssue
  <2>2. events' \subseteq Issues \X HookIds
    BY <2>1 DEF RestTypeOK, Existing
  <2>3. ASSUME NEW w \in Workers
        PROVE  work'[w].at = work[w].at /\ work'[w].body = work[w].body
    BY <2>1 DEF WorkTrue, WorkRecord
  <2>4. UNCHANGED <<bridge, hands, spawned, calm>> /\ edits' = edits + 1
    BY <1>4 DEF EditIssue, hookVars
  <2> QED
    BY <2>2, <2>3, <2>4 DEF RestTypeOK
<1>5. ASSUME NEW w \in Workers, Deliver(w) \/ Simulate(w) \/ WorkStep(w) \/ WorkCrash(w)
      PROVE  RestTypeOK'
  <2>1. UNCHANGED <<bridge, hands, edits>> /\ events' \subseteq events /\ calm' \in {calm, FALSE}
    BY <1>5 DEF Deliver, Simulate, WorkStep, SendSpawn, WorkCrash, WorkDies, ReadIssue,
      ResolveTemplate, ReadParameters, hookVars
  <2>2. spawned' \subseteq Spawn
    <3>1. work[w].at = "post" => work[w].body \in Spawn
      BY DEF RestTypeOK, Resolved
    <3> QED
      BY <1>5, <3>1 DEF RestTypeOK, Deliver, Simulate, WorkStep, SendSpawn, WorkCrash, WorkDies,
        ReadIssue, ResolveTemplate, ReadParameters
  <2> QED
    BY <1>5, <2>1, <2>2, StepBody DEF RestTypeOK
<1> QED
  BY <1>1, <1>2, <1>3, <1>4, <1>5 DEF Next

(* What the registrations and handlers leave is typed.                     *)
THEOREM WebhookTypeOK == Spec => []TypeOK
<1>1. Init => EventsTyped /\ WorkTrue /\ RestTypeOK
  <2>1. Init => EventsTyped /\ WorkTrue
    BY NoWorkTyped DEF Init, EventsTyped, WorkTrue
  <2>2. Init => RestTypeOK
    BY DEF Init, RestTypeOK, NoWork, Resolved
  <2> QED
    BY <2>1, <2>2
<1>2. HInv /\ WorkTrue /\ RestTypeOK /\ [Next]_vars => RestTypeOK'
  BY RestNext
<1>3. HInv /\ WorkTrue /\ RestTypeOK => TypeOK
  <2> SUFFICES ASSUME HInv, WorkTrue, RestTypeOK PROVE TypeOK
    OBVIOUS
  <2>1. ASSUME NEW w \in Workers PROVE work[w] \in Work
    <3>1. work[w] \in WorkRecord /\ work[w].body \in Spawn \cup {NoBody}
      BY DEF WorkTrue, RestTypeOK
    <3> QED
      BY <3>1 DEF WorkRecord, Work
  <2>2. work \in [Workers -> Work]
    BY <2>1 DEF WorkTrue
  <2> QED
    BY <2>2 DEF HInv, RegTypeOK, WorkTrue, RestTypeOK, TypeOK
<1> QED
  BY <1>1, <1>2, <1>3, HooksInvariant, EventsNext, WorkNext, PTL DEF Spec
=============================================================================
