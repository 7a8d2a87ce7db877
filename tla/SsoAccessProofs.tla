--------------------------- MODULE SsoAccessProofs ---------------------------
(***************************************************************************)
(* Proofs about SsoAccess, for any groups, users, required actions,        *)
(* organizations and settings, any refused requests, removals, enrolments  *)
(* and sign-ins: enrolment is forced, and forced again only after a race;  *)
(* and who signs in after both scripts has the access that was declared.   *)
(***************************************************************************)
EXTENDS SsoAccess, TLAPS

KidSteps == {"kids", "mkKids", "rekids"}

(* The steps that visit one user, and the last of them, between the read   *)
(* of the credentials and the write of the user.                           *)
EnrolSteps == {"rep", "putUser"}
UserSteps == {"mkUser", "reuser", "password", "join", "creds"} \cup EnrolSteps

Forced(u, us) == Required[u] \subseteq us[u].actions \cup us[u].creds

(* What a run in state h knows of the users us: credentials it has not     *)
(* seen, and actions nobody needs, are in h.unseen.                        *)
Seen(h, us) ==
    /\ h.at \in KidSteps => h.todo \subseteq Tops
    /\ h.at \in UserSteps \cup {"users"} => h.todo \subseteq Users
    /\ h.at \in UserSteps => h.cur \in Users
    /\ h.at \notin EnrolSteps => h.have = {}
    /\ h.at \in EnrolSteps => us[h.cur].creds \subseteq h.have \cup h.unseen
    /\ h.at = "putUser" =>
          h.rep \subseteq us[h.cur].actions \cup h.unseen \cup (Required[h.cur] \ h.have)

(* What a run whose writes were all carried out, and of which nothing was  *)
(* taken away, has done.                                                   *)
Done(h, us) ==
    /\ h.at \in EnrolSteps => h.have \subseteq us[h.cur].creds
    /\ h.at = "putUser" => Required[h.cur] \subseteq h.rep \cup h.have
    /\ h.at \in UserSteps \cup {"users"} =>
          \A u \in Users \ h.todo : Forced(u, us) \/ (h.at # "users" /\ u = h.cur)

HierInv ==
    /\ groups \subseteq Paths
    /\ user \in [Users -> User]
    /\ hier \in Hier /\ tidy \in BOOLEAN
    /\ Seen(hier, user)
    /\ hier.applied => Done(hier, user)
    /\ tidy => hier.at = "idle"
    /\ EnrollmentForced

-----------------------------------------------------------------------------
(* Two runs agree on what they know of a user, or on where they are.       *)

SameVisit(g, h) ==
    /\ g.have = h.have /\ g.rep = h.rep /\ g.applied = h.applied /\ g.unseen = h.unseen

SamePlace(g, h) ==
    /\ g.at = h.at /\ g.todo = h.todo /\ g.cur = h.cur /\ g.sub = h.sub /\ g.paths = h.paths

(* Every declared group is a path.                                         *)
LEMMA GroupsTyped == Tops \subseteq Paths /\ \A t \in Tops : Kids[t] \subseteq Paths
BY HierarchyAssumption DEF Paths

(* A run that has not started knows nothing.                               *)
LEMMA NoHierTyped ==
  NoHier \in Hier /\ NoHier.at = "idle" /\ NoHier.have = {} /\ NoHier.applied = TRUE
BY DEF NoHier, Hier, HierSteps

-----------------------------------------------------------------------------
(* How a run goes on.                                                      *)

(* A request is answered, or a write carried out.                          *)
LEMMA Moves ==
  ASSUME HierInv, hier.at # "idle", NEW s \in Hier, HierGoes(s),
         groups' \subseteq Paths, user' \in [Users -> User],
         Seen(s, user'), s.applied => Done(s, user')
  PROVE  HierInv'
<1>1. hier' = s /\ tidy' = FALSE
  BY DEF HierInv, HierGoes
<1> QED
  BY <1>1 DEF HierInv, EnrollmentForced, Seen, Done, Forced

(* The run ends with an exception, or is killed.                           *)
LEMMA Dies ==
  ASSUME HierInv, hier.at # "idle", HierDies, UNCHANGED realm PROVE HierInv'
<1>1. HierGoes(NoHier) /\ groups' = groups /\ user' = user
  BY DEF HierDies, realm
<1>2. Seen(NoHier, user) /\ Done(NoHier, user)
  BY NoHierTyped DEF Seen, Done, KidSteps, UserSteps, EnrolSteps
<1> QED
  BY <1>1, <1>2, NoHierTyped, Moves DEF HierInv

(* A write is refused: the run goes on without noticing.                   *)
LEMMA RefusedKeeps ==
  ASSUME HierInv, hier.at # "idle", NEW s \in Hier, Seen(s, user),
         HierGoes([s EXCEPT !.applied = FALSE]), UNCHANGED realm
  PROVE  HierInv'
<1> DEFINE g == [s EXCEPT !.applied = FALSE]
<1>1. g = [s EXCEPT !.applied = FALSE] /\ HierGoes(g) /\ groups' = groups /\ user' = user
  BY DEF realm
<1> HIDE DEF g
<1>2. g \in Hier /\ SamePlace(g, s) /\ g.applied = FALSE
      /\ g.have = s.have /\ g.rep = s.rep /\ g.unseen = s.unseen
  BY <1>1 DEF Hier, SamePlace
<1>3. Seen(g, user)
  BY <1>2 DEF Seen, SamePlace
<1> QED
  BY <1>1, <1>2, <1>3, Moves DEF HierInv

(* Seen and Done are about the actions and credentials of the users.       *)
LEMMA SamePeople ==
  ASSUME NEW h \in Hier, NEW us, NEW vs,
         \A u \in Users : vs[u].actions = us[u].actions /\ vs[u].creds = us[u].creds,
         Seen(h, us)
  PROVE  Seen(h, vs) /\ (Done(h, us) => Done(h, vs))
BY DEF Seen, Done, Forced, UserSteps, EnrolSteps

(* Before the users, a run knows nothing of them.                          *)
LEMMA Early ==
  ASSUME NEW h \in Hier, NEW us, h.at \notin UserSteps \cup {"users"}, h.have = {},
         h.at \in KidSteps => h.todo \subseteq Tops
  PROVE  Seen(h, us) /\ Done(h, us)
BY DEF Seen, Done, UserSteps, EnrolSteps
-----------------------------------------------------------------------------
(* The groups and the mapper.                                              *)

(* GET /groups: the missing top-level groups, or all of them.              *)
LEMMA ListTopsKeeps == ASSUME HierInv, ListTops PROVE HierInv'
<1>1. /\ hier \in Hier /\ hier.at = "tops" /\ UNCHANGED realm
      /\ hier.have = {} /\ groups' = groups /\ user' = user
  BY DEF HierInv, ListTops, Seen, EnrolSteps, realm
<1>2. ASSUME NEW x \in SUBSET Paths, HierGoes([hier EXCEPT !.at = "mkTops", !.sub = x])
      PROVE  HierInv'
  <2> DEFINE m == [hier EXCEPT !.at = "mkTops"]
             s == [m EXCEPT !.sub = x]
  <2>1. m = [hier EXCEPT !.at = "mkTops"] /\ s = [m EXCEPT !.sub = x] /\ HierGoes(s)
    BY <1>2
  <2> HIDE DEF m, s
  <2>2. "mkTops" \in HierSteps
    BY DEF HierSteps
  <2>3. m \in Hier /\ m.at = "mkTops" /\ SameVisit(m, hier)
    BY <1>1, <2>1, <2>2 DEF Hier, SameVisit
  <2>4. s \in Hier /\ s.at = "mkTops" /\ s.have = {}
    BY <1>1, <2>1, <2>3 DEF Hier, SameVisit
  <2>5. Seen(s, user) /\ Done(s, user)
    BY <2>4, Early DEF UserSteps, EnrolSteps, KidSteps
  <2> QED
    BY <1>1, <2>1, <2>4, <2>5, Moves DEF HierInv
<1>3. Tops \ groups \in SUBSET Paths /\ Tops \in SUBSET Paths
  BY GroupsTyped
<1>4. CASE HierDies
  BY <1>1, <1>4, Dies
<1> QED
  BY <1>2, <1>3, <1>4 DEF ListTops, Answers, Empty

(* The missing ones are POSTed, one at a time.                             *)
LEMMA CreateTopKeeps == ASSUME HierInv, CreateTop PROVE HierInv'
<1>1. /\ hier \in Hier /\ hier.at = "mkTops" /\ hier.have = {}
  BY DEF HierInv, CreateTop, Seen, EnrolSteps
<1>2. CASE hier.sub = {} /\ HierGoes([hier EXCEPT !.at = "retops"]) /\ UNCHANGED realm
  <2> DEFINE s == [hier EXCEPT !.at = "retops"]
  <2>1. s = [hier EXCEPT !.at = "retops"] /\ HierGoes(s)
    BY <1>2
  <2> HIDE DEF s
  <2>2. "retops" \in HierSteps
    BY DEF HierSteps
  <2>3. s \in Hier /\ s.at = "retops" /\ s.have = {}
    BY <1>1, <2>1, <2>2 DEF Hier, SameVisit
  <2>4. Seen(s, user) /\ Done(s, user)
    BY <2>3, Early DEF UserSteps, EnrolSteps, KidSteps
  <2> QED
    BY <1>1, <1>2, <2>1, <2>3, <2>4, Moves DEF HierInv, realm
<1>3. ASSUME NEW g \in hier.sub,
             Writes([hier EXCEPT !.sub = @ \ {g}],
                    groups' = groups \cup {g} /\ UNCHANGED <<mapper, user, hands, added>>)
      PROVE  HierInv'
  <2> DEFINE s == [hier EXCEPT !.sub = @ \ {g}]
  <2>1. s = [hier EXCEPT !.sub = hier.sub \ {g}]
    OBVIOUS
  <2>2. \/ groups' = groups \cup {g} /\ user' = user /\ HierGoes(s)
        \/ HierGoes([s EXCEPT !.applied = FALSE]) /\ UNCHANGED realm
    BY <1>3 DEF Writes
  <2> HIDE DEF s
  <2>3. hier.sub \ {g} \in SUBSET Paths /\ g \in Paths
    BY <1>1 DEF Hier
  <2>4. s \in Hier /\ s.at = "mkTops" /\ s.have = {}
    BY <1>1, <2>1, <2>3 DEF Hier, SameVisit
  <2>5. Seen(s, user) /\ Done(s, user)
    BY <2>4, Early DEF UserSteps, EnrolSteps, KidSteps
  <2> QED
    BY <1>1, <2>2, <2>3, <2>4, <2>5, Moves, RefusedKeeps DEF HierInv
<1> QED
  BY <1>2, <1>3 DEF CreateTop

(* Listed again, for the ids.                                              *)
LEMMA RelistTopsKeeps == ASSUME HierInv, RelistTops PROVE HierInv'
<1>1. /\ hier \in Hier /\ hier.at = "retops" /\ hier.have = {}
      /\ UNCHANGED realm /\ groups' = groups /\ user' = user
  BY DEF HierInv, RelistTops, Seen, EnrolSteps, realm
<1>2. CASE HierGoes([hier EXCEPT !.at = "kids", !.todo = Tops, !.paths = Tops \cap groups])
  <2> DEFINE m == [hier EXCEPT !.at = "kids"]
             n == [m EXCEPT !.todo = Tops]
             s == [n EXCEPT !.paths = Tops \cap groups]
  <2>1. /\ m = [hier EXCEPT !.at = "kids"] /\ n = [m EXCEPT !.todo = Tops]
        /\ s = [n EXCEPT !.paths = Tops \cap groups] /\ HierGoes(s)
    BY <1>2
  <2> HIDE DEF m, n, s
  <2>2. "kids" \in HierSteps /\ Tops \cap groups \in SUBSET Paths
    BY GroupsTyped DEF HierSteps
  <2>3. m \in Hier /\ m.at = "kids" /\ SameVisit(m, hier)
    BY <1>1, <2>1, <2>2 DEF Hier, SameVisit
  <2>4. n \in Hier /\ n.at = "kids" /\ n.todo = Tops /\ SameVisit(n, m)
    BY <2>1, <2>3 DEF Hier, SameVisit
  <2>5. s \in Hier /\ s.at = "kids" /\ s.todo = Tops /\ s.have = {}
    BY <1>1, <2>1, <2>2, <2>3, <2>4 DEF Hier, SameVisit
  <2>6. Seen(s, user) /\ Done(s, user)
    BY <2>5, Early DEF UserSteps, EnrolSteps, KidSteps
  <2> QED
    BY <1>1, <2>1, <2>5, <2>6, Moves DEF HierInv
<1>3. CASE HierDies
  BY <1>1, <1>3, Dies
<1> QED
  BY <1>2, <1>3 DEF RelistTops, Answers

(* The subgroups of the next group.                                        *)
LEMMA ListKidsKeeps == ASSUME HierInv, ListKids PROVE HierInv'
<1>1. /\ hier \in Hier /\ hier.at = "kids" /\ hier.have = {} /\ hier.todo \subseteq Tops
      /\ UNCHANGED realm /\ groups' = groups /\ user' = user
  BY DEF HierInv, ListKids, Seen, EnrolSteps, KidSteps, realm
<1>2. CASE HierGoes([hier EXCEPT !.at = "mapper"])
  <2> DEFINE s == [hier EXCEPT !.at = "mapper"]
  <2>1. s = [hier EXCEPT !.at = "mapper"] /\ HierGoes(s)
    BY <1>2
  <2> HIDE DEF s
  <2>2. "mapper" \in HierSteps
    BY DEF HierSteps
  <2>3. s \in Hier /\ s.at = "mapper" /\ s.have = {}
    BY <1>1, <2>1, <2>2 DEF Hier, SameVisit
  <2>4. Seen(s, user) /\ Done(s, user)
    BY <2>3, Early DEF UserSteps, EnrolSteps, KidSteps
  <2> QED
    BY <1>1, <2>1, <2>3, <2>4, Moves DEF HierInv
<1>3. ASSUME NEW t \in hier.todo, NEW x \in SUBSET Paths,
             HierGoes([hier EXCEPT !.at = "mkKids", !.todo = @ \ {t}, !.cur = t, !.sub = x])
      PROVE  HierInv'
  <2> DEFINE m == [hier EXCEPT !.at = "mkKids"]
             n == [m EXCEPT !.todo = hier.todo \ {t}]
             o == [n EXCEPT !.cur = t]
             s == [o EXCEPT !.sub = x]
  <2>1. /\ m = [hier EXCEPT !.at = "mkKids"] /\ n = [m EXCEPT !.todo = hier.todo \ {t}]
        /\ o = [n EXCEPT !.cur = t] /\ s = [o EXCEPT !.sub = x] /\ HierGoes(s)
    BY <1>3
  <2> HIDE DEF m, n, o, s
  <2>2. /\ "mkKids" \in HierSteps /\ hier.todo \ {t} \in SUBSET (Tops \cup Users)
        /\ t \in Tops \cup Users \cup {"none"}
    BY <1>1 DEF HierSteps
  <2>3. m \in Hier /\ m.at = "mkKids" /\ SameVisit(m, hier)
    BY <1>1, <2>1, <2>2 DEF Hier, SameVisit
  <2>4. n \in Hier /\ n.at = "mkKids" /\ n.todo = hier.todo \ {t} /\ SameVisit(n, m)
    BY <2>1, <2>2, <2>3 DEF Hier, SameVisit
  <2>5. o \in Hier /\ o.at = "mkKids" /\ o.todo = hier.todo \ {t} /\ SameVisit(o, n)
    BY <2>1, <2>2, <2>4 DEF Hier, SameVisit
  <2>8. s \in Hier /\ s.at = o.at /\ s.todo = o.todo /\ s.have = o.have
    BY <2>1, <2>5 DEF Hier
  <2>9. o.have = {}
    BY <1>1, <2>3, <2>4, <2>5 DEF SameVisit
  <2>6. s \in Hier /\ s.at = "mkKids" /\ s.todo \subseteq Tops /\ s.have = {}
    BY <1>1, <2>5, <2>8, <2>9
  <2>7. Seen(s, user) /\ Done(s, user)
    BY <2>6, Early DEF UserSteps, EnrolSteps
  <2> QED
    BY <1>1, <2>1, <2>6, <2>7, Moves DEF HierInv
<1>4. CASE HierDies
  BY <1>1, <1>4, Dies
<1>5. \A t \in hier.todo : Kids[t] \in SUBSET Paths /\ Kids[t] \ groups \in SUBSET Paths
  BY <1>1, GroupsTyped
<1> QED
  BY <1>2, <1>3, <1>4, <1>5 DEF ListKids, Answers, Empty

(* The missing subgroups.                                                  *)
LEMMA CreateKidKeeps == ASSUME HierInv, CreateKid PROVE HierInv'
<1>1. hier \in Hier /\ hier.at = "mkKids" /\ hier.have = {} /\ hier.todo \subseteq Tops
  BY DEF HierInv, CreateKid, Seen, EnrolSteps, KidSteps
<1>2. CASE hier.sub = {} /\ HierGoes([hier EXCEPT !.at = "rekids"]) /\ UNCHANGED realm
  <2> DEFINE s == [hier EXCEPT !.at = "rekids"]
  <2>1. s = [hier EXCEPT !.at = "rekids"] /\ HierGoes(s)
    BY <1>2
  <2> HIDE DEF s
  <2>2. "rekids" \in HierSteps
    BY DEF HierSteps
  <2>3. s \in Hier /\ s.at = "rekids" /\ s.have = {} /\ s.todo \subseteq Tops
    BY <1>1, <2>1, <2>2 DEF Hier, SameVisit
  <2>4. Seen(s, user) /\ Done(s, user)
    BY <2>3, Early DEF UserSteps, EnrolSteps
  <2> QED
    BY <1>1, <1>2, <2>1, <2>3, <2>4, Moves DEF HierInv, realm
<1>3. ASSUME NEW g \in hier.sub,
             Writes([hier EXCEPT !.sub = @ \ {g}],
                    /\ groups' = IF hier.cur \in groups THEN groups \cup {g} ELSE groups
                    /\ UNCHANGED <<mapper, user, hands, added>>)
      PROVE  HierInv'
  <2> DEFINE s == [hier EXCEPT !.sub = @ \ {g}]
  <2>1. s = [hier EXCEPT !.sub = hier.sub \ {g}]
    OBVIOUS
  <2>2. \/ groups' \subseteq groups \cup {g} /\ user' = user /\ HierGoes(s)
        \/ HierGoes([s EXCEPT !.applied = FALSE]) /\ UNCHANGED realm
    BY <1>3 DEF Writes
  <2> HIDE DEF s
  <2>3. hier.sub \ {g} \in SUBSET Paths /\ g \in Paths
    BY <1>1 DEF Hier
  <2>4. s \in Hier /\ s.at = "mkKids" /\ s.have = {} /\ s.todo \subseteq Tops
    BY <1>1, <2>1, <2>3 DEF Hier, SameVisit
  <2>5. Seen(s, user) /\ Done(s, user)
    BY <2>4, Early DEF UserSteps, EnrolSteps
  <2> QED
    BY <1>1, <2>2, <2>3, <2>4, <2>5, Moves, RefusedKeeps DEF HierInv
<1> QED
  BY <1>2, <1>3 DEF CreateKid

(* Listed again.                                                           *)
LEMMA RelistKidsKeeps == ASSUME HierInv, RelistKids PROVE HierInv'
<1>1. /\ hier \in Hier /\ hier.at = "rekids" /\ hier.have = {} /\ hier.todo \subseteq Tops
      /\ UNCHANGED realm /\ groups' = groups /\ user' = user /\ groups \subseteq Paths
  BY DEF HierInv, RelistKids, Seen, EnrolSteps, KidSteps, realm
<1>2. ASSUME NEW x \in SUBSET Paths,
             HierGoes([hier EXCEPT !.at = "kids", !.cur = "none", !.paths = @ \cup x])
      PROVE  HierInv'
  <2> DEFINE m == [hier EXCEPT !.at = "kids"]
             n == [m EXCEPT !.cur = "none"]
             s == [n EXCEPT !.paths = hier.paths \cup x]
  <2>1. /\ m = [hier EXCEPT !.at = "kids"] /\ n = [m EXCEPT !.cur = "none"]
        /\ s = [n EXCEPT !.paths = hier.paths \cup x] /\ HierGoes(s)
    BY <1>2
  <2> HIDE DEF m, n, s
  <2>2. "kids" \in HierSteps /\ hier.paths \cup x \in SUBSET Paths
    BY <1>1 DEF HierSteps, Hier
  <2>3. m \in Hier /\ m.at = "kids" /\ m.todo = hier.todo /\ SameVisit(m, hier)
    BY <1>1, <2>1, <2>2 DEF Hier, SameVisit
  <2>4. n \in Hier /\ n.at = "kids" /\ n.todo = hier.todo /\ SameVisit(n, m)
    BY <2>1, <2>3 DEF Hier, SameVisit
  <2>5. s \in Hier /\ s.at = "kids" /\ s.todo \subseteq Tops /\ s.have = {}
    BY <1>1, <2>1, <2>2, <2>3, <2>4 DEF Hier, SameVisit
  <2>6. Seen(s, user) /\ Done(s, user)
    BY <2>5, Early DEF UserSteps, EnrolSteps
  <2> QED
    BY <1>1, <2>1, <2>5, <2>6, Moves DEF HierInv
<1>3. CASE HierDies
  BY <1>1, <1>3, Dies
<1>4. Kids[hier.cur] \cap groups \in SUBSET Paths /\ {} \in SUBSET Paths
  BY <1>1
<1> QED
  BY <1>2, <1>3, <1>4 DEF RelistKids, Answers, Empty

(* The mapper; from here on every user is left to do.                      *)
LEMMA MapperKeeps == ASSUME HierInv, ReadMapper \/ WriteMapper PROVE HierInv'
<1>1. hier \in Hier /\ hier.at \in {"mapper", "putMapper"} /\ hier.have = {}
  BY DEF HierInv, ReadMapper, WriteMapper, Seen, EnrolSteps
<1>2. CASE HierGoes([hier EXCEPT !.at = "putMapper"]) /\ UNCHANGED realm
  <2> DEFINE s == [hier EXCEPT !.at = "putMapper"]
  <2>1. s = [hier EXCEPT !.at = "putMapper"] /\ HierGoes(s)
    BY <1>2
  <2> HIDE DEF s
  <2>2. "putMapper" \in HierSteps
    BY DEF HierSteps
  <2>3. s \in Hier /\ s.at = "putMapper" /\ s.have = {}
    BY <1>1, <2>1, <2>2 DEF Hier, SameVisit
  <2>4. Seen(s, user) /\ Done(s, user)
    BY <2>3, Early DEF UserSteps, EnrolSteps, KidSteps
  <2> QED
    BY <1>1, <1>2, <2>1, <2>3, <2>4, Moves DEF HierInv, realm
<1>3. CASE HierDies /\ UNCHANGED realm
  BY <1>1, <1>3, Dies
<1>4. CASE Writes([hier EXCEPT !.at = "users", !.todo = Users],
                  mapper' = TRUE /\ UNCHANGED <<groups, user, hands, added>>)
  <2> DEFINE m == [hier EXCEPT !.at = "users"]
             s == [m EXCEPT !.todo = Users]
  <2>1. m = [hier EXCEPT !.at = "users"] /\ s = [m EXCEPT !.todo = Users]
    OBVIOUS
  <2>2. \/ groups' = groups /\ user' = user /\ HierGoes(s)
        \/ HierGoes([s EXCEPT !.applied = FALSE]) /\ UNCHANGED realm
    BY <1>4 DEF Writes
  <2> HIDE DEF m, s
  <2>3. "users" \in HierSteps
    BY DEF HierSteps
  <2>4. m \in Hier /\ m.at = "users" /\ SameVisit(m, hier)
    BY <1>1, <2>1, <2>3 DEF Hier, SameVisit
  <2>5. s \in Hier /\ s.at = "users" /\ s.todo = Users /\ s.have = {}
    BY <1>1, <2>1, <2>4 DEF Hier, SameVisit
  <2>6. Seen(s, user) /\ Done(s, user)
    BY <2>5 DEF Seen, Done, UserSteps, EnrolSteps, KidSteps
  <2> QED
    BY <1>1, <2>2, <2>5, <2>6, Moves, RefusedKeeps DEF HierInv
<1> QED
  BY <1>2, <1>3, <1>4 DEF ReadMapper, WriteMapper, Answers
-----------------------------------------------------------------------------
(* The users.                                                              *)

(* The user a run visits is set apart from those it has left to do.        *)
LEMMA FindUserKeeps == ASSUME HierInv, FindUser PROVE HierInv'
<1>1. /\ hier \in Hier /\ hier.at = "users" /\ hier.have = {} /\ hier.todo \subseteq Users
      /\ UNCHANGED realm /\ groups' = groups /\ user' = user
      /\ hier.applied => \A u \in Users \ hier.todo : Forced(u, user)
  BY DEF HierInv, FindUser, Seen, Done, EnrolSteps, realm
<1>2. ASSUME NEW u \in hier.todo, NEW step \in {"password", "mkUser"},
             HierGoes([hier EXCEPT !.at = step, !.todo = @ \ {u}, !.cur = u])
      PROVE  HierInv'
  <2> DEFINE m == [hier EXCEPT !.at = step]
             n == [m EXCEPT !.todo = hier.todo \ {u}]
             s == [n EXCEPT !.cur = u]
  <2>1. /\ m = [hier EXCEPT !.at = step] /\ n = [m EXCEPT !.todo = hier.todo \ {u}]
        /\ s = [n EXCEPT !.cur = u] /\ HierGoes(s)
    BY <1>2
  <2> HIDE DEF m, n, s
  <2>2. m \in Hier /\ m.at = step /\ SameVisit(m, hier)
    BY <1>1, <2>1 DEF Hier, HierSteps, SameVisit
  <2>3. n \in Hier /\ n.at = step /\ n.todo = hier.todo \ {u} /\ SameVisit(n, m)
    BY <1>1, <2>1, <2>2 DEF Hier, SameVisit
  <2>4. /\ s \in Hier /\ s.at = step /\ s.todo = hier.todo \ {u} /\ s.cur = u
        /\ s.have = {} /\ s.applied = hier.applied
    BY <1>1, <2>1, <2>2, <2>3 DEF Hier, SameVisit
  <2>5. Seen(s, user) /\ (s.applied => Done(s, user))
    BY <1>1, <2>4 DEF Seen, Done, UserSteps, EnrolSteps, KidSteps
  <2> QED
    BY <1>1, <2>1, <2>4, <2>5, Moves DEF HierInv
<1>3. CASE HierDies
  BY <1>1, <1>3, Dies
<1>4. \A u \in hier.todo : (IF user[u].up THEN "password" ELSE "mkUser") \in {"password", "mkUser"}
  OBVIOUS
<1> QED
  BY <1>2, <1>3, <1>4 DEF FindUser, Answers, Empty

(* From one request for a user to the next.                                *)
LEMMA Onward ==
  ASSUME HierInv, hier.at \in UserSteps \ EnrolSteps,
         NEW s \in Hier, s.at \in UserSteps \ EnrolSteps, s.todo = hier.todo,
         s.cur = hier.cur, s.have = hier.have, s.applied = hier.applied,
         NEW us, \A u \in Users : us[u].actions = user[u].actions /\ us[u].creds = user[u].creds
  PROVE  Seen(s, us) /\ (s.applied => Done(s, us))
<1>1. Seen(s, user) /\ (s.applied => Done(s, user))
  BY DEF HierInv, Seen, Done, UserSteps, EnrolSteps, KidSteps
<1> QED
  BY <1>1, SamePeople

(* A run asks for another step of the same user, or dies.                  *)
LEMMA StepsOnward ==
  ASSUME HierInv, hier.at \in UserSteps \ EnrolSteps,
         NEW step \in UserSteps \ EnrolSteps, HierGoes([hier EXCEPT !.at = step]),
         groups' \subseteq Paths, user' \in [Users -> User],
         \A u \in Users : user'[u].actions = user[u].actions /\ user'[u].creds = user[u].creds
  PROVE  HierInv'
<1> DEFINE s == [hier EXCEPT !.at = step]
<1>1. s = [hier EXCEPT !.at = step] /\ HierGoes(s) /\ hier \in Hier /\ hier.at # "idle"
  BY DEF HierInv, UserSteps, EnrolSteps
<1> HIDE DEF s
<1>2. /\ s \in Hier /\ s.at = step /\ s.todo = hier.todo /\ s.cur = hier.cur
      /\ s.have = hier.have /\ s.applied = hier.applied
  BY <1>1 DEF Hier, HierSteps, UserSteps, EnrolSteps
<1>3. Seen(s, user') /\ (s.applied => Done(s, user'))
  BY <1>2, Onward
<1> QED
  BY <1>1, <1>2, <1>3, Moves

(* POST a user that does not exist.                                        *)
LEMMA CreateUserKeeps == ASSUME HierInv, CreateUser PROVE HierInv'
<1>1. /\ hier \in Hier /\ hier.at = "mkUser" /\ hier.cur \in Users
      /\ hier.at \in UserSteps \ EnrolSteps /\ "reuser" \in UserSteps \ EnrolSteps
      /\ user \in [Users -> User] /\ groups \subseteq Paths
  BY DEF HierInv, CreateUser, Seen, UserSteps, EnrolSteps
<1>2. CASE /\ user' = [user EXCEPT ![hier.cur].up = TRUE] /\ groups' = groups
           /\ HierGoes([hier EXCEPT !.at = "reuser"])
  <2> DEFINE c == [user[hier.cur] EXCEPT !.up = TRUE]
  <2>1. c \in User /\ c.actions = user[hier.cur].actions /\ c.creds = user[hier.cur].creds
    BY <1>1 DEF User
  <2>2. user' = [user EXCEPT ![hier.cur] = c]
    BY <1>2
  <2> HIDE DEF c
  <2>3. /\ user' \in [Users -> User]
        /\ \A u \in Users : user'[u].actions = user[u].actions /\ user'[u].creds = user[u].creds
    BY <1>1, <2>1, <2>2
  <2> QED
    BY <1>1, <1>2, <2>3, StepsOnward
<1>3. CASE /\ HierGoes([hier EXCEPT !.at = "reuser", !.applied = FALSE])
           /\ UNCHANGED realm
  <2> DEFINE s == [hier EXCEPT !.at = "reuser"]
  <2>1. s = [hier EXCEPT !.at = "reuser"] /\ HierGoes([s EXCEPT !.applied = FALSE])
    BY <1>3
  <2> HIDE DEF s
  <2>2. /\ s \in Hier /\ s.at = "reuser" /\ s.todo = hier.todo /\ s.cur = hier.cur
        /\ s.have = hier.have /\ s.applied = hier.applied
    BY <1>1, <2>1 DEF Hier, HierSteps
  <2>3. Seen(s, user)
    BY <1>1, <2>2, Onward
  <2> QED
    BY <1>1, <1>3, <2>1, <2>2, <2>3, RefusedKeeps
<1> QED
  BY <1>2, <1>3 DEF CreateUser, Writes

(* The user just made is looked up.                                        *)
LEMMA RefindUserKeeps == ASSUME HierInv, RefindUser PROVE HierInv'
<1>1. /\ hier.at = "reuser" /\ UNCHANGED realm /\ groups' = groups /\ user' = user
      /\ hier.at \in UserSteps \ EnrolSteps /\ "password" \in UserSteps \ EnrolSteps
      /\ user \in [Users -> User] /\ groups \subseteq Paths
  BY DEF HierInv, RefindUser, realm, UserSteps, EnrolSteps
<1>2. CASE HierGoes([hier EXCEPT !.at = "password"])
  BY <1>1, <1>2, StepsOnward
<1>3. CASE HierDies
  BY <1>1, <1>3, Dies
<1> QED
  BY <1>2, <1>3 DEF RefindUser, Answers

(* The password, and on to the memberships.                                *)
LEMMA ResetPasswordKeeps == ASSUME HierInv, ResetPassword PROVE HierInv'
<1> DEFINE m == [hier EXCEPT !.at = "join"]
           s == [m EXCEPT !.sub = MemberOf[hier.cur]]
<1>1. /\ hier \in Hier /\ hier.at = "password" /\ hier.cur \in Users
      /\ hier.at \in UserSteps \ EnrolSteps /\ "join" \in UserSteps \ EnrolSteps
      /\ user \in [Users -> User] /\ groups \subseteq Paths
  BY DEF HierInv, ResetPassword, Seen, UserSteps, EnrolSteps
<1>2. m = [hier EXCEPT !.at = "join"] /\ s = [m EXCEPT !.sub = MemberOf[hier.cur]]
  OBVIOUS
<1>3. \/ /\ user' = [user EXCEPT ![hier.cur].pw = TRUE] /\ groups' = groups
         /\ HierGoes(s)
      \/ HierGoes([s EXCEPT !.applied = FALSE]) /\ UNCHANGED realm
  BY DEF ResetPassword, Writes
<1> HIDE DEF m, s
<1>4. MemberOf[hier.cur] \subseteq Paths
  BY <1>1, HierarchyAssumption
<1>5. /\ m \in Hier /\ m.at = "join" /\ m.todo = hier.todo /\ m.cur = hier.cur
      /\ m.have = hier.have /\ m.applied = hier.applied
  BY <1>1, <1>2 DEF Hier, HierSteps
<1>6. /\ s \in Hier /\ s.at = "join" /\ s.todo = hier.todo /\ s.cur = hier.cur
      /\ s.have = hier.have /\ s.applied = hier.applied
  BY <1>2, <1>4, <1>5 DEF Hier
<1>7. CASE user' = [user EXCEPT ![hier.cur].pw = TRUE] /\ groups' = groups /\ HierGoes(s)
  <2> DEFINE c == [user[hier.cur] EXCEPT !.pw = TRUE]
  <2>1. c \in User /\ c.actions = user[hier.cur].actions /\ c.creds = user[hier.cur].creds
    BY <1>1 DEF User
  <2>2. user' = [user EXCEPT ![hier.cur] = c]
    BY <1>7
  <2> HIDE DEF c
  <2>3. /\ user' \in [Users -> User]
        /\ \A u \in Users : user'[u].actions = user[u].actions /\ user'[u].creds = user[u].creds
    BY <1>1, <2>1, <2>2
  <2>4. Seen(s, user') /\ (s.applied => Done(s, user'))
    BY <1>1, <1>6, <2>3, Onward
  <2> QED
    BY <1>1, <1>6, <1>7, <2>3, <2>4, Moves
<1>8. CASE HierGoes([s EXCEPT !.applied = FALSE]) /\ UNCHANGED realm
  <2>1. Seen(s, user)
    BY <1>1, <1>6, Onward
  <2> QED
    BY <1>1, <1>6, <1>8, <2>1, RefusedKeeps
<1> QED
  BY <1>3, <1>7, <1>8

(* The user is done: on to the next.                                       *)
LEMMA NextUserHolds ==
  ASSUME HierInv, hier.at \in UserSteps
  PROVE  /\ NextUser \in Hier /\ Seen(NextUser, user')
         /\ NextUser.applied = hier.applied
         /\ NextUser.applied /\ Forced(hier.cur, user')
              /\ (\A u \in Users \ {hier.cur} : Forced(u, user) => Forced(u, user'))
                => Done(NextUser, user')
<1> DEFINE a == [hier EXCEPT !.at = "users"]
           b == [a EXCEPT !.cur = "none"]
           c == [b EXCEPT !.have = {}]
           d == [c EXCEPT !.rep = {}]
           s == [d EXCEPT !.unseen = {}]
<1>1. /\ a = [hier EXCEPT !.at = "users"] /\ b = [a EXCEPT !.cur = "none"]
      /\ c = [b EXCEPT !.have = {}] /\ d = [c EXCEPT !.rep = {}] /\ s = [d EXCEPT !.unseen = {}]
      /\ NextUser = s
  BY DEF NextUser
<1> HIDE DEF a, b, c, d, s
<1>2. hier \in Hier /\ hier.todo \subseteq Users /\ hier.at # "users"
  BY DEF HierInv, Seen, UserSteps, EnrolSteps
<1>3. a \in Hier /\ a.at = "users" /\ a.todo = hier.todo /\ a.applied = hier.applied
  BY <1>1, <1>2 DEF Hier, HierSteps
<1>4. b \in Hier /\ b.at = "users" /\ b.todo = hier.todo /\ b.applied = hier.applied
  BY <1>1, <1>3 DEF Hier
<1>5. c \in Hier /\ c.at = "users" /\ c.todo = hier.todo /\ c.applied = hier.applied /\ c.have = {}
  BY <1>1, <1>4 DEF Hier
<1>6. d \in Hier /\ d.at = "users" /\ d.todo = hier.todo /\ d.applied = hier.applied /\ d.have = {}
  BY <1>1, <1>5 DEF Hier
<1>7. s \in Hier /\ s.at = "users" /\ s.todo = hier.todo /\ s.applied = hier.applied /\ s.have = {}
  BY <1>1, <1>6 DEF Hier
<1>8. hier.applied => \A u \in Users \ hier.todo : Forced(u, user) \/ u = hier.cur
  BY DEF HierInv, Done
<1>9. Seen(s, user')
  BY <1>2, <1>7 DEF Seen, UserSteps, EnrolSteps, KidSteps
<1>10. ASSUME s.applied, Forced(hier.cur, user'),
              \A u \in Users \ {hier.cur} : Forced(u, user) => Forced(u, user')
       PROVE  Done(s, user')
  BY <1>7, <1>8, <1>10 DEF Done, EnrolSteps
<1> QED
  BY <1>1, <1>7, <1>9, <1>10

(* The memberships; a user without required actions is done then.          *)
LEMMA JoinGroupKeeps == ASSUME HierInv, JoinGroup PROVE HierInv'
<1>1. /\ hier \in Hier /\ hier.at = "join" /\ hier.cur \in Users
      /\ hier.at \in UserSteps /\ hier.at \in UserSteps \ EnrolSteps
      /\ "creds" \in UserSteps \ EnrolSteps
      /\ user \in [Users -> User] /\ groups \subseteq Paths
  BY DEF HierInv, JoinGroup, Seen, UserSteps, EnrolSteps
<1>2. CASE Required[hier.cur] = {} /\ HierGoes(NextUser) /\ UNCHANGED realm
  <2>1. user' = user /\ groups' = groups /\ Forced(hier.cur, user')
    BY <1>2 DEF realm, Forced
  <2> QED
    BY <1>1, <1>2, <2>1, NextUserHolds, Moves
<1>3. CASE HierGoes([hier EXCEPT !.at = "creds"]) /\ UNCHANGED realm
  <2>1. user' = user /\ groups' = groups
    BY <1>3 DEF realm
  <2> QED
    BY <1>1, <1>3, <2>1, StepsOnward
<1>4. CASE HierDies /\ UNCHANGED realm
  BY <1>1, <1>4, Dies
<1>5. ASSUME NEW g \in hier.sub,
             Writes([hier EXCEPT !.sub = @ \ {g}],
                    /\ user' = IF g \in groups
                               THEN [user EXCEPT ![hier.cur].members = @ \cup {g}] ELSE user
                    /\ UNCHANGED <<groups, mapper, hands, added>>)
      PROVE  HierInv'
  <2> DEFINE s == [hier EXCEPT !.sub = @ \ {g}]
             c == [user[hier.cur] EXCEPT !.members = user[hier.cur].members \cup {g}]
  <2>1. s = [hier EXCEPT !.sub = hier.sub \ {g}]
    OBVIOUS
  <2>2. \/ /\ user' = IF g \in groups THEN [user EXCEPT ![hier.cur] = c] ELSE user
           /\ groups' = groups /\ HierGoes(s)
        \/ HierGoes([s EXCEPT !.applied = FALSE]) /\ UNCHANGED realm
    BY <1>5 DEF Writes
  <2>3. g \in Paths
    BY <1>1 DEF Hier
  <2>4. c \in User /\ c.actions = user[hier.cur].actions /\ c.creds = user[hier.cur].creds
    <3>1. user[hier.cur] \in User /\ user[hier.cur].members \cup {g} \subseteq Paths
      BY <1>1, <2>3 DEF User
    <3> QED
      BY <3>1 DEF User
  <2> HIDE DEF c, s
  <2>5. /\ s \in Hier /\ s.at = "join" /\ s.todo = hier.todo /\ s.cur = hier.cur
        /\ s.have = hier.have /\ s.applied = hier.applied
    BY <1>1, <2>1 DEF Hier
  <2>6. CASE /\ user' = IF g \in groups THEN [user EXCEPT ![hier.cur] = c] ELSE user
             /\ groups' = groups /\ HierGoes(s)
    <3>1. /\ user' \in [Users -> User]
          /\ \A u \in Users : user'[u].actions = user[u].actions /\ user'[u].creds = user[u].creds
      BY <1>1, <2>4, <2>6
    <3>2. Seen(s, user') /\ (s.applied => Done(s, user'))
      BY <1>1, <2>5, <3>1, Onward
    <3> QED
      BY <1>1, <2>5, <2>6, <3>1, <3>2, Moves
  <2>7. CASE HierGoes([s EXCEPT !.applied = FALSE]) /\ UNCHANGED realm
    <3>1. Seen(s, user)
      BY <1>1, <2>5, Onward
    <3> QED
      BY <1>1, <2>5, <2>7, <3>1, RefusedKeeps
  <2> QED
    BY <2>2, <2>6, <2>7
<1> QED
  BY <1>2, <1>3, <1>4, <1>5 DEF JoinGroup
-----------------------------------------------------------------------------
(* The required actions.                                                   *)

(* The credentials are read; an empty error leaves all of them unseen.     *)
LEMMA ReadCredentialsKeeps == ASSUME HierInv, ReadCredentials PROVE HierInv'
<1> DEFINE m == [hier EXCEPT !.at = "rep"]
           s == [m EXCEPT !.have = user[hier.cur].creds]
           e == [m EXCEPT !.unseen = Actions]
<1>1. /\ hier \in Hier /\ hier.at = "creds" /\ hier.cur \in Users /\ hier.have = {}
      /\ UNCHANGED realm /\ user' = user /\ groups' = groups
      /\ user \in [Users -> User] /\ groups \subseteq Paths /\ hier.todo \subseteq Users
      /\ hier.applied => \A u \in Users \ hier.todo : Forced(u, user) \/ u = hier.cur
  BY DEF HierInv, ReadCredentials, Seen, Done, UserSteps, EnrolSteps, realm
<1>2. user[hier.cur].creds \subseteq Actions
  BY <1>1 DEF User
<1>3. /\ m = [hier EXCEPT !.at = "rep"] /\ s = [m EXCEPT !.have = user[hier.cur].creds]
      /\ e = [m EXCEPT !.unseen = Actions]
      /\ HierGoes(s) \/ HierGoes(e) \/ HierDies
  BY DEF ReadCredentials, Answers, Empty
<1> HIDE DEF m, s, e
<1>4. /\ m \in Hier /\ m.at = "rep" /\ m.todo = hier.todo /\ m.cur = hier.cur
      /\ m.have = {} /\ m.applied = hier.applied
  BY <1>1, <1>3 DEF Hier, HierSteps
<1>5. /\ s \in Hier /\ s.at = "rep" /\ s.todo = hier.todo /\ s.cur = hier.cur
      /\ s.have = user[hier.cur].creds /\ s.applied = hier.applied
  BY <1>2, <1>3, <1>4 DEF Hier
<1>6. /\ e \in Hier /\ e.at = "rep" /\ e.todo = hier.todo /\ e.cur = hier.cur
      /\ e.have = {} /\ e.unseen = Actions /\ e.applied = hier.applied
  BY <1>3, <1>4 DEF Hier
<1>7. Seen(s, user) /\ (s.applied => Done(s, user))
  BY <1>1, <1>5 DEF Seen, Done, UserSteps, EnrolSteps, KidSteps
<1>8. Seen(e, user) /\ (e.applied => Done(e, user))
  BY <1>1, <1>2, <1>6 DEF Seen, Done, UserSteps, EnrolSteps, KidSteps
<1> QED
  BY <1>1, <1>3, <1>5, <1>6, <1>7, <1>8, Moves, Dies

(* The user is read, and the missing actions added.                        *)
LEMMA ReadUserKeeps == ASSUME HierInv, ReadUser PROVE HierInv'
<1> DEFINE current0 == user[hier.cur].actions
           merged == current0 \cup (Required[hier.cur] \ hier.have)
           m == [hier EXCEPT !.at = "putUser"]
           s == [m EXCEPT !.rep = merged]
<1>1. /\ hier \in Hier /\ hier.at = "rep" /\ hier.cur \in Users /\ hier.at \in UserSteps
      /\ UNCHANGED realm /\ user' = user /\ groups' = groups
      /\ user \in [Users -> User] /\ groups \subseteq Paths /\ hier.todo \subseteq Users
      /\ user[hier.cur].creds \subseteq hier.have \cup hier.unseen
      /\ hier.applied => /\ hier.have \subseteq user[hier.cur].creds
                        /\ \A u \in Users \ hier.todo : Forced(u, user) \/ u = hier.cur
  BY DEF HierInv, ReadUser, Seen, Done, UserSteps, EnrolSteps, realm
<1>2. merged \subseteq Actions
  BY <1>1, HierarchyAssumption DEF User
<1>3. CASE merged = current0 /\ HierGoes(NextUser)
  <2>1. hier.applied => Forced(hier.cur, user')
    BY <1>1, <1>3 DEF Forced
  <2> QED
    BY <1>1, <1>3, <2>1, NextUserHolds, Moves
<1>4. CASE HierGoes(s)
  <2>1. m = [hier EXCEPT !.at = "putUser"] /\ s = [m EXCEPT !.rep = merged] /\ HierGoes(s)
    BY <1>4
  <2>2. /\ merged \subseteq user[hier.cur].actions \cup (Required[hier.cur] \ hier.have)
        /\ Required[hier.cur] \subseteq merged \cup hier.have
    OBVIOUS
  <2> HIDE DEF m, s, merged
  <2>3. /\ m \in Hier /\ m.at = "putUser" /\ m.todo = hier.todo /\ m.cur = hier.cur
        /\ SameVisit(m, hier)
    BY <1>1, <2>1 DEF Hier, HierSteps, SameVisit
  <2>4. /\ s \in Hier /\ s.at = "putUser" /\ s.todo = hier.todo /\ s.cur = hier.cur
        /\ s.have = hier.have /\ s.unseen = hier.unseen /\ s.applied = hier.applied
        /\ s.rep = merged
    BY <1>2, <2>1, <2>3 DEF Hier, SameVisit
  <2>5. Seen(s, user) /\ (s.applied => Done(s, user))
    BY <1>1, <2>2, <2>4 DEF Seen, Done, UserSteps, EnrolSteps, KidSteps
  <2> QED
    BY <1>1, <2>1, <2>4, <2>5, Moves
<1>5. CASE HierDies
  BY <1>1, <1>5, Dies
<1>6. HierGoes(IF merged = current0 THEN NextUser ELSE s) \/ HierDies
  BY DEF ReadUser, Answers
<1> HIDE DEF s
<1> QED
  BY <1>3, <1>4, <1>5, <1>6

(* The user is written back, with every action that is required pending or *)
(* its credential there.                                                   *)
LEMMA WriteUserKeeps == ASSUME HierInv, WriteUser PROVE HierInv'
<1>1. /\ hier \in Hier /\ hier.at = "putUser" /\ hier.cur \in Users /\ hier.at \in UserSteps
      /\ user \in [Users -> User] /\ groups \subseteq Paths
      /\ hier.applied => /\ hier.have \subseteq user[hier.cur].creds
                        /\ Required[hier.cur] \subseteq hier.rep \cup hier.have
  BY DEF HierInv, WriteUser, Seen, Done, UserSteps, EnrolSteps
<1>2. CASE /\ user' = [user EXCEPT ![hier.cur].actions = hier.rep] /\ groups' = groups
           /\ HierGoes(NextUser)
  <2> DEFINE c == [user[hier.cur] EXCEPT !.actions = hier.rep]
  <2>1. c \in User /\ c.actions = hier.rep /\ c.creds = user[hier.cur].creds
    <3>1. user[hier.cur] \in User /\ hier.rep \subseteq Actions
      BY <1>1 DEF Hier
    <3> QED
      BY <3>1 DEF User
  <2>2. user' = [user EXCEPT ![hier.cur] = c]
    BY <1>2
  <2> HIDE DEF c
  <2>3. user' \in [Users -> User] /\ user'[hier.cur] = c
    BY <1>1, <2>1, <2>2
  <2>4. \A u \in Users \ {hier.cur} : Forced(u, user) => Forced(u, user')
    BY <1>1, <2>2 DEF Forced
  <2>5. hier.applied => Forced(hier.cur, user')
    BY <1>1, <2>1, <2>3 DEF Forced
  <2> QED
    BY <1>1, <1>2, <2>3, <2>4, <2>5, NextUserHolds, Moves
<1>3. CASE HierGoes([NextUser EXCEPT !.applied = FALSE]) /\ UNCHANGED realm
  <2>1. user' = user
    BY <1>3 DEF realm
  <2>2. NextUser \in Hier /\ Seen(NextUser, user)
    BY <1>1, <2>1, NextUserHolds
  <2> QED
    BY <1>1, <1>3, <2>2, RefusedKeeps
<1> QED
  BY <1>2, <1>3 DEF WriteUser, Writes

(* Nobody is left to do: every user is forced, or enrolled.                *)
LEMMA EndsKeep == ASSUME HierInv, HierStart \/ HierExit \/ HierCrash PROVE HierInv'
<1>1. /\ UNCHANGED realm /\ user' = user /\ groups' = groups
      /\ hier \in Hier /\ user \in [Users -> User] /\ groups \subseteq Paths
  BY DEF HierInv, HierStart, HierExit, HierCrash, realm
<1>2. CASE HierStart
  <2> DEFINE s == [NoHier EXCEPT !.at = "tops"]
  <2>1. s = [NoHier EXCEPT !.at = "tops"] /\ hier' = s /\ tidy' = FALSE
    BY <1>2 DEF HierStart
  <2> HIDE DEF s
  <2>2. s \in Hier /\ s.at = "tops" /\ s.have = {}
    BY <2>1, NoHierTyped DEF Hier, HierSteps
  <2>3. Seen(s, user) /\ Done(s, user)
    BY <2>2, Early DEF UserSteps, EnrolSteps, KidSteps
  <2> QED
    BY <1>1, <2>1, <2>2, <2>3 DEF HierInv, EnrollmentForced
<1>3. CASE HierExit
  <2>1. hier' = NoHier /\ tidy' = hier.applied /\ hier.applied \in BOOLEAN
    BY <1>1, <1>3 DEF HierExit, Hier
  <2>2. hier.applied => \A u \in Users : Forced(u, user)
    BY <1>3 DEF HierExit, HierInv, Done
  <2>3. Seen(NoHier, user) /\ Done(NoHier, user)
    BY NoHierTyped, Early DEF UserSteps, EnrolSteps, KidSteps
  <2> QED
    BY <1>1, <2>1, <2>2, <2>3, NoHierTyped DEF HierInv, EnrollmentForced, Forced
<1>4. CASE HierCrash
  BY <1>1, <1>4, Dies DEF HierCrash
<1> QED
  BY <1>2, <1>3, <1>4

(* Every step of the script keeps the invariant.                           *)
LEMMA HierNextKeeps == ASSUME HierInv, HierNext PROVE HierInv'
BY ListTopsKeeps, CreateTopKeeps, RelistTopsKeeps, ListKidsKeeps, CreateKidKeeps,
   RelistKidsKeeps, MapperKeeps, FindUserKeeps, CreateUserKeeps, RefindUserKeeps,
   ResetPasswordKeeps, JoinGroupKeeps, ReadCredentialsKeeps, ReadUserKeeps,
   WriteUserKeeps, EndsKeep
DEF HierNext, HierStep

-----------------------------------------------------------------------------
(* The people.                                                             *)

(* A user enrols: the action is a credential now, and unseen by a run that *)
(* has read the credentials.                                               *)
LEMMA EnrolKeeps == ASSUME HierInv, Enrol PROVE HierInv'
<1>1. PICK u \in Users : \E a \in user[u].actions :
        /\ user' = [user EXCEPT ![u].actions = @ \ {a}, ![u].creds = @ \cup {a}]
        /\ hier' = IF hier.cur = u /\ hier.at \in EnrolSteps
                   THEN [hier EXCEPT !.unseen = @ \cup {a}] ELSE hier
        /\ UNCHANGED <<groups, mapper, hands, added, tidy>>
  BY DEF Enrol, EnrolSteps
<1>2. PICK a \in user[u].actions :
        /\ user' = [user EXCEPT ![u].actions = @ \ {a}, ![u].creds = @ \cup {a}]
        /\ hier' = IF hier.cur = u /\ hier.at \in EnrolSteps
                   THEN [hier EXCEPT !.unseen = @ \cup {a}] ELSE hier
        /\ UNCHANGED <<groups, mapper, hands, added, tidy>>
  BY <1>1
<1>3. /\ hier \in Hier /\ user \in [Users -> User] /\ user[u] \in User /\ a \in Actions
      /\ groups' = groups /\ tidy' = tidy
  BY <1>2 DEF HierInv, User
<1> DEFINE c == [user[u] EXCEPT !.actions = user[u].actions \ {a}]
           us == [user EXCEPT ![u] = c]
           d == [us[u] EXCEPT !.creds = us[u].creds \cup {a}]
           s == [hier EXCEPT !.unseen = hier.unseen \cup {a}]
<1>4. user' = [us EXCEPT ![u] = d] /\ us = [user EXCEPT ![u] = c]
  BY <1>2
<1>5. c \in User /\ c.actions = user[u].actions \ {a} /\ c.creds = user[u].creds
  BY <1>3 DEF User
<1> HIDE DEF c
<1>6. us \in [Users -> User] /\ us[u] = c
  BY <1>3, <1>5
<1>7. d \in User /\ d.actions = user[u].actions \ {a} /\ d.creds = user[u].creds \cup {a}
  BY <1>3, <1>5, <1>6 DEF User
<1> HIDE DEF d, us
<1>8. /\ user' \in [Users -> User]
      /\ user'[u].actions = user[u].actions \ {a} /\ user'[u].creds = user[u].creds \cup {a}
      /\ \A v \in Users \ {u} : user'[v] = user[v]
  BY <1>3, <1>4, <1>6, <1>7
<1>9. \A v \in Users : Forced(v, user) => Forced(v, user')
  BY <1>8 DEF Forced
<1>10. /\ s \in Hier /\ SamePlace(s, hier) /\ s.unseen = hier.unseen \cup {a}
       /\ s.have = hier.have /\ s.rep = hier.rep /\ s.applied = hier.applied
  BY <1>3 DEF Hier, SamePlace
<1>11. s = [hier EXCEPT !.unseen = hier.unseen \cup {a}]
  OBVIOUS
<1> HIDE DEF s
<1>12. CASE hier.cur = u /\ hier.at \in EnrolSteps
  <2>1. hier' = s
    BY <1>2, <1>11, <1>12
  <2>2. Seen(s, user')
    BY <1>8, <1>10, <1>12 DEF HierInv, Seen, SamePlace
  <2>3. s.applied => Done(s, user')
    BY <1>8, <1>9, <1>10, <1>12 DEF HierInv, Done, SamePlace
  <2> QED
    BY <1>3, <1>8, <1>9, <1>10, <2>1, <2>2, <2>3 DEF HierInv, EnrollmentForced, Forced, SamePlace
<1>13. CASE ~(hier.cur = u /\ hier.at \in EnrolSteps)
  <2>1. hier' = hier
    BY <1>2, <1>13
  <2>2. hier.at \in EnrolSteps => user'[hier.cur] = user[hier.cur]
    BY <1>8, <1>13 DEF HierInv, Seen, UserSteps
  <2>3. Seen(hier, user')
    BY <2>2 DEF HierInv, Seen, EnrolSteps
  <2>4. hier.applied => Done(hier, user')
    BY <1>9, <2>2 DEF HierInv, Done, EnrolSteps
  <2> QED
    BY <1>3, <1>8, <1>9, <2>1, <2>3, <2>4 DEF HierInv, EnrollmentForced, Forced
<1> QED
  BY <1>12, <1>13

(* An administrator removes something: the run no longer counts.           *)
LEMMA RemovedKeeps ==
  ASSUME HierInv, Removed, groups' \subseteq Paths, user' \in [Users -> User],
         \A u \in Users : user'[u].actions = user[u].actions /\ user'[u].creds \subseteq user[u].creds
  PROVE  HierInv'
<1> DEFINE b == hier.at = "idle"
           s == [hier EXCEPT !.applied = b]
<1>1. s = [hier EXCEPT !.applied = b] /\ hier' = s /\ tidy' = FALSE
  BY DEF Removed
<1>2. b \in BOOLEAN /\ hier \in Hier /\ (b <=> hier.at = "idle")
  BY DEF HierInv
<1> HIDE DEF b, s
<1>3. /\ s \in Hier /\ SamePlace(s, hier) /\ s.unseen = hier.unseen
      /\ s.have = hier.have /\ s.rep = hier.rep /\ s.applied = b
  BY <1>1, <1>2 DEF Hier, SamePlace
<1>4. Seen(s, user')
  <2>1. Seen(hier, user)
    BY DEF HierInv
  <2>2. hier.at \in EnrolSteps =>
           /\ user'[hier.cur].actions = user[hier.cur].actions
           /\ user'[hier.cur].creds \subseteq user[hier.cur].creds
    BY <2>1 DEF Seen, UserSteps
  <2>3. Seen(hier, user')
    BY <2>1, <2>2 DEF Seen, EnrolSteps
  <2> QED
    BY <1>3, <2>3 DEF Seen, SamePlace
<1>5. s.applied => Done(s, user')
  BY <1>2, <1>3 DEF Done, SamePlace, UserSteps, EnrolSteps
<1> QED
  BY <1>1, <1>3, <1>4, <1>5 DEF HierInv, EnrollmentForced

(* A credential is removed.                                                *)
LEMMA RemoveCredentialKeeps == ASSUME HierInv, RemoveCredential PROVE HierInv'
<1>1. PICK u \in Users, a \in Actions : user' = [user EXCEPT ![u].creds = @ \ {a}]
  BY DEF HierInv, RemoveCredential, User
<1> DEFINE c == [user[u] EXCEPT !.creds = user[u].creds \ {a}]
<1>2. user' = [user EXCEPT ![u] = c] /\ user \in [Users -> User] /\ user[u] \in User
  BY <1>1 DEF HierInv
<1>3. c \in User /\ c.actions = user[u].actions /\ c.creds = user[u].creds \ {a}
  BY <1>2 DEF User
<1> HIDE DEF c
<1>4. /\ user' \in [Users -> User]
      /\ \A v \in Users : user'[v].actions = user[v].actions /\ user'[v].creds \subseteq user[v].creds
  BY <1>2, <1>3
<1> QED
  BY <1>4, RemovedKeeps DEF RemoveCredential, HierInv

(* A group is removed, with its memberships.                               *)
LEMMA RemoveGroupKeeps == ASSUME HierInv, RemoveGroup PROVE HierInv'
<1>1. PICK gone : /\ groups' = groups \ gone
                  /\ user' = [u \in Users |-> [user[u] EXCEPT !.members = @ \ gone]]
  BY DEF RemoveGroup
<1>2. ASSUME NEW u \in Users
      PROVE  /\ user'[u] \in User
             /\ user'[u].actions = user[u].actions /\ user'[u].creds = user[u].creds
  <2>1. user[u] \in User /\ user'[u] = [user[u] EXCEPT !.members = user[u].members \ gone]
    BY <1>1, <1>2 DEF HierInv
  <2> QED
    BY <2>1 DEF User
<1>3. user' \in [Users -> User] /\ groups' \subseteq Paths
  <2>1. user' = [u \in Users |-> user'[u]]
    BY <1>1
  <2> QED
    BY <1>1, <1>2, <2>1 DEF HierInv
<1> QED
  BY <1>2, <1>3, RemovedKeeps DEF RemoveGroup

(* A member is added: nobody's actions or credentials change.              *)
LEMMA AddMemberKeeps == ASSUME HierInv, AddMember PROVE HierInv'
<1>1. PICK u \in Users, g \in Paths : user' = [user EXCEPT ![u].members = @ \cup {g}]
  BY DEF HierInv, AddMember
<1> DEFINE c == [user[u] EXCEPT !.members = user[u].members \cup {g}]
<1>2. user' = [user EXCEPT ![u] = c] /\ user \in [Users -> User] /\ user[u] \in User
  BY <1>1 DEF HierInv
<1>3. user[u].members \cup {g} \subseteq Paths
  BY <1>2 DEF User
<1>4. c \in User /\ c.actions = user[u].actions /\ c.creds = user[u].creds
  BY <1>2, <1>3 DEF User
<1> HIDE DEF c
<1>5. /\ user' \in [Users -> User]
      /\ \A v \in Users : user'[v].actions = user[v].actions /\ user'[v].creds = user[v].creds
  BY <1>2, <1>4
<1>6. UNCHANGED <<groups, hier, tidy>> /\ hier \in Hier /\ Seen(hier, user)
  BY DEF HierInv, AddMember
<1>7. Seen(hier, user') /\ (Done(hier, user) => Done(hier, user'))
  BY <1>5, <1>6, SamePeople
<1> QED
  BY <1>5, <1>6, <1>7 DEF HierInv, EnrollmentForced

-----------------------------------------------------------------------------
(* The invariant holds before the first run.                               *)
LEMMA HierInvInit == Init => HierInv
<1> SUFFICES ASSUME Init PROVE HierInv
  OBVIOUS
<1>1. groups = {} /\ user = [u \in Users |-> NoUser] /\ hier = NoHier /\ tidy = FALSE
  BY DEF Init, HierInit
<1>2. NoUser \in User
  BY DEF NoUser, User
<1>3. Seen(NoHier, user) /\ Done(NoHier, user)
  BY NoHierTyped, Early DEF UserSteps, EnrolSteps, KidSteps
<1> QED
  BY <1>1, <1>2, <1>3, NoHierTyped DEF HierInv, EnrollmentForced

(* Every step of anybody keeps it.                                         *)
LEMMA HierInvNext == HierInv /\ [Next]_vars => HierInv'
<1> SUFFICES ASSUME HierInv, [Next]_vars PROVE HierInv'
  OBVIOUS
<1>1. CASE HierNext
  BY <1>1, HierNextKeeps
<1>2. CASE PeopleNext
  BY <1>2, EnrolKeeps, RemoveCredentialKeeps, RemoveGroupKeeps, AddMemberKeeps DEF PeopleNext
<1>3. CASE UNCHANGED hierVars
  BY <1>3 DEF hierVars, HierInv, EnrollmentForced, Seen, Done, Forced
<1> QED
  BY <1>1, <1>2, <1>3 DEF Next, HierNext, SignIn, vars

(* The inductive invariant of the hierarchy holds in every state.          *)
THEOREM HierarchyInvariant == Spec => []HierInv
  BY HierInvInit, HierInvNext, PTL DEF Spec

(* After a run that exits 0 with its writes carried out, every required    *)
(* action is pending or its credential there, for any users, actions and   *)
(* interleaved enrolments.                                                 *)
THEOREM EnrollmentForcedAlways == Spec => []EnrollmentForced
<1>1. HierInv => EnrollmentForced
  BY DEF HierInv
<1> QED
  BY HierarchyInvariant, <1>1, PTL

(* Of all steps of a run only the write of the user makes an action        *)
(* pending, and only one that is missing or unseen.                        *)
LEMMA AsksOnlyUnseen ==
  ASSUME HierInv, HierNext, NEW u \in Users
  PROVE  (user'[u].actions \ user[u].actions) \cap user[u].creds
            \subseteq IF hier.cur = u THEN hier.unseen ELSE {}
<1>1. user \in [Users -> User] /\ Seen(hier, user)
  BY DEF HierInv
<1>2. CASE UNCHANGED realm
  BY <1>2 DEF realm
<1>3. CASE WriteUser /\ ~UNCHANGED realm
  <2>1. /\ hier.at = "putUser" /\ hier.cur \in Users
        /\ user' = [user EXCEPT ![hier.cur].actions = hier.rep]
        /\ user[hier.cur].creds \subseteq hier.have \cup hier.unseen
        /\ hier.rep \subseteq user[hier.cur].actions \cup hier.unseen \cup (Required[hier.cur] \ hier.have)
    BY <1>1, <1>3 DEF WriteUser, Writes, Seen, UserSteps, EnrolSteps
  <2> DEFINE c == [user[hier.cur] EXCEPT !.actions = hier.rep]
  <2>2. c.actions = hier.rep
    BY <1>1, <2>1 DEF User
  <2>3. user' = [user EXCEPT ![hier.cur] = c]
    BY <2>1
  <2> HIDE DEF c
  <2>4. CASE u = hier.cur
    BY <1>1, <2>1, <2>2, <2>3, <2>4
  <2>5. CASE u # hier.cur
    BY <1>1, <2>1, <2>3, <2>5
  <2> QED
    BY <2>4, <2>5
<1>4. CASE ~WriteUser /\ ~UNCHANGED realm
  <2>1. user'[u].actions = user[u].actions
    <3>1. CASE user' = user
      BY <3>1
    <3>2. ASSUME NEW c \in User, hier.cur \in Users, c.actions = user[hier.cur].actions,
                 user' = [user EXCEPT ![hier.cur] = c]
          PROVE  user'[u].actions = user[u].actions
      BY <1>1, <3>2
    <3>3. CASE user' = [user EXCEPT ![hier.cur].up = TRUE] /\ hier.at \in UserSteps
      <4> DEFINE c == [user[hier.cur] EXCEPT !.up = TRUE]
      <4>1. user' = [user EXCEPT ![hier.cur] = c] /\ hier.cur \in Users
        BY <1>1, <3>3 DEF Seen
      <4>2. c \in User /\ c.actions = user[hier.cur].actions
        BY <1>1, <4>1 DEF User
      <4> HIDE DEF c
      <4> QED
        BY <3>2, <4>1, <4>2
    <3>4. CASE user' = [user EXCEPT ![hier.cur].pw = TRUE] /\ hier.at \in UserSteps
      <4> DEFINE c == [user[hier.cur] EXCEPT !.pw = TRUE]
      <4>1. user' = [user EXCEPT ![hier.cur] = c] /\ hier.cur \in Users
        BY <1>1, <3>4 DEF Seen
      <4>2. c \in User /\ c.actions = user[hier.cur].actions
        BY <1>1, <4>1 DEF User
      <4> HIDE DEF c
      <4> QED
        BY <3>2, <4>1, <4>2
    <3>5. ASSUME NEW g \in hier.sub, hier.at \in UserSteps,
                 user' = [user EXCEPT ![hier.cur].members = @ \cup {g}]
          PROVE  user'[u].actions = user[u].actions
      <4> DEFINE c == [user[hier.cur] EXCEPT !.members = user[hier.cur].members \cup {g}]
      <4>1. user' = [user EXCEPT ![hier.cur] = c] /\ hier.cur \in Users /\ g \in Paths
        BY <1>1, <3>5 DEF Seen, HierInv, Hier
      <4>2. user[hier.cur] \in User /\ user[hier.cur].members \cup {g} \subseteq Paths
        BY <1>1, <4>1 DEF User
      <4>3. c \in User /\ c.actions = user[hier.cur].actions
        BY <4>2 DEF User
      <4> HIDE DEF c
      <4> QED
        BY <3>2, <4>1, <4>3
    <3>6. CASE CreateUser
      BY <3>1, <3>3, <3>6 DEF CreateUser, Writes, realm, UserSteps, EnrolSteps
    <3>7. CASE ResetPassword
      BY <3>1, <3>4, <3>7 DEF ResetPassword, Writes, realm, UserSteps, EnrolSteps
    <3>8. CASE JoinGroup
      BY <3>1, <3>5, <3>8 DEF JoinGroup, Writes, realm, UserSteps, EnrolSteps
    <3>9. CASE CreateTop \/ CreateKid \/ WriteMapper
      BY <3>1, <3>9 DEF CreateTop, CreateKid, WriteMapper, Writes, realm
    <3> QED
      BY <1>4, <3>6, <3>7, <3>8, <3>9
      DEF HierNext, HierStart, HierCrash, HierStep, ListTops, RelistTops, ListKids,
          RelistKids, ReadMapper, FindUser, RefindUser, ReadCredentials, ReadUser, HierExit
  <2> QED
    BY <2>1
<1> QED
  BY <1>2, <1>3, <1>4

(* A run asks a user to enrol again only for what it could not have seen.  *)
THEOREM ReenrollsOnlyUnseenAlways == Spec => ReenrollsOnlyUnseen
<1>1. HierInv /\ [Next]_vars =>
        [HierNext => \A u \in Users :
           (user'[u].actions \ user[u].actions) \cap user[u].creds
              \subseteq IF hier.cur = u THEN hier.unseen ELSE {}]_vars
  BY AsksOnlyUnseen
<1> QED
  BY HierarchyInvariant, <1>1, PTL DEF Spec, ReenrollsOnlyUnseen

-----------------------------------------------------------------------------
(* Memberships: what a run has given its users.                            *)

Belongs(u, us) == MemberOf[u] \subseteq us[u].members

JoinedSteps == {"creds"} \cup EnrolSteps

Joined(h, us, gs, m) ==
    /\ h.at = "join" => h.sub \subseteq MemberOf[h.cur]
    /\ h.at = "idle" => h.paths = {}
    /\ h.applied =>
          /\ h.paths \subseteq gs
          /\ h.at \in UserSteps \cup {"users"} =>
                /\ m = TRUE
                /\ \A u \in Users \ h.todo : Belongs(u, us) \/ (h.at # "users" /\ u = h.cur)
          /\ h.at = "join" => MemberOf[h.cur] \ h.sub \subseteq us[h.cur].members
          /\ h.at \in JoinedSteps => Belongs(h.cur, us)

MembersInv ==
    /\ mapper \in BOOLEAN /\ hands \in Nat /\ added \in [Users -> SUBSET Paths]
    /\ \A u \in Users : user[u].members \subseteq MemberOf[u] \cup added[u]
    /\ Joined(hier, user, groups, mapper)
    /\ tidy => mapper = TRUE /\ \A u \in Users : Belongs(u, user)

(* Coder's side: what a run has created and set.                           *)
CreateSteps == {"teams", "mkTeams"}
PatchSteps == {"org", "groups", "roles"}

Patched(h, set) ==
    h.applied =>
        /\ h.at = "org" => OrgSetting \subseteq set \cup h.sub
        /\ h.at = "groups" => OrgSetting \cup GroupSettings \subseteq set \cup h.sub
        /\ h.at = "roles" => Settings \subseteq set \cup h.sub

IdpTypeOK ==
    /\ orgs \subseteq Orgs /\ teams \subseteq Teams /\ sync \subseteq Settings
    /\ idp \in Idp /\ synced \in BOOLEAN

Created(h, os, ts) ==
    /\ h.at = "mkOrgs" => Orgs \ h.todo \subseteq os
    /\ h.at \in CreateSteps \cup PatchSteps => os = Orgs
    /\ h.at = "mkTeams" => h.sub \subseteq Teams
    /\ h.at = "teams" => {t \in Teams : t[1] \notin h.todo} \subseteq ts
    /\ h.at = "mkTeams" => {t \in Teams : t[1] \notin h.todo} \subseteq ts \cup h.sub
    /\ h.at \in PatchSteps => ts = Teams /\ h.sub \subseteq Settings

IdpInv ==
    /\ IdpTypeOK
    /\ Created(idp, orgs, teams) /\ Patched(idp, sync)
    /\ synced => idp.at = "idle" /\ orgs = Orgs /\ teams = Teams /\ sync = Settings

AccountInv ==
    /\ account \in [Users -> Account] /\ current \subseteq Users
    /\ \A u \in Users : account[u].teams \subseteq Image(TeamOf, Paths)
    /\ AccessAsDeclared

-----------------------------------------------------------------------------
(* The steps of the hierarchy run keep MembersInv.                         *)

(* A run that goes on.                                                     *)
LEMMA MembersGo ==
  ASSUME HierInv, MembersInv, hier.at # "idle", tidy' = tidy,
         mapper' \in BOOLEAN, hands' \in Nat, added' = added,
         \A u \in Users : user'[u].members \subseteq MemberOf[u] \cup added[u],
         Joined(hier', user', groups', mapper')
  PROVE  MembersInv'
BY DEF HierInv, MembersInv

(* Before the users: the ids it has are of groups that exist.              *)
LEMMA MembersEarly ==
  ASSUME HierInv, MembersInv, hier.at # "idle", UNCHANGED <<user, mapper, hands, added, tidy>>,
         groups \subseteq groups',
         hier'.at \notin UserSteps \cup {"users"}, hier'.at = "idle" => hier'.paths = {},
         hier'.applied => hier'.paths \subseteq groups'
  PROVE  MembersInv'
<1>1. Joined(hier', user', groups', mapper')
  BY DEF Joined, UserSteps, EnrolSteps, JoinedSteps
<1> QED
  BY <1>1, MembersGo DEF MembersInv

(* The run ends with an exception.                                         *)
LEMMA MembersDie ==
  ASSUME HierInv, MembersInv, hier.at # "idle", HierDies, UNCHANGED realm
  PROVE  MembersInv'
<1>1. /\ UNCHANGED <<user, mapper, hands, added, tidy, groups>> /\ hier' = NoHier
      /\ NoHier.at = "idle" /\ NoHier.paths = {}
  BY DEF HierDies, HierGoes, realm, NoHier
<1> QED
  BY <1>1, MembersEarly DEF UserSteps, EnrolSteps

(* The groups.                                                             *)
LEMMA MembersGroups ==
  ASSUME HierInv, MembersInv, ListTops \/ CreateTop \/ RelistTops
  PROVE  MembersInv'
<1>1. /\ hier \in Hier /\ hier.at \in {"tops", "mkTops", "retops"}
      /\ hier.applied => hier.paths \subseteq groups
  BY DEF HierInv, MembersInv, Joined, ListTops, CreateTop, RelistTops
<1>2. CASE HierDies /\ UNCHANGED realm
  BY <1>1, <1>2, MembersDie
<1>3. CASE ListTops /\ ~HierDies
  <2>1. UNCHANGED <<user, mapper, hands, added, tidy, groups>>
    BY <1>3 DEF ListTops, Answers, Empty, HierGoes, realm
  <2>2. hier'.at = "mkTops" /\ hier'.paths = hier.paths /\ hier'.applied = hier.applied
    BY <1>1, <1>3 DEF ListTops, Answers, Empty, HierGoes, Hier
  <2> QED
    BY <1>1, <2>1, <2>2, MembersEarly DEF UserSteps, EnrolSteps
<1>4. CASE CreateTop
  <2>1. UNCHANGED <<user, mapper, hands, added, tidy>> /\ groups \subseteq groups'
    BY <1>4 DEF CreateTop, Writes, HierGoes, realm
  <2>2. /\ hier'.at \in {"mkTops", "retops"} /\ hier'.paths = hier.paths
        /\ hier'.applied \in {hier.applied, FALSE}
    BY <1>1, <1>4 DEF CreateTop, Writes, HierGoes, Hier
  <2> QED
    BY <1>1, <2>1, <2>2, MembersEarly DEF UserSteps, EnrolSteps
<1>5. CASE RelistTops /\ ~HierDies
  <2>1. UNCHANGED <<user, mapper, hands, added, tidy, groups>>
    BY <1>5 DEF RelistTops, Answers, HierGoes, realm
  <2>2. hier'.at = "kids" /\ hier'.paths = Tops \cap groups
    BY <1>1, <1>5 DEF RelistTops, Answers, HierGoes, Hier
  <2> QED
    BY <1>1, <2>1, <2>2, MembersEarly DEF UserSteps, EnrolSteps
<1> QED
  BY <1>2, <1>3, <1>4, <1>5 DEF ListTops, RelistTops

(* The subgroups.                                                          *)
LEMMA MembersSubgroups ==
  ASSUME HierInv, MembersInv, ListKids \/ CreateKid \/ RelistKids \/ ReadMapper
  PROVE  MembersInv'
<1>1. /\ hier \in Hier /\ hier.at \in {"kids", "mkKids", "rekids", "mapper"}
      /\ hier.applied => hier.paths \subseteq groups
  BY DEF HierInv, MembersInv, Joined, ListKids, CreateKid, RelistKids, ReadMapper
<1>2. CASE HierDies /\ UNCHANGED realm
  BY <1>1, <1>2, MembersDie
<1>3. CASE ListKids /\ ~HierDies
  <2>1. UNCHANGED <<user, mapper, hands, added, tidy, groups>>
    BY <1>3 DEF ListKids, Answers, Empty, HierGoes, realm
  <2>2. hier'.at \in {"mkKids", "mapper"} /\ hier'.paths = hier.paths /\ hier'.applied = hier.applied
    BY <1>1, <1>3 DEF ListKids, Answers, Empty, HierGoes, Hier
  <2> QED
    BY <1>1, <2>1, <2>2, MembersEarly DEF UserSteps, EnrolSteps
<1>4. CASE CreateKid
  <2>1. UNCHANGED <<user, mapper, hands, added, tidy>> /\ groups \subseteq groups'
    BY <1>4 DEF CreateKid, Writes, HierGoes, realm
  <2>2. /\ hier'.at \in {"mkKids", "rekids"} /\ hier'.paths = hier.paths
        /\ hier'.applied \in {hier.applied, FALSE}
    <3>1. \/ HierGoes([hier EXCEPT !.at = "rekids"])
          \/ \E g \in hier.sub :
                \/ HierGoes([hier EXCEPT !.sub = @ \ {g}])
                \/ HierGoes([[hier EXCEPT !.sub = @ \ {g}] EXCEPT !.applied = FALSE])
      BY <1>4 DEF CreateKid, Writes
    <3>2. hier.at = "mkKids"
      BY <1>4 DEF CreateKid
    <3> QED
      BY <1>1, <3>1, <3>2 DEF HierGoes, Hier
  <2> QED
    BY <1>1, <2>1, <2>2, MembersEarly DEF UserSteps, EnrolSteps
<1>5. CASE RelistKids /\ ~HierDies
  <2>1. UNCHANGED <<user, mapper, hands, added, tidy, groups>>
    BY <1>5 DEF RelistKids, Answers, Empty, HierGoes, realm
  <2>2. /\ hier'.at = "kids" /\ hier'.applied = hier.applied
        /\ hier'.paths \subseteq hier.paths \cup groups
    <3>1. PICK x \in SUBSET groups :
            hier' = [hier EXCEPT !.at = "kids", !.cur = "none", !.paths = hier.paths \cup x]
      BY <1>5 DEF RelistKids, Answers, Empty, HierGoes
    <3> QED
      BY <1>1, <3>1 DEF Hier
  <2> QED
    BY <1>1, <2>1, <2>2, MembersEarly DEF UserSteps, EnrolSteps
<1>6. CASE ReadMapper /\ ~HierDies
  <2>1. UNCHANGED <<user, mapper, hands, added, tidy, groups>>
    BY <1>6 DEF ReadMapper, Answers, HierGoes, realm
  <2>2. hier'.at = "putMapper" /\ hier'.paths = hier.paths /\ hier'.applied = hier.applied
    BY <1>1, <1>6 DEF ReadMapper, Answers, HierGoes, Hier
  <2> QED
    BY <1>1, <2>1, <2>2, MembersEarly DEF UserSteps, EnrolSteps
<1> QED
  BY <1>2, <1>3, <1>4, <1>5, <1>6 DEF ListKids, RelistKids, ReadMapper

(* The mapper is there before the first user, or the run was refused it.   *)
LEMMA MembersMapper == ASSUME HierInv, MembersInv, WriteMapper PROVE MembersInv'
<1>1. hier \in Hier /\ hier.at = "putMapper" /\ (hier.applied => hier.paths \subseteq groups)
  BY DEF HierInv, MembersInv, Joined, WriteMapper
<1>2. UNCHANGED <<user, hands, added, tidy, groups>>
  BY DEF WriteMapper, Writes, HierGoes, realm
<1>3. /\ hier'.at = "users" /\ hier'.todo = Users /\ hier'.paths = hier.paths
      /\ \/ hier'.applied = FALSE /\ mapper' = mapper
         \/ hier'.applied = hier.applied /\ mapper' = TRUE
  BY <1>1 DEF WriteMapper, Writes, HierGoes, Hier, realm
<1>4. Joined(hier', user', groups', mapper')
  BY <1>1, <1>2, <1>3 DEF Joined, JoinedSteps, EnrolSteps
<1> QED
  BY <1>1, <1>2, <1>3, <1>4, MembersGo DEF MembersInv

(* The next user is found or about to be created.                          *)
LEMMA MembersFind == ASSUME HierInv, MembersInv, FindUser PROVE MembersInv'
<1>1. hier \in Hier /\ hier.at = "users" /\ Joined(hier, user, groups, mapper)
  BY DEF HierInv, MembersInv, FindUser
<1>2. CASE HierDies
  BY <1>1, <1>2, MembersDie DEF FindUser
<1>3. CASE ~HierDies
  <2>1. UNCHANGED <<user, mapper, hands, added, tidy, groups>>
    BY <1>3 DEF FindUser, Answers, Empty, HierGoes, realm
  <2>2. /\ hier'.at \in {"mkUser", "password"} /\ hier'.todo = hier.todo \ {hier'.cur}
        /\ hier'.paths = hier.paths /\ hier'.applied = hier.applied
    BY <1>1, <1>3 DEF FindUser, Answers, Empty, HierGoes, Hier
  <2>3. Joined(hier', user', groups', mapper')
    BY <1>1, <2>1, <2>2 DEF Joined, UserSteps, JoinedSteps, EnrolSteps
  <2> QED
    BY <1>1, <2>1, <2>3, MembersGo DEF MembersInv
<1> QED
  BY <1>2, <1>3

(* The user is created and gets the password.                              *)
LEMMA MembersUser ==
  ASSUME HierInv, MembersInv, CreateUser \/ RefindUser \/ ResetPassword
  PROVE  MembersInv'
<1>1. /\ hier \in Hier /\ hier.at \in {"mkUser", "reuser", "password"} /\ hier.cur \in Users
      /\ Joined(hier, user, groups, mapper) /\ user \in [Users -> User]
  BY DEF HierInv, MembersInv, CreateUser, RefindUser, ResetPassword, Seen, UserSteps
<1>2. CASE HierDies /\ UNCHANGED realm
  BY <1>1, <1>2, MembersDie
<1>3. CASE ~(HierDies /\ UNCHANGED realm)
  <2>1. UNCHANGED <<mapper, hands, added, tidy, groups>>
    BY <1>3 DEF CreateUser, RefindUser, ResetPassword, Writes, Answers, HierGoes, realm
  <2>2. /\ hier'.at \in {"reuser", "password", "join"} /\ hier'.todo = hier.todo
        /\ hier'.cur = hier.cur /\ hier'.paths = hier.paths
        /\ hier'.applied \in {hier.applied, FALSE}
        /\ hier'.at = "join" => hier'.sub = MemberOf[hier.cur]
    <3>1. CASE CreateUser
      BY <1>1, <3>1 DEF CreateUser, Writes, HierGoes, Hier
    <3>2. CASE RefindUser
      BY <1>1, <1>3, <3>2 DEF RefindUser, Answers, HierGoes, Hier
    <3>3. CASE ResetPassword
      BY <1>1, <3>3 DEF ResetPassword, Writes, HierGoes, Hier
    <3> QED
      BY <3>1, <3>2, <3>3
  <2>3. \A u \in Users : user'[u].members = user[u].members
    <3>1. CASE user' = user
      BY <3>1
    <3>2. ASSUME NEW c, c.members = user[hier.cur].members, user' = [user EXCEPT ![hier.cur] = c]
          PROVE  \A u \in Users : user'[u].members = user[u].members
      BY <1>1, <3>2
    <3>3. /\ [user[hier.cur] EXCEPT !.up = TRUE].members = user[hier.cur].members
          /\ [user[hier.cur] EXCEPT !.pw = TRUE].members = user[hier.cur].members
      BY <1>1 DEF User
    <3>4. \/ user' = user
          \/ user' = [user EXCEPT ![hier.cur] = [user[hier.cur] EXCEPT !.up = TRUE]]
          \/ user' = [user EXCEPT ![hier.cur] = [user[hier.cur] EXCEPT !.pw = TRUE]]
      BY DEF CreateUser, RefindUser, ResetPassword, Writes, realm
    <3> QED
      BY <3>1, <3>2, <3>3, <3>4
  <2>4. Joined(hier', user', groups', mapper')
    BY <1>1, <2>1, <2>2, <2>3 DEF Joined, UserSteps, JoinedSteps, EnrolSteps, Belongs
  <2> QED
    BY <1>1, <2>1, <2>3, <2>4, MembersGo DEF MembersInv
<1> QED
  BY <1>2, <1>3

(* One membership after the other: the group is there, and so is the user  *)
(* in it, or the run has been refused something.                           *)
LEMMA MembersJoin == ASSUME HierInv, MembersInv, JoinGroup PROVE MembersInv'
<1>1. /\ hier \in Hier /\ hier.at = "join" /\ hier.cur \in Users
      /\ Joined(hier, user, groups, mapper) /\ user \in [Users -> User]
      /\ hier.sub \subseteq MemberOf[hier.cur]
      /\ \A u \in Users : user[u].members \subseteq MemberOf[u] \cup added[u]
  BY DEF HierInv, MembersInv, JoinGroup, Seen, UserSteps, Joined
<1>2. CASE HierDies /\ UNCHANGED realm
  BY <1>1, <1>2, MembersDie
<1>3. CASE /\ hier.sub = {} /\ UNCHANGED realm
           /\ HierGoes(IF Required[hier.cur] = {} THEN NextUser ELSE [hier EXCEPT !.at = "creds"])
  <2>1. UNCHANGED <<user, mapper, hands, added, tidy, groups>>
    BY <1>3 DEF HierGoes, realm
  <2>2. /\ hier'.todo = hier.todo /\ hier'.paths = hier.paths
        /\ hier'.applied = hier.applied
        /\ hier'.at = "users" \/ (hier'.at = "creds" /\ hier'.cur = hier.cur)
    BY <1>1, <1>3 DEF HierGoes, NextUser, Hier
  <2>3. hier.applied => Belongs(hier.cur, user)
    BY <1>1, <1>3 DEF Joined, Belongs
  <2>4. Joined(hier', user', groups', mapper')
    BY <1>1, <2>1, <2>2, <2>3 DEF Joined, UserSteps, JoinedSteps, EnrolSteps
  <2> QED
    BY <1>1, <2>1, <2>4, MembersGo DEF MembersInv
<1>4. ASSUME NEW g \in hier.sub, g \in hier.paths,
             Writes([hier EXCEPT !.sub = @ \ {g}],
                    /\ user' = IF g \in groups
                               THEN [user EXCEPT ![hier.cur].members = @ \cup {g}]
                               ELSE user
                    /\ UNCHANGED <<groups, mapper, hands, added>>)
      PROVE  MembersInv'
  <2>1. UNCHANGED <<mapper, hands, added, tidy, groups>>
    BY <1>4 DEF Writes, HierGoes, realm
  <2>2. /\ hier'.at = "join" /\ hier'.todo = hier.todo /\ hier'.cur = hier.cur
        /\ hier'.paths = hier.paths /\ hier'.sub = hier.sub \ {g}
        /\ hier'.applied \in {hier.applied, FALSE}
    BY <1>1, <1>4 DEF Writes, HierGoes, Hier
  <2>3. /\ \A u \in Users : /\ user[u].members \subseteq user'[u].members
                            /\ user'[u].members \subseteq MemberOf[u] \cup added[u]
        /\ hier'.applied => g \in user'[hier.cur].members
    <3> DEFINE c == [user[hier.cur] EXCEPT !.members = user[hier.cur].members \cup {g}]
    <3>1. c.members = user[hier.cur].members \cup {g} /\ g \in MemberOf[hier.cur]
      BY <1>1 DEF User
    <3>2. \/ user' = user /\ (hier'.applied = FALSE \/ g \notin groups)
          \/ user' = [user EXCEPT ![hier.cur] = c]
      BY <1>1, <1>4 DEF Writes, HierGoes, Hier, realm
    <3> HIDE DEF c
    <3>3. CASE user' = user /\ (hier'.applied = FALSE \/ g \notin groups)
      <4>1. hier'.applied = FALSE \/ hier.applied = FALSE
        BY <1>1, <1>4, <3>3 DEF Joined
      <4> QED
        BY <1>1, <2>2, <3>3, <4>1
    <3>4. CASE user' = [user EXCEPT ![hier.cur] = c]
      BY <1>1, <3>1, <3>4
    <3> QED
      BY <3>2, <3>3, <3>4
  <2>4. Joined(hier', user', groups', mapper')
    <3>1. hier'.applied => MemberOf[hier.cur] \ hier'.sub \subseteq user'[hier.cur].members
      BY <1>1, <2>2, <2>3 DEF Joined
    <3> QED
      BY <1>1, <2>1, <2>2, <2>3, <3>1 DEF Joined, UserSteps, JoinedSteps, EnrolSteps, Belongs
  <2> QED
    BY <1>1, <2>1, <2>3, <2>4, MembersGo DEF MembersInv
<1> QED
  BY <1>2, <1>3, <1>4 DEF JoinGroup

(* The required actions leave the memberships alone.                       *)
LEMMA MembersEnrolment ==
  ASSUME HierInv, MembersInv, ReadCredentials \/ ReadUser \/ WriteUser
  PROVE  MembersInv'
<1>1. /\ hier \in Hier /\ hier.at \in JoinedSteps /\ hier.cur \in Users
      /\ Joined(hier, user, groups, mapper) /\ user \in [Users -> User]
  BY DEF HierInv, MembersInv, ReadCredentials, ReadUser, WriteUser, Seen, UserSteps,
         EnrolSteps, JoinedSteps
<1>2. CASE HierDies /\ UNCHANGED realm
  BY <1>1, <1>2, MembersDie DEF JoinedSteps, EnrolSteps
<1>3. CASE ~(HierDies /\ UNCHANGED realm)
  <2>1. UNCHANGED <<mapper, hands, added, tidy, groups>>
    BY <1>3 DEF ReadCredentials, ReadUser, WriteUser, Writes, Answers, Empty, HierGoes, realm
  <2>2. /\ hier'.todo = hier.todo /\ hier'.paths = hier.paths
        /\ hier'.applied \in {hier.applied, FALSE}
        /\ hier'.at = "users" \/ (hier'.at \in EnrolSteps /\ hier'.cur = hier.cur)
    <3>1. CASE ReadCredentials
      BY <1>1, <1>3, <3>1 DEF ReadCredentials, Answers, Empty, HierGoes, Hier, EnrolSteps
    <3>2. CASE ReadUser
      BY <1>1, <1>3, <3>2 DEF ReadUser, Answers, HierGoes, NextUser, Hier, EnrolSteps
    <3>3. CASE WriteUser
      BY <1>1, <3>3 DEF WriteUser, Writes, HierGoes, NextUser, Hier
    <3> QED
      BY <3>1, <3>2, <3>3
  <2>3. \A u \in Users : user'[u].members = user[u].members
    <3> DEFINE c == [user[hier.cur] EXCEPT !.actions = hier.rep]
    <3>1. c.members = user[hier.cur].members
      BY <1>1 DEF User
    <3>2. user' = user \/ user' = [user EXCEPT ![hier.cur] = c]
      BY DEF ReadCredentials, ReadUser, WriteUser, Writes, realm
    <3> HIDE DEF c
    <3> QED
      BY <1>1, <3>1, <3>2
  <2>4. Joined(hier', user', groups', mapper')
    BY <1>1, <2>1, <2>2, <2>3 DEF Joined, UserSteps, JoinedSteps, EnrolSteps, Belongs
  <2> QED
    BY <1>1, <2>1, <2>3, <2>4, MembersGo DEF MembersInv, JoinedSteps, EnrolSteps
<1> QED
  BY <1>2, <1>3

(* A run starts with nothing, ends with everybody where they belong, or    *)
(* dies.                                                                   *)
LEMMA MembersEnds ==
  ASSUME HierInv, MembersInv, HierStart \/ HierExit \/ HierCrash
  PROVE  MembersInv'
<1>1. UNCHANGED <<groups, mapper, user, hands, added>>
  BY DEF HierStart, HierExit, HierCrash, realm
<1>2. CASE HierStart
  <2>1. tidy' = FALSE /\ hier'.at = "tops" /\ hier'.paths = {}
    BY <1>2 DEF HierStart, NoHier
  <2>2. Joined(hier', user', groups', mapper')
    BY <2>1 DEF Joined, UserSteps, JoinedSteps, EnrolSteps
  <2> QED
    BY <1>1, <2>1, <2>2 DEF MembersInv
<1>3. CASE HierExit
  <2>1. /\ tidy' = hier.applied /\ hier'.at = "idle" /\ hier'.paths = {}
        /\ hier.at = "users" /\ hier.todo = {} /\ hier.applied \in BOOLEAN
    BY <1>3 DEF HierExit, NoHier, HierInv, Hier
  <2>2. Joined(hier', user', groups', mapper')
    BY <2>1 DEF Joined, UserSteps, JoinedSteps, EnrolSteps
  <2>3. hier.applied => mapper = TRUE /\ \A u \in Users : Belongs(u, user)
    BY <2>1 DEF MembersInv, Joined
  <2> QED
    BY <1>1, <2>1, <2>2, <2>3 DEF MembersInv, Belongs
<1>4. CASE HierCrash
  BY <1>4, MembersDie DEF HierCrash
<1> QED
  BY <1>2, <1>3, <1>4

(* Users enrol; administrators remove a credential, or a group: a run in   *)
(* flight no longer counts, and neither does the last one.  A member they  *)
(* add is in no fewer groups than before.                                  *)
LEMMA MembersPeople == ASSUME HierInv, MembersInv, PeopleNext PROVE MembersInv'
<1>1. /\ hier \in Hier /\ user \in [Users -> User] /\ Joined(hier, user, groups, mapper)
      /\ hands \in Nat /\ added \in [Users -> SUBSET Paths] /\ groups \subseteq Paths
      /\ \A v \in Users : user[v].members \subseteq MemberOf[v] \cup added[v]
  BY DEF HierInv, MembersInv
<1>2. CASE Enrol
  <2>1. UNCHANGED <<groups, mapper, hands, added, tidy>>
    BY <1>2 DEF Enrol
  <2>2. /\ hier'.at = hier.at /\ hier'.todo = hier.todo /\ hier'.cur = hier.cur
        /\ hier'.sub = hier.sub /\ hier'.paths = hier.paths /\ hier'.applied = hier.applied
    BY <1>1, <1>2 DEF Enrol, Hier
  <2>3. \A v \in Users : user'[v].members = user[v].members
    <3>1. PICK u \in Users, a \in Actions :
            user' = [user EXCEPT ![u].actions = @ \ {a}, ![u].creds = @ \cup {a}]
      BY <1>1, <1>2 DEF Enrol, User
    <3> DEFINE c == [user[u] EXCEPT !.actions = user[u].actions \ {a}]
               us == [user EXCEPT ![u] = c]
               d == [us[u] EXCEPT !.creds = us[u].creds \cup {a}]
    <3>2. c.members = user[u].members /\ c \in User
      BY <1>1 DEF User
    <3>3. us = [user EXCEPT ![u] = c] /\ user' = [us EXCEPT ![u] = d]
      BY <3>1
    <3> HIDE DEF c
    <3>4. us \in [Users -> User] /\ us[u] = c
      BY <1>1, <3>2
    <3>5. d.members = user[u].members
      BY <3>2, <3>4 DEF User
    <3> HIDE DEF us, d
    <3>6. user'[u] = d /\ \A v \in Users \ {u} : user'[v] = user[v]
      BY <1>1, <3>3, <3>4
    <3> QED
      BY <3>5, <3>6
  <2>4. hier.at \in {"join"} \cup JoinedSteps => hier.cur \in Users
    BY DEF HierInv, Seen, UserSteps, JoinedSteps
  <2>5. Joined(hier', user', groups', mapper')
    BY <1>1, <2>1, <2>2, <2>3, <2>4 DEF Joined, Belongs
  <2> QED
    BY <2>1, <2>3, <2>5 DEF MembersInv, Belongs
<1>3. CASE RemoveCredential \/ RemoveGroup
  <2>1. mapper' = mapper /\ tidy' = FALSE /\ hands' = hands + 1
        /\ hier' = [hier EXCEPT !.applied = (hier.at = "idle")]
    BY <1>3 DEF RemoveCredential, RemoveGroup, Removed
  <2>2. /\ hier'.at = hier.at /\ hier'.cur = hier.cur /\ hier'.sub = hier.sub
        /\ hier'.paths = hier.paths /\ (hier'.applied => hier.at = "idle")
    BY <1>1, <2>1 DEF Hier
  <2>3. /\ added' \in [Users -> SUBSET Paths]
        /\ \A v \in Users : user'[v].members \subseteq MemberOf[v] \cup added'[v]
    <3>1. CASE RemoveCredential
      <4>1. PICK u \in Users, a \in Actions : user' = [user EXCEPT ![u].creds = @ \ {a}]
        BY <1>1, <3>1 DEF RemoveCredential, User
      <4> DEFINE c == [user[u] EXCEPT !.creds = user[u].creds \ {a}]
      <4>2. user' = [user EXCEPT ![u] = c] /\ c.members = user[u].members
        BY <1>1, <4>1 DEF User
      <4>3. added' = added
        BY <3>1 DEF RemoveCredential
      <4> HIDE DEF c
      <4> QED
        BY <1>1, <4>2, <4>3
    <3>2. CASE RemoveGroup
      <4>1. PICK gone : /\ user' = [u \in Users |-> [user[u] EXCEPT !.members = @ \ gone]]
                        /\ added' = [u \in Users |-> added[u] \ gone]
        BY <3>2 DEF RemoveGroup
      <4>2. ASSUME NEW u \in Users
            PROVE  user'[u].members = user[u].members \ gone
        <5>1. user[u] \in User
              /\ user'[u] = [user[u] EXCEPT !.members = user[u].members \ gone]
          BY <1>1, <4>1
        <5> QED
          BY <5>1 DEF User
      <4> QED
        BY <1>1, <4>1, <4>2
    <3> QED
      BY <1>3, <3>1, <3>2
  <2>4. Joined(hier', user', groups', mapper')
    BY <1>1, <2>2 DEF Joined, UserSteps, JoinedSteps, EnrolSteps
  <2> QED
    BY <1>1, <2>1, <2>3, <2>4 DEF MembersInv
<1>4. CASE AddMember
  <2>1. PICK u \in Users, g \in Paths :
          /\ user' = [user EXCEPT ![u].members = @ \cup {g}]
          /\ added' = [added EXCEPT ![u] = @ \cup ({g} \ MemberOf[u])]
    BY <1>1, <1>4 DEF AddMember
  <2>2. UNCHANGED <<groups, mapper, hier, tidy>> /\ hands' \in Nat
    BY <1>1, <1>4 DEF AddMember
  <2> DEFINE c == [user[u] EXCEPT !.members = user[u].members \cup {g}]
  <2>3. c.members = user[u].members \cup {g} /\ user' = [user EXCEPT ![u] = c]
    BY <1>1, <2>1 DEF User
  <2> HIDE DEF c
  <2>4. \A v \in Users :
          /\ user'[v].members = IF v = u THEN user[v].members \cup {g} ELSE user[v].members
          /\ added'[v] = IF v = u THEN added[v] \cup ({g} \ MemberOf[v]) ELSE added[v]
    BY <1>1, <2>1, <2>3
  <2>5. /\ added' \in [Users -> SUBSET Paths]
        /\ \A v \in Users : user'[v].members \subseteq MemberOf[v] \cup added'[v]
        /\ \A v \in Users : user[v].members \subseteq user'[v].members
    BY <1>1, <2>1, <2>4
  <2>6. hier.at \in {"join"} \cup JoinedSteps => hier.cur \in Users
    BY DEF HierInv, Seen, UserSteps, JoinedSteps
  <2>7. Joined(hier', user', groups', mapper')
    BY <1>1, <2>2, <2>5, <2>6 DEF Joined, Belongs
  <2> QED
    BY <2>2, <2>5, <2>7 DEF MembersInv, Belongs
<1> QED
  BY <1>2, <1>3, <1>4 DEF PeopleNext

(* Nobody is in a group they do not belong to, unless by hand, and after a *)
(* tidy run everybody is in all of theirs.                                 *)
THEOREM MembershipInvariant == Spec => []MembersInv
<1>1. Init => MembersInv
  <2> SUFFICES ASSUME Init PROVE MembersInv
    OBVIOUS
  <2>1. /\ \A u \in Users : user[u].members = {}
        /\ added \in [Users -> SUBSET Paths]
    BY DEF Init, HierInit, NoUser
  <2>2. hier.at = "idle" /\ hier.paths = {} /\ mapper = FALSE /\ hands = 0 /\ tidy = FALSE
    BY DEF Init, HierInit, NoHier
  <2>3. Joined(hier, user, groups, mapper)
    BY <2>2 DEF Joined, UserSteps, JoinedSteps, EnrolSteps
  <2> QED
    BY <2>1, <2>2, <2>3 DEF MembersInv
<1>2. HierInv /\ MembersInv /\ [Next]_vars => MembersInv'
  <2> SUFFICES ASSUME HierInv, MembersInv, [Next]_vars PROVE MembersInv'
    OBVIOUS
  <2>1. CASE HierNext
    BY <2>1, MembersGroups, MembersSubgroups, MembersMapper, MembersFind, MembersUser,
       MembersJoin, MembersEnrolment, MembersEnds DEF HierNext, HierStep
  <2>2. CASE PeopleNext
    BY <2>2, MembersPeople
  <2>3. CASE UNCHANGED hierVars
    BY <2>3 DEF hierVars, MembersInv, Joined, Belongs
  <2> QED
    BY <2>1, <2>2, <2>3 DEF Next, HierNext, SignIn, vars
<1> QED
  BY <1>1, <1>2, HierarchyInvariant, PTL DEF Spec

-----------------------------------------------------------------------------
(* The steps of the sync run keep IdpInv.                                  *)

(* No run knows of nothing.                                                *)
LEMMA NoIdpTyped == NoIdp \in Idp /\ NoIdp.at = "idle" /\ NoIdp.applied = TRUE
BY DEF NoIdp, Idp

(* A run that goes on.                                                     *)
LEMMA IdpMoves ==
  ASSUME IdpInv, idp.at # "idle", synced' = synced,
         orgs' \subseteq Orgs, teams' \subseteq Teams, sync' \subseteq Settings, idp' \in Idp,
         Created(idp', orgs', teams'), Patched(idp', sync')
  PROVE  IdpInv'
BY DEF IdpInv, IdpTypeOK

(* The run ends with an exception or exit 1.                               *)
LEMMA IdpDiesKeeps ==
  ASSUME IdpInv, idp.at # "idle", IdpDies, UNCHANGED coder PROVE IdpInv'
<1>1. idp' = NoIdp /\ UNCHANGED <<orgs, teams, sync, synced>>
  BY DEF IdpDies, IdpGoes, coder
<1>2. Created(NoIdp, orgs, teams) /\ Patched(NoIdp, sync)
  BY NoIdpTyped DEF Created, Patched, CreateSteps, PatchSteps
<1> QED
  BY <1>1, <1>2, NoIdpTyped, IdpMoves DEF IdpInv, IdpTypeOK

(* A run starts or is killed.                                              *)
LEMMA IdpEndsKeep == ASSUME IdpInv, IdpStart \/ IdpCrash PROVE IdpInv'
<1>1. CASE IdpStart
  <2> DEFINE h == [NoIdp EXCEPT !.at = "orgs"]
  <2>1. idp' = h /\ synced' = FALSE /\ UNCHANGED <<orgs, teams, sync>>
    BY <1>1 DEF IdpStart, coder
  <2>2. h \in Idp /\ h.at = "orgs"
    BY NoIdpTyped DEF Idp
  <2> HIDE DEF h
  <2>3. Created(h, orgs, teams) /\ Patched(h, sync)
    BY <2>2 DEF Created, Patched, CreateSteps, PatchSteps
  <2> QED
    BY <2>1, <2>2, <2>3 DEF IdpInv, IdpTypeOK
<1>2. CASE IdpCrash
  BY <1>2, IdpDiesKeeps DEF IdpCrash
<1> QED
  BY <1>1, <1>2

(* The organizations.                                                      *)
LEMMA ListOrgsKeeps == ASSUME IdpInv, ListOrgs PROVE IdpInv'
<1>1. idp.at = "orgs" /\ UNCHANGED coder /\ UNCHANGED <<orgs, teams, sync>> /\ idp \in Idp
  BY DEF ListOrgs, coder, IdpInv, IdpTypeOK
<1>2. CASE IdpDies
  BY <1>1, <1>2, IdpDiesKeeps
<1>3. ASSUME NEW x \in SUBSET Orgs, Orgs \ x \subseteq orgs,
             IdpGoes([idp EXCEPT !.at = "mkOrgs", !.todo = x])
      PROVE  IdpInv'
  <2> DEFINE g == [idp EXCEPT !.at = "mkOrgs"]
             h == [g EXCEPT !.todo = x]
  <2>1. g = [idp EXCEPT !.at = "mkOrgs"] /\ h = [g EXCEPT !.todo = x]
        /\ idp' = h /\ synced' = synced
    BY <1>3 DEF IdpGoes
  <2> HIDE DEF g, h
  <2>2. g \in Idp /\ g.at = "mkOrgs"
    BY <1>1, <2>1 DEF Idp
  <2>3. h \in Idp /\ h.at = "mkOrgs" /\ h.todo = x
    BY <2>1, <2>2 DEF Idp
  <2>4. Created(h, orgs, teams) /\ Patched(h, sync)
    BY <1>3, <2>3 DEF Created, Patched, CreateSteps, PatchSteps
  <2> QED
    BY <1>1, <2>1, <2>3, <2>4, IdpMoves DEF IdpInv, IdpTypeOK
<1>4. Orgs \ (Orgs \ orgs) \subseteq orgs /\ Orgs \ Orgs \subseteq orgs
  OBVIOUS
<1> QED
  BY <1>2, <1>3, <1>4 DEF ListOrgs

(* The missing ones are POSTed; one that exists ends the run.              *)
LEMMA CreateOrgKeeps == ASSUME IdpInv, CreateOrg PROVE IdpInv'
<1>1. /\ idp.at = "mkOrgs" /\ idp \in Idp /\ Orgs \ idp.todo \subseteq orgs
      /\ orgs \subseteq Orgs /\ idp.todo \subseteq Orgs
  BY DEF CreateOrg, IdpInv, IdpTypeOK, Created, Idp
<1>2. CASE idp.todo = {} /\ UNCHANGED coder /\ IdpGoes([idp EXCEPT !.at = "teams", !.todo = Orgs])
  <2> DEFINE g == [idp EXCEPT !.at = "teams"]
             h == [g EXCEPT !.todo = Orgs]
  <2>1. g = [idp EXCEPT !.at = "teams"] /\ h = [g EXCEPT !.todo = Orgs]
        /\ idp' = h /\ UNCHANGED <<orgs, teams, sync, synced>>
    BY <1>2 DEF IdpGoes, coder
  <2> HIDE DEF g, h
  <2>2. g \in Idp /\ g.at = "teams"
    BY <1>1, <2>1 DEF Idp
  <2>3. h \in Idp /\ h.at = "teams" /\ h.todo = Orgs
    BY <2>1, <2>2 DEF Idp
  <2>4. \A t \in Teams : t[1] \in Orgs
    BY DEF Teams
  <2>5. Created(h, orgs, teams) /\ Patched(h, sync)
    BY <1>1, <1>2, <2>3, <2>4 DEF Created, Patched, CreateSteps, PatchSteps
  <2> QED
    BY <1>1, <2>1, <2>3, <2>5, IdpMoves DEF IdpInv, IdpTypeOK
<1>3. ASSUME NEW o \in idp.todo, orgs' = orgs \cup {o}, UNCHANGED <<teams, sync>>,
             IdpGoes([idp EXCEPT !.todo = @ \ {o}])
      PROVE  IdpInv'
  <2> DEFINE h == [idp EXCEPT !.todo = idp.todo \ {o}]
  <2>1. h = [idp EXCEPT !.todo = idp.todo \ {o}] /\ idp' = h /\ synced' = synced
    BY <1>3 DEF IdpGoes
  <2> HIDE DEF h
  <2>2. h \in Idp /\ h.at = "mkOrgs" /\ h.todo = idp.todo \ {o}
    BY <1>1, <2>1 DEF Idp
  <2>3. orgs' \subseteq Orgs
    BY <1>1, <1>3
  <2>4. Created(h, orgs', teams') /\ Patched(h, sync')
    BY <1>1, <1>3, <2>2 DEF Created, Patched, CreateSteps, PatchSteps
  <2> QED
    BY <1>1, <1>3, <2>1, <2>2, <2>3, <2>4, IdpMoves DEF IdpInv, IdpTypeOK
<1>4. CASE IdpDies /\ UNCHANGED coder
  BY <1>1, <1>4, IdpDiesKeeps
<1> QED
  BY <1>2, <1>3, <1>4 DEF CreateOrg

(* The groups of each.                                                     *)
LEMMA ListTeamsKeeps == ASSUME IdpInv, ListTeams PROVE IdpInv'
<1>1. /\ idp.at = "teams" /\ idp \in Idp /\ orgs = Orgs /\ UNCHANGED coder
      /\ UNCHANGED <<orgs, teams, sync>> /\ teams \subseteq Teams
      /\ {t \in Teams : t[1] \notin idp.todo} \subseteq teams
      /\ idp.todo \subseteq Orgs
  BY DEF ListTeams, IdpInv, IdpTypeOK, Created, Idp, coder, CreateSteps
<1>2. CASE IdpDies
  BY <1>1, <1>2, IdpDiesKeeps
<1>3. CASE idp.todo = {} /\ IdpGoes([idp EXCEPT !.at = "org", !.sub = OrgSetting])
  <2> DEFINE g == [idp EXCEPT !.at = "org"]
             h == [g EXCEPT !.sub = OrgSetting]
  <2>1. g = [idp EXCEPT !.at = "org"] /\ h = [g EXCEPT !.sub = OrgSetting]
        /\ idp' = h /\ synced' = synced
    BY <1>3 DEF IdpGoes
  <2> HIDE DEF g, h
  <2>2. g \in Idp /\ g.at = "org"
    BY <1>1, <2>1 DEF Idp
  <2>3. OrgSetting \subseteq Settings
    BY DEF Settings
  <2>4. h \in Idp /\ h.at = "org" /\ h.sub = OrgSetting
    BY <2>1, <2>2, <2>3 DEF Idp
  <2>5. Created(h, orgs, teams) /\ Patched(h, sync)
    BY <1>1, <1>3, <2>3, <2>4 DEF Created, Patched, CreateSteps, PatchSteps
  <2> QED
    BY <1>1, <2>1, <2>4, <2>5, IdpMoves DEF IdpInv, IdpTypeOK
<1>4. ASSUME NEW o \in idp.todo, NEW found \in SUBSET teams,
             IdpGoes([idp EXCEPT !.at = "mkTeams", !.todo = @ \ {o},
                                 !.sub = {t \in Teams : t[1] = o} \ found])
      PROVE  IdpInv'
  <2> DEFINE x == {t \in Teams : t[1] = o} \ found
             f == [idp EXCEPT !.at = "mkTeams"]
             g == [f EXCEPT !.todo = idp.todo \ {o}]
             h == [g EXCEPT !.sub = x]
  <2>1. /\ f = [idp EXCEPT !.at = "mkTeams"] /\ g = [f EXCEPT !.todo = idp.todo \ {o}]
        /\ h = [g EXCEPT !.sub = x] /\ idp' = h /\ synced' = synced
    BY <1>4 DEF IdpGoes
  <2>2. /\ x \subseteq Teams
        /\ {t \in Teams : t[1] \notin idp.todo \ {o}} \subseteq teams \cup x
    BY <1>1
  <2> HIDE DEF f, g, h, x
  <2>3. f \in Idp /\ f.at = "mkTeams" /\ f.todo = idp.todo
    BY <1>1, <2>1 DEF Idp
  <2>4. g \in Idp /\ g.at = "mkTeams" /\ g.todo = idp.todo \ {o}
    BY <1>1, <2>1, <2>3 DEF Idp
  <2>5. h \in Idp /\ h.at = "mkTeams" /\ h.todo = idp.todo \ {o} /\ h.sub = x
    BY <2>1, <2>2, <2>4 DEF Idp
  <2>6. Created(h, orgs, teams) /\ Patched(h, sync)
    BY <1>1, <2>2, <2>5 DEF Created, Patched, CreateSteps, PatchSteps
  <2> QED
    BY <1>1, <2>1, <2>5, <2>6, IdpMoves DEF IdpInv, IdpTypeOK
<1>5. teams \in SUBSET teams /\ {} \in SUBSET teams
  OBVIOUS
<1> QED
  BY <1>2, <1>3, <1>4, <1>5 DEF ListTeams

(* The missing groups are POSTed.                                          *)
LEMMA CreateTeamKeeps == ASSUME IdpInv, CreateTeam PROVE IdpInv'
<1>1. /\ idp.at = "mkTeams" /\ idp \in Idp /\ orgs = Orgs /\ teams \subseteq Teams
      /\ idp.sub \subseteq Teams
      /\ {t \in Teams : t[1] \notin idp.todo} \subseteq teams \cup idp.sub
  BY DEF CreateTeam, IdpInv, IdpTypeOK, Created, CreateSteps
<1>2. CASE idp.sub = {} /\ UNCHANGED coder /\ IdpGoes([idp EXCEPT !.at = "teams"])
  <2> DEFINE h == [idp EXCEPT !.at = "teams"]
  <2>1. h = [idp EXCEPT !.at = "teams"] /\ idp' = h
        /\ UNCHANGED <<orgs, teams, sync, synced>>
    BY <1>2 DEF IdpGoes, coder
  <2> HIDE DEF h
  <2>2. h \in Idp /\ h.at = "teams" /\ h.todo = idp.todo
    BY <1>1, <2>1 DEF Idp
  <2>3. Created(h, orgs, teams) /\ Patched(h, sync)
    BY <1>1, <1>2, <2>2 DEF Created, Patched, CreateSteps, PatchSteps
  <2> QED
    BY <1>1, <2>1, <2>2, <2>3, IdpMoves DEF IdpInv, IdpTypeOK
<1>3. ASSUME NEW t \in idp.sub, teams' = teams \cup {t}, UNCHANGED <<orgs, sync>>,
             IdpGoes([idp EXCEPT !.sub = @ \ {t}])
      PROVE  IdpInv'
  <2> DEFINE h == [idp EXCEPT !.sub = idp.sub \ {t}]
  <2>1. h = [idp EXCEPT !.sub = idp.sub \ {t}] /\ idp' = h /\ synced' = synced
    BY <1>3 DEF IdpGoes
  <2> HIDE DEF h
  <2>2. h \in Idp /\ h.at = "mkTeams" /\ h.sub = idp.sub \ {t} /\ h.todo = idp.todo
    BY <1>1, <2>1 DEF Idp
  <2>3. teams' \subseteq Teams
    BY <1>1, <1>3
  <2>4. Created(h, orgs', teams') /\ Patched(h, sync')
    BY <1>1, <1>3, <2>2 DEF Created, Patched, CreateSteps, PatchSteps
  <2> QED
    BY <1>1, <1>3, <2>1, <2>2, <2>3, <2>4, IdpMoves DEF IdpInv, IdpTypeOK
<1>4. CASE IdpDies /\ UNCHANGED coder
  BY <1>1, <1>4, IdpDiesKeeps
<1> QED
  BY <1>2, <1>3, <1>4 DEF CreateTeam

(* The PATCHes: a setting is set, or the run was refused it.               *)
LEMMA PatchKeeps ==
  ASSUME IdpInv, NEW step \in PatchSteps, NEW next \in PatchSteps,
         NEW left \in SUBSET Settings, PatchSetting(step, next, left),
         idp.sub = {} /\ idp.applied => \A x : x.applied /\ x.at = next /\ x.sub = left => Patched(x, sync)
  PROVE  IdpInv'
<1>1. /\ idp.at = step /\ idp.at # "idle" /\ idp \in Idp /\ orgs = Orgs /\ teams = Teams
      /\ sync \subseteq Settings /\ idp.sub \subseteq Settings /\ Patched(idp, sync)
  BY DEF PatchSetting, IdpInv, IdpTypeOK, Created, PatchSteps
<1>2. CASE idp.sub = {} /\ UNCHANGED coder /\ IdpGoes([idp EXCEPT !.at = next, !.sub = left])
  <2> DEFINE g == [idp EXCEPT !.at = next]
             h == [g EXCEPT !.sub = left]
  <2>1. g = [idp EXCEPT !.at = next] /\ h = [g EXCEPT !.sub = left] /\ idp' = h
        /\ UNCHANGED <<orgs, teams, sync, synced>>
    BY <1>2 DEF IdpGoes, coder
  <2> HIDE DEF g, h
  <2>2. g \in Idp /\ g.at = next /\ g.applied = idp.applied
    BY <1>1, <2>1 DEF Idp, PatchSteps
  <2>3. h \in Idp /\ h.at = next /\ h.sub = left /\ h.applied = idp.applied
    BY <2>1, <2>2 DEF Idp
  <2>4. Created(h, orgs, teams)
    BY <1>1, <2>3 DEF Created, CreateSteps, PatchSteps
  <2>5. Patched(h, sync)
    <3>1. CASE idp.applied
      BY <1>2, <2>3, <3>1
    <3>2. CASE ~idp.applied
      BY <2>3, <3>2 DEF Patched
    <3> QED
      BY <3>1, <3>2
  <2> QED
    BY <1>1, <2>1, <2>3, <2>4, <2>5, IdpMoves
<1>3. ASSUME NEW s \in idp.sub, sync' = sync \cup {s}, UNCHANGED <<orgs, teams>>,
             IdpGoes([idp EXCEPT !.sub = @ \ {s}])
      PROVE  IdpInv'
  <2> DEFINE h == [idp EXCEPT !.sub = idp.sub \ {s}]
  <2>1. h = [idp EXCEPT !.sub = idp.sub \ {s}] /\ idp' = h /\ synced' = synced
    BY <1>3 DEF IdpGoes
  <2> HIDE DEF h
  <2>2. h \in Idp /\ h.at = step /\ h.sub = idp.sub \ {s} /\ h.applied = idp.applied
    BY <1>1, <2>1 DEF Idp
  <2>3. sync' \subseteq Settings /\ sync' \cup h.sub = sync \cup idp.sub
    BY <1>1, <1>3, <2>2
  <2>4. Created(h, orgs', teams')
    BY <1>1, <1>3, <2>2 DEF Created, CreateSteps, PatchSteps
  <2>5. Patched(h, sync')
    BY <1>1, <2>2, <2>3 DEF Patched
  <2> QED
    BY <1>1, <1>3, <2>1, <2>2, <2>3, <2>4, <2>5, IdpMoves
<1>4. ASSUME NEW s \in idp.sub, UNCHANGED coder,
             IdpGoes([idp EXCEPT !.sub = @ \ {s}, !.applied = FALSE])
      PROVE  IdpInv'
  <2> DEFINE g == [idp EXCEPT !.sub = idp.sub \ {s}]
             h == [g EXCEPT !.applied = FALSE]
  <2>1. g = [idp EXCEPT !.sub = idp.sub \ {s}] /\ h = [g EXCEPT !.applied = FALSE]
        /\ idp' = h /\ UNCHANGED <<orgs, teams, sync, synced>>
    BY <1>4 DEF IdpGoes, coder
  <2> HIDE DEF g, h
  <2>2. g \in Idp /\ g.at = step /\ g.sub = idp.sub \ {s}
    BY <1>1, <2>1 DEF Idp
  <2>3. h \in Idp /\ h.at = step /\ h.sub = idp.sub \ {s} /\ h.applied = FALSE
    BY <2>1, <2>2 DEF Idp
  <2>4. Created(h, orgs, teams) /\ Patched(h, sync)
    BY <1>1, <2>3 DEF Created, Patched, CreateSteps, PatchSteps
  <2> QED
    BY <1>1, <2>1, <2>3, <2>4, IdpMoves
<1> QED
  BY <1>2, <1>3, <1>4 DEF PatchSetting

(* Organization sync, then groups, then roles; and the exit.               *)
LEMMA SyncKeeps == ASSUME IdpInv, SyncOrgs \/ SyncGroups \/ SyncRoles PROVE IdpInv'
<1>1. /\ Patched(idp, sync) /\ "org" \in PatchSteps /\ "groups" \in PatchSteps
      /\ "roles" \in PatchSteps /\ GroupSettings \in SUBSET Settings
      /\ RoleSettings \in SUBSET Settings /\ {} \in SUBSET Settings
  BY DEF IdpInv, PatchSteps, Settings
<1>2. CASE SyncOrgs
  <2>1. idp.at = "org" /\ (idp.sub = {} /\ idp.applied => OrgSetting \subseteq sync)
    BY <1>1, <1>2 DEF SyncOrgs, PatchSetting, Patched
  <2>2. idp.sub = {} /\ idp.applied =>
          \A x : x.applied /\ x.at = "groups" /\ x.sub = GroupSettings => Patched(x, sync)
    BY <2>1 DEF Patched
  <2> QED
    BY <1>1, <1>2, <2>2, PatchKeeps DEF SyncOrgs
<1>3. CASE SyncGroups
  <2>1. idp.at = "groups"
        /\ (idp.sub = {} /\ idp.applied => OrgSetting \cup GroupSettings \subseteq sync)
    BY <1>1, <1>3 DEF SyncGroups, PatchSetting, Patched
  <2>2. idp.sub = {} /\ idp.applied =>
          \A x : x.applied /\ x.at = "roles" /\ x.sub = RoleSettings => Patched(x, sync)
    BY <2>1 DEF Patched, Settings
  <2> QED
    BY <1>1, <1>3, <2>2, PatchKeeps DEF SyncGroups
<1>4. CASE idp.sub # {} /\ PatchSetting("roles", "roles", {})
  BY <1>1, <1>4, PatchKeeps
<1>5. CASE /\ idp.at = "roles" /\ idp.sub = {} /\ idp' = NoIdp /\ synced' = idp.applied
           /\ UNCHANGED coder
  <2>1. /\ UNCHANGED <<orgs, teams, sync>> /\ idp.applied \in BOOLEAN
        /\ orgs = Orgs /\ teams = Teams /\ sync \subseteq Settings
    BY <1>5 DEF coder, IdpInv, IdpTypeOK, Idp, Created, PatchSteps
  <2>2. idp.applied => Settings \subseteq sync
    BY <1>1, <1>5 DEF Patched
  <2>3. Created(NoIdp, orgs, teams) /\ Patched(NoIdp, sync)
    BY NoIdpTyped DEF Created, Patched, CreateSteps, PatchSteps
  <2> QED
    BY <1>5, <2>1, <2>2, <2>3, NoIdpTyped DEF IdpInv, IdpTypeOK
<1> QED
  BY <1>2, <1>3, <1>4, <1>5 DEF SyncRoles

(* An Owner changes a setting: the run no longer counts.                   *)
LEMMA SettingChangedKeeps == ASSUME IdpInv, SettingChanged PROVE IdpInv'
<1> DEFINE b == idp.at = "idle"
           h == [idp EXCEPT !.applied = b]
<1>1. h = [idp EXCEPT !.applied = b] /\ idp' = h /\ synced' = FALSE
      /\ UNCHANGED <<orgs, teams>> /\ sync' \subseteq sync
  BY DEF SettingChanged
<1>2. b \in BOOLEAN /\ idp \in Idp /\ (b <=> idp.at = "idle")
  BY DEF IdpInv, IdpTypeOK
<1> HIDE DEF b, h
<1>3. h \in Idp /\ h.at = idp.at /\ h.todo = idp.todo /\ h.sub = idp.sub /\ h.applied = b
  BY <1>1, <1>2 DEF Idp
<1>4. Created(h, orgs, teams) /\ Patched(h, sync')
  BY <1>2, <1>3 DEF IdpInv, Created, Patched
<1> QED
  BY <1>1, <1>3, <1>4 DEF IdpInv, IdpTypeOK

(* After a run that exits 0 with its PATCHes carried out, Coder has every  *)
(* declared organization, group and setting, until somebody changes one.   *)
THEOREM SyncInvariant == Spec => []IdpInv
<1>1. Init => IdpInv
  <2> SUFFICES ASSUME Init PROVE IdpInv
    OBVIOUS
  <2>1. /\ orgs = {DefaultOrg} /\ teams = {} /\ sync = {} /\ idp = NoIdp /\ synced = FALSE
        /\ DefaultOrg \in Orgs
    BY IdpSyncAssumption DEF Init, IdpInit
  <2>2. Created(NoIdp, orgs, teams) /\ Patched(NoIdp, sync)
    BY NoIdpTyped DEF Created, Patched, CreateSteps, PatchSteps
  <2> QED
    BY <2>1, <2>2, NoIdpTyped DEF IdpInv, IdpTypeOK
<1>2. IdpInv /\ [Next]_vars => IdpInv'
  <2> SUFFICES ASSUME IdpInv, [Next]_vars PROVE IdpInv'
    OBVIOUS
  <2>1. CASE IdpStart \/ IdpStep \/ IdpCrash \/ SettingChanged
    BY <2>1, IdpEndsKeep, ListOrgsKeeps, CreateOrgKeeps, ListTeamsKeeps, CreateTeamKeeps,
       SyncKeeps, SettingChangedKeeps DEF IdpStep
  <2>2. CASE UNCHANGED idpVars
    BY <2>2 DEF idpVars, IdpInv, IdpTypeOK, Created, Patched
  <2> QED
    BY <2>1, <2>2 DEF Next, SignIn, vars
<1> QED
  BY <1>1, <1>2, PTL DEF Spec

-----------------------------------------------------------------------------
(* The accounts of the users.                                              *)

(* What a claim maps to is declared.                                       *)
LEMMA ImagesTyped ==
  ASSUME NEW paths
  PROVE  /\ Image(OrgOf, paths) \subseteq Orgs
         /\ Image(TeamOf, paths) \subseteq Image(TeamOf, Paths)
         /\ Image(RoleOf, paths) \subseteq Roles
BY IdpSyncAssumption, AccessAssumption DEF Image, Roles

(* A declared group or role has a setting that derives it.                 *)
LEMMA SettingsCover ==
  /\ <<"org">> \in Settings
  /\ \A x \in Image(TeamOf, Paths) : <<"groups", x[1]>> \in Settings
  /\ \A x \in Roles : <<"roles", x[1]>> \in Settings
BY DEF Image, Roles, Settings, OrgSetting, GroupSettings, RoleSettings

(* A declared Coder group is one of its organization.                      *)
LEMMA TeamsTyped == Image(TeamOf, Paths) \subseteq Teams
BY IdpSyncAssumption DEF Image

(* Signing in gives an account of what is there.                           *)
LEMMA SignedInTyped ==
  ASSUME IdpTypeOK, NEW old \in Account, old.teams \subseteq Image(TeamOf, Paths), NEW claim
  PROVE  /\ SignedIn(old, claim) \in Account
         /\ SignedIn(old, claim).teams \subseteq Image(TeamOf, Paths)
<1> DEFINE os == IF <<"org">> \in sync THEN Image(OrgOf, claim) \cap orgs ELSE old.orgs
           ts == ({x \in Image(TeamOf, claim) : x[1] \in os /\ <<"groups", x[1]>> \in sync}
                  \cup {x \in old.teams : x[1] \in os /\ <<"groups", x[1]>> \notin sync})
                 \cap teams
           rs == {x \in Image(RoleOf, claim) : x[1] \in os /\ <<"roles", x[1]>> \in sync}
                 \cup {x \in old.roles : x[1] \in os /\ <<"roles", x[1]>> \notin sync}
<1>1. SignedIn(old, claim) = [orgs |-> os, teams |-> ts, roles |-> rs]
  BY DEF SignedIn
<1>2. os \subseteq Orgs /\ rs \subseteq Roles
  BY ImagesTyped DEF Account
<1>3. ts \subseteq Teams /\ ts \subseteq Image(TeamOf, Paths)
  BY ImagesTyped DEF IdpTypeOK
<1> HIDE DEF os, ts, rs
<1> QED
  BY <1>1, <1>2, <1>3 DEF Account

(* With every setting in place, signing in with the declared memberships   *)
(* gives the declared access, whatever the account was.                    *)
LEMMA SignedInDeclared ==
  ASSUME orgs = Orgs, teams = Teams, sync = Settings, NEW u \in Users,
         NEW old \in Account, old.teams \subseteq Image(TeamOf, Paths)
  PROVE  SignedIn(old, MemberOf[u]) = Declared(u)
<1> DEFINE claim == MemberOf[u]
           os == IF <<"org">> \in sync THEN Image(OrgOf, claim) \cap orgs ELSE old.orgs
           ts == ({x \in Image(TeamOf, claim) : x[1] \in os /\ <<"groups", x[1]>> \in sync}
                  \cup {x \in old.teams : x[1] \in os /\ <<"groups", x[1]>> \notin sync})
                 \cap teams
           rs == {x \in Image(RoleOf, claim) : x[1] \in os /\ <<"roles", x[1]>> \in sync}
                 \cup {x \in old.roles : x[1] \in os /\ <<"roles", x[1]>> \notin sync}
<1>1. SignedIn(old, claim) = [orgs |-> os, teams |-> ts, roles |-> rs]
  BY DEF SignedIn
<1>2. os = Image(OrgOf, claim)
  BY ImagesTyped, SettingsCover
<1>3. \A x \in Image(TeamOf, claim) \cup Image(RoleOf, claim) : x[1] \in os
  BY <1>2, AccessAssumption
<1>4. ts = Image(TeamOf, claim)
  BY <1>3, ImagesTyped, SettingsCover, TeamsTyped
<1>5. rs = Image(RoleOf, claim)
  BY <1>3, ImagesTyped, SettingsCover DEF Account
<1> HIDE DEF os, ts, rs
<1> QED
  BY <1>1, <1>2, <1>4, <1>5 DEF Declared

(* A user signs in.                                                        *)
LEMMA SignInKeeps == ASSUME MembersInv, IdpInv, AccountInv, SignIn PROVE AccountInv'
<1>1. PICK u \in Users :
        /\ account' = [account EXCEPT ![u] =
                          SignedIn(@, IF mapper THEN user[u].members ELSE {})]
        /\ current' = IF tidy /\ synced /\ added[u] = {}
                      THEN current \cup {u} ELSE current \ {u}
  BY DEF SignIn
<1> DEFINE claim == IF mapper THEN user[u].members ELSE {}
           a == SignedIn(account[u], claim)
<1>2. account' = [account EXCEPT ![u] = a]
  BY <1>1
<1>3. /\ account \in [Users -> Account] /\ account[u] \in Account
      /\ account[u].teams \subseteq Image(TeamOf, Paths) /\ IdpTypeOK
      /\ current \subseteq Users
  BY DEF AccountInv, IdpInv
<1>4. a \in Account /\ a.teams \subseteq Image(TeamOf, Paths)
  BY <1>3, SignedInTyped
<1>5. ASSUME tidy, synced, added[u] = {} PROVE a = Declared(u)
  <2>1. mapper = TRUE /\ user[u].members = MemberOf[u]
    BY <1>5 DEF MembersInv, Belongs
  <2>2. orgs = Orgs /\ teams = Teams /\ sync = Settings
    BY <1>5 DEF IdpInv
  <2> QED
    BY <1>3, <2>1, <2>2, SignedInDeclared
<1> HIDE DEF a, claim
<1>6. account' \in [Users -> Account] /\ current' \subseteq Users
  BY <1>1, <1>2, <1>3, <1>4
<1>7. \A v \in Users : account'[v] = IF v = u THEN a ELSE account[v]
  BY <1>2, <1>3
<1>8. ASSUME NEW v \in Users PROVE account'[v].teams \subseteq Image(TeamOf, Paths)
  BY <1>4, <1>7 DEF AccountInv
<1>9. ASSUME NEW v \in current' PROVE account'[v] = Declared(v)
  <2>1. CASE v = u
    BY <1>1, <1>5, <1>7, <1>9, <2>1
  <2>2. CASE v # u
    BY <1>1, <1>3, <1>7, <1>9, <2>2 DEF AccountInv, AccessAsDeclared
  <2> QED
    BY <2>1, <2>2
<1> QED
  BY <1>6, <1>8, <1>9 DEF AccountInv, AccessAsDeclared, Declared

(* The accounts, and who is current, are as they were left by sign-ins.    *)
THEOREM AccountInvariant == Spec => []AccountInv
<1>1. Init => AccountInv
  <2> SUFFICES ASSUME Init PROVE AccountInv
    OBVIOUS
  <2>1. account = [u \in Users |-> NoAccount] /\ current = {}
    BY DEF Init
  <2>2. NoAccount \in Account /\ NoAccount.teams = {}
    BY DEF NoAccount, Account
  <2> QED
    BY <2>1, <2>2 DEF AccountInv, AccessAsDeclared
<1>2. MembersInv /\ IdpInv /\ AccountInv /\ [Next]_vars => AccountInv'
  <2> SUFFICES ASSUME MembersInv, IdpInv, AccountInv, [Next]_vars PROVE AccountInv'
    OBVIOUS
  <2>1. CASE SignIn
    BY <2>1, SignInKeeps
  <2>2. CASE UNCHANGED <<account, current>>
    BY <2>2 DEF AccountInv, AccessAsDeclared, Declared
  <2> QED
    BY <2>1, <2>2 DEF Next, vars
<1> QED
  BY <1>1, <1>2, MembershipInvariant, SyncInvariant, PTL DEF Spec

(* Whoever signs in once both scripts have exited 0, with their writes     *)
(* carried out and nothing removed or changed by hand since, and is in no  *)
(* group by hand alone, has exactly the declared organizations, groups and *)
(* roles.                                                                  *)
THEOREM AccessAsDeclaredAlways == Spec => []AccessAsDeclared
<1>1. AccountInv => AccessAsDeclared
  BY DEF AccountInv
<1> QED
  BY <1>1, AccountInvariant, PTL

(* The types of the variables of both scripts and of the accounts.         *)
THEOREM SsoTypeOK == Spec => []TypeOK
<1>1. HierInv /\ MembersInv /\ IdpInv /\ AccountInv => TypeOK
  BY DEF HierInv, MembersInv, IdpInv, IdpTypeOK, AccountInv, TypeOK
<1> QED
  BY <1>1, HierarchyInvariant, MembershipInvariant, SyncInvariant, AccountInvariant, PTL
=============================================================================
