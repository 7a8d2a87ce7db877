-------------------------- MODULE KeycloakHierarchy --------------------------
(***************************************************************************)
(* scripts/setup-keycloak-hierarchy.py: the group tree of realm `coder`,   *)
(* the groups mapper of client `coder`, and the persona users with their   *)
(* memberships and required actions.                                       *)
(*                                                                         *)
(* A read whose answer is an error body raises where the caller expects    *)
(* JSON, and the run dies, unless the body is empty and only iterated over *)
(* or tested: that passes for "none".  The status of a write is not looked *)
(* at, and a POST of what exists is refused (which changes nothing).  The  *)
(* user is written back whole (line 255), after two reads: credentials,    *)
(* then the user.  Users enrol, and administrators remove credentials and  *)
(* groups and add members to groups, at any time.                          *)
(***************************************************************************)
EXTENDS Naturals, FiniteSets

CONSTANTS
    Tops,       \* GROUP_TREE: the top-level groups
    Kids,       \* GROUP_TREE: for each, the paths of its subgroups
    Users,      \* USERS
    MemberOf,   \* the paths of each user
    Actions,    \* required actions, and the credentials they provision
    Required,   \* the required actions of each user
    KcRefused,  \* the requests of the script that may be refused, and whether
                \* a read may be with an empty body
    MaxHands    \* bound on changes by administrators

Paths == Tops \cup UNION {Kids[t] : t \in Tops}

ASSUME HierarchyAssumption ==
    /\ Kids \in [Tops -> SUBSET Paths]
    /\ \A t \in Tops : Kids[t] \cap Tops = {}
    /\ MemberOf \in [Users -> SUBSET Paths]
    /\ Required \in [Users -> SUBSET Actions]
    /\ KcRefused \subseteq {"read", "write", "empty"}
    /\ MaxHands \in Nat

VARIABLES
    groups,     \* the groups that exist
    mapper,     \* the groups mapper is as declared
    user,       \* each user: up, whether it has the declared password, its
                \* memberships, pending required actions and credentials
    hands,      \* changes by administrators so far
    added,      \* history: the groups each user is in by hand alone
    hier,       \* the run: where it is, groups or users left to do and a
                \* second such set below it, the paths it has ids of, the
                \* credentials and required actions read, all writes applied,
                \* and (history) actions the user carried out that it has not
                \* seen: since its reads, or all if the answer was empty
    tidy        \* history: a run exited 0, every write applied, and no
                \* administrator has removed anything since it started

hierVars == <<groups, mapper, user, hands, added, hier, tidy>>

NoUser == [up |-> FALSE, pw |-> FALSE, members |-> {}, actions |-> {}, creds |-> {}]

User == [up : BOOLEAN, pw : BOOLEAN, members : SUBSET Paths,
         actions : SUBSET Actions, creds : SUBSET Actions]

HierSteps == {"idle", "tops", "mkTops", "retops", "kids", "mkKids", "rekids",
              "mapper", "putMapper", "users", "mkUser", "reuser", "password",
              "join", "creds", "rep", "putUser"}

Hier == [at : HierSteps, todo : SUBSET (Tops \cup Users),
         cur : Tops \cup Users \cup {"none"}, sub : SUBSET Paths,
         paths : SUBSET Paths, have : SUBSET Actions, rep : SUBSET Actions,
         applied : BOOLEAN, unseen : SUBSET Actions]

NoHier == [at |-> "idle", todo |-> {}, cur |-> "none", sub |-> {}, paths |-> {},
           have |-> {}, rep |-> {}, applied |-> TRUE, unseen |-> {}]

HierInit ==
    /\ groups = {} /\ mapper = FALSE
    /\ user = [u \in Users |-> NoUser]
    /\ hands = 0 /\ added = [u \in Users |-> {}]
    /\ hier = NoHier /\ tidy = FALSE

-----------------------------------------------------------------------------
realm == <<groups, mapper, user, hands, added>>

HierGoes(change) == hier' = change /\ UNCHANGED tidy

HierDies == HierGoes(NoHier)

(* A GET: its answer, or an error body that raises.                        *)
Answers(change) == HierGoes(change) \/ ("read" \in KcRefused /\ HierDies)

Empty(change) == "empty" \in KcRefused /\ HierGoes(change)

(* A PUT or POST, carried out or refused; either way the run goes on.      *)
Writes(change, effect) ==
    \/ effect /\ HierGoes(change)
    \/ /\ "write" \in KcRefused
       /\ HierGoes([change EXCEPT !.applied = FALSE])
       /\ UNCHANGED realm

HierStart ==
    /\ hier.at = "idle"
    /\ hier' = [NoHier EXCEPT !.at = "tops"] /\ tidy' = FALSE
    /\ UNCHANGED realm

(* ensure_groups: GET /groups.                                             *)
ListTops ==
    /\ hier.at = "tops"
    /\ \/ Answers([hier EXCEPT !.at = "mkTops", !.sub = Tops \ groups])
       \/ Empty([hier EXCEPT !.at = "mkTops", !.sub = Tops])
    /\ UNCHANGED realm

CreateTop ==
    /\ hier.at = "mkTops"
    /\ \/ /\ hier.sub = {} /\ HierGoes([hier EXCEPT !.at = "retops"])
          /\ UNCHANGED realm
       \/ \E g \in hier.sub :
             Writes([hier EXCEPT !.sub = @ \ {g}],
                    groups' = groups \cup {g} /\ UNCHANGED <<mapper, user, hands, added>>)

(* GET again, for the ids; a group that is still missing raises KeyError   *)
(* when its turn comes.                                                    *)
RelistTops ==
    /\ hier.at = "retops"
    /\ Answers([hier EXCEPT !.at = "kids", !.todo = Tops, !.paths = Tops \cap groups])
    /\ UNCHANGED realm

(* The children of one top-level group; none if it has gone since (an      *)
(* error body raises).                                                     *)
ListKids ==
    /\ hier.at = "kids"
    /\ \/ hier.todo = {} /\ HierGoes([hier EXCEPT !.at = "mapper"])
       \/ \E t \in hier.todo :
             IF t \in hier.paths /\ t \in groups
             THEN LET found(sub) == [hier EXCEPT !.at = "mkKids", !.todo = @ \ {t},
                                                 !.cur = t, !.sub = sub]
                  IN  Answers(found(Kids[t] \ groups)) \/ Empty(found(Kids[t]))
             ELSE HierDies
    /\ UNCHANGED realm

CreateKid ==
    /\ hier.at = "mkKids"
    /\ \/ /\ hier.sub = {} /\ HierGoes([hier EXCEPT !.at = "rekids"])
          /\ UNCHANGED realm
       \/ \E g \in hier.sub :
             Writes([hier EXCEPT !.sub = @ \ {g}],
                    /\ groups' = IF hier.cur \in groups THEN groups \cup {g} ELSE groups
                    /\ UNCHANGED <<mapper, user, hands, added>>)

RelistKids ==
    /\ hier.at = "rekids"
    /\ LET listed(kids) == [hier EXCEPT !.at = "kids", !.cur = "none", !.paths = @ \cup kids]
       IN  IF hier.cur \in groups
           THEN Answers(listed(Kids[hier.cur] \cap groups)) \/ Empty(listed({}))
           ELSE HierDies
    /\ UNCHANGED realm

(* ensure_mapper: the client, its mappers; then a PUT or POST.             *)
ReadMapper ==
    /\ hier.at = "mapper"
    /\ Answers([hier EXCEPT !.at = "putMapper"])
    /\ UNCHANGED realm

WriteMapper ==
    /\ hier.at = "putMapper"
    /\ Writes([hier EXCEPT !.at = "users", !.todo = Users],
              mapper' = TRUE /\ UNCHANGED <<groups, user, hands, added>>)

(* Mutation: a user that exists is left alone.                             *)
FindUserNew ==
    /\ hier.at = "users"
    /\ \E u \in hier.todo :
          Answers(IF user[u].up THEN [hier EXCEPT !.todo = @ \ {u}]
                  ELSE [hier EXCEPT !.at = "mkUser", !.todo = @ \ {u}, !.cur = u])
    /\ UNCHANGED realm

(* ensure_users: GET by name, else POST and GET again.                     *)
FindUser ==
    /\ hier.at = "users"
    /\ \E u \in hier.todo :
          LET goes(step) == [hier EXCEPT !.at = step, !.todo = @ \ {u}, !.cur = u]
          IN  Answers(goes(IF user[u].up THEN "password" ELSE "mkUser")) \/ Empty(goes("mkUser"))
    /\ UNCHANGED realm

CreateUser ==
    /\ hier.at = "mkUser"
    /\ Writes([hier EXCEPT !.at = "reuser"],
              /\ user' = [user EXCEPT ![hier.cur].up = TRUE]
              /\ UNCHANGED <<groups, mapper, hands, added>>)

RefindUser ==
    /\ hier.at = "reuser"
    /\ IF user[hier.cur].up
       THEN Answers([hier EXCEPT !.at = "password"])
       ELSE HierDies
    /\ UNCHANGED realm

ResetPassword ==
    /\ hier.at = "password"
    /\ Writes([hier EXCEPT !.at = "join", !.sub = MemberOf[hier.cur]],
              /\ user' = [user EXCEPT ![hier.cur].pw = TRUE]
              /\ UNCHANGED <<groups, mapper, hands, added>>)

NextUser == [hier EXCEPT !.at = "users", !.cur = "none", !.have = {}, !.rep = {}, !.unseen = {}]

(* One PUT per membership.  A path without an id raises KeyError; a group  *)
(* that has gone since is refused.                                         *)
JoinGroup ==
    /\ hier.at = "join"
    /\ \/ /\ hier.sub = {}
          /\ HierGoes(IF Required[hier.cur] = {} THEN NextUser
                      ELSE [hier EXCEPT !.at = "creds"])
          /\ UNCHANGED realm
       \/ \E g \in hier.sub :
             IF g \notin hier.paths THEN HierDies /\ UNCHANGED realm
             ELSE Writes([hier EXCEPT !.sub = @ \ {g}],
                         /\ user' = IF g \in groups
                                    THEN [user EXCEPT ![hier.cur].members = @ \cup {g}]
                                    ELSE user
                         /\ UNCHANGED <<groups, mapper, hands, added>>)

(* Mutation: no look at the credentials that are there.                    *)
ReadCredentialsNot ==
    /\ hier.at = "creds"
    /\ HierGoes([hier EXCEPT !.at = "rep"])
    /\ UNCHANGED realm

(* ensure_required_actions: first the credentials ...                      *)
ReadCredentials ==
    /\ hier.at = "creds"
    /\ \/ Answers([hier EXCEPT !.at = "rep", !.have = user[hier.cur].creds])
       \/ Empty([hier EXCEPT !.at = "rep", !.unseen = Actions])
    /\ UNCHANGED realm

(* Mutation: a user with any pending action is taken for done.             *)
ReadUserPending ==
    /\ hier.at = "rep"
    /\ LET current == user[hier.cur].actions
           merged == current \cup (Required[hier.cur] \ hier.have)
       IN  Answers(IF merged = current \/ current # {} THEN NextUser
                   ELSE [hier EXCEPT !.at = "putUser", !.rep = merged])
    /\ UNCHANGED realm

(* ... then the user, to which the pending actions are added ...           *)
ReadUser ==
    /\ hier.at = "rep"
    /\ LET current == user[hier.cur].actions
           merged == current \cup (Required[hier.cur] \ hier.have)
       IN  Answers(IF merged = current THEN NextUser
                   ELSE [hier EXCEPT !.at = "putUser", !.rep = merged])
    /\ UNCHANGED realm

(* ... and written back whole.                                             *)
WriteUser ==
    /\ hier.at = "putUser"
    /\ Writes(NextUser,
              /\ user' = [user EXCEPT ![hier.cur].actions = hier.rep]
              /\ UNCHANGED <<groups, mapper, hands, added>>)

(* Every user is done: the paths are printed, exit 0.                      *)
HierExit ==
    /\ hier.at = "users" /\ hier.todo = {}
    /\ hier' = NoHier /\ tidy' = hier.applied
    /\ UNCHANGED realm

HierCrash == hier.at # "idle" /\ HierDies /\ UNCHANGED realm

HierStep ==
    \/ ListTops \/ CreateTop \/ RelistTops \/ ListKids \/ CreateKid \/ RelistKids
    \/ ReadMapper \/ WriteMapper
    \/ FindUser \/ CreateUser \/ RefindUser \/ ResetPassword \/ JoinGroup
    \/ ReadCredentials \/ ReadUser \/ WriteUser \/ HierExit

HierNext == HierStart \/ HierStep \/ HierCrash

-----------------------------------------------------------------------------
(* Users and administrators.                                               *)

(* Signing in with the password; Keycloak has the user carry out a pending *)
(* action and clears it.                                                   *)
Enrol ==
    /\ \E u \in Users : \E a \in user[u].actions :
          /\ user[u].pw
          /\ user' = [user EXCEPT ![u].actions = @ \ {a}, ![u].creds = @ \cup {a}]
          /\ hier' = IF hier.cur = u /\ hier.at \in {"rep", "putUser"}
                     THEN [hier EXCEPT !.unseen = @ \cup {a}] ELSE hier
    /\ UNCHANGED <<groups, mapper, hands, added, tidy>>

(* What the run has seen may be gone by the time it is done: the run then  *)
(* counts as disturbed.                                                    *)
Removed ==
    /\ hands < MaxHands /\ hands' = hands + 1
    /\ hier' = [hier EXCEPT !.applied = (hier.at = "idle")]
    /\ tidy' = FALSE

(* A lost phone or passkey.                                                *)
RemoveCredential ==
    /\ \E u \in Users : \E a \in user[u].creds :
          user' = [user EXCEPT ![u].creds = @ \ {a}]
    /\ Removed
    /\ UNCHANGED <<groups, mapper, added>>

(* A group, with its subgroups and their memberships.                      *)
RemoveGroup ==
    /\ \E g \in groups :
          LET gone == {g} \cup IF g \in Tops THEN Kids[g] ELSE {}
          IN  /\ groups' = groups \ gone
              /\ user' = [u \in Users |-> [user[u] EXCEPT !.members = @ \ gone]]
              /\ added' = [u \in Users |-> added[u] \ gone]
    /\ Removed
    /\ UNCHANGED mapper

(* A membership given by hand, which no run ever takes away.               *)
AddMember ==
    /\ hands < MaxHands /\ hands' = hands + 1
    /\ \E u \in Users : \E g \in groups :
          /\ user[u].up
          /\ user' = [user EXCEPT ![u].members = @ \cup {g}]
          /\ added' = [added EXCEPT ![u] = @ \cup ({g} \ MemberOf[u])]
    /\ UNCHANGED <<groups, mapper, hier, tidy>>

PeopleNext == Enrol \/ RemoveCredential \/ RemoveGroup \/ AddMember
=============================================================================
