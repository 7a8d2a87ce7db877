------------------------------- MODULE IdpSync -------------------------------
(***************************************************************************)
(* scripts/setup-coder-idp-sync.py: Coder's organizations and groups, and  *)
(* the settings that derive them, and roles, from the OIDC groups claim.   *)
(* A failed GET raises, or passes for an empty list if its body is empty;  *)
(* a refused POST ends the run with exit 1, also of what exists; the       *)
(* status of the seven PATCHes is printed and not looked at.               *)
(***************************************************************************)
EXTENDS Naturals, FiniteSets

CONSTANTS
    Orgs,         \* ORGS
    DefaultOrg,   \* the one Coder starts with
    OrgGroups,    \* GROUPS: the Coder groups of each organization
    OrgOf,        \* ORG_SYNC: group paths to organizations
    TeamOf,       \* GROUP_SYNC: group paths to groups of an organization
    RoleOf,       \* ROLE_SYNC: group paths to roles in an organization
    CoderRefused  \* the requests of the script that may be refused

Teams == UNION {{<<o, g>> : g \in OrgGroups[o]} : o \in Orgs}

ASSUME IdpSyncAssumption ==
    /\ DefaultOrg \in Orgs
    /\ \A o \in Orgs : IsFiniteSet(OrgGroups[o])
    /\ \A p \in DOMAIN OrgOf : OrgOf[p] \in Orgs
    /\ \A p \in DOMAIN TeamOf : TeamOf[p] \in Teams
    /\ \A p \in DOMAIN RoleOf : RoleOf[p][1] \in Orgs
    /\ CoderRefused \subseteq {"read", "create", "patch", "empty"}

VARIABLES
    orgs,       \* the organizations Coder has
    teams,      \* their groups: pairs of organization and name
    sync,       \* settings that are as the script wants them: <<"org">>,
                \* <<"groups", o>>, <<"roles", o>>
    idp,        \* the run: where it is, organizations left to do, groups or
                \* settings left below them, every PATCH carried out
    synced      \* history: a run exited 0 with every PATCH carried out, and
                \* nobody has changed Coder's side since it started

idpVars == <<orgs, teams, sync, idp, synced>>
coder == <<orgs, teams, sync>>

OrgSetting == {<<"org">>}
GroupSettings == {<<"groups", TeamOf[p][1]>> : p \in DOMAIN TeamOf}
RoleSettings == {<<"roles", RoleOf[p][1]>> : p \in DOMAIN RoleOf}
Settings == OrgSetting \cup GroupSettings \cup RoleSettings

Idp == [at : {"idle", "orgs", "mkOrgs", "teams", "mkTeams", "org", "groups", "roles"},
        todo : SUBSET Orgs, sub : SUBSET (Teams \cup Settings), applied : BOOLEAN]

NoIdp == [at |-> "idle", todo |-> {}, sub |-> {}, applied |-> TRUE]

IdpInit ==
    /\ orgs = {DefaultOrg} /\ teams = {} /\ sync = {}
    /\ idp = NoIdp /\ synced = FALSE

-----------------------------------------------------------------------------
IdpGoes(change) == idp' = change /\ UNCHANGED synced

IdpDies == IdpGoes(NoIdp)

IdpStart ==
    /\ idp.at = "idle"
    /\ idp' = [NoIdp EXCEPT !.at = "orgs"] /\ synced' = FALSE
    /\ UNCHANGED coder

(* GET /organizations.  The display names of those that exist are PATCHed, *)
(* which nothing else depends on.                                          *)
ListOrgs ==
    /\ idp.at = "orgs"
    /\ \/ IdpGoes([idp EXCEPT !.at = "mkOrgs", !.todo = Orgs \ orgs])
       \/ "empty" \in CoderRefused /\ IdpGoes([idp EXCEPT !.at = "mkOrgs", !.todo = Orgs])
       \/ "read" \in CoderRefused /\ IdpDies
    /\ UNCHANGED coder

CreateOrg ==
    /\ idp.at = "mkOrgs"
    /\ \/ /\ idp.todo = {} /\ IdpGoes([idp EXCEPT !.at = "teams", !.todo = Orgs])
          /\ UNCHANGED coder
       \/ \E o \in idp.todo :
             \/ /\ o \notin orgs /\ orgs' = orgs \cup {o}
                /\ IdpGoes([idp EXCEPT !.todo = @ \ {o}])
                /\ UNCHANGED <<teams, sync>>
             \/ /\ o \in orgs \/ "create" \in CoderRefused
                /\ IdpDies
                /\ UNCHANGED coder

(* The groups of one organization: GET, and a POST for each missing one.   *)
ListTeams ==
    /\ idp.at = "teams"
    /\ \/ idp.todo = {} /\ IdpGoes([idp EXCEPT !.at = "org", !.sub = OrgSetting])
       \/ \E o \in idp.todo :
             LET wanted == {t \in Teams : t[1] = o}
                 missing(found) == [idp EXCEPT !.at = "mkTeams", !.todo = @ \ {o},
                                               !.sub = wanted \ found]
             IN  \/ o \in orgs /\ IdpGoes(missing(teams))
                 \/ o \in orgs /\ "empty" \in CoderRefused /\ IdpGoes(missing({}))
                 \/ (o \notin orgs \/ "read" \in CoderRefused) /\ IdpDies
    /\ UNCHANGED coder

CreateTeam ==
    /\ idp.at = "mkTeams"
    /\ \/ /\ idp.sub = {} /\ IdpGoes([idp EXCEPT !.at = "teams"])
          /\ UNCHANGED coder
       \/ \E t \in idp.sub :
             \/ /\ t \notin teams /\ teams' = teams \cup {t}
                /\ IdpGoes([idp EXCEPT !.sub = @ \ {t}])
                /\ UNCHANGED <<orgs, sync>>
             \/ /\ t \in teams \/ "create" \in CoderRefused
                /\ IdpDies
                /\ UNCHANGED coder

(* The PATCHes: organization sync, then groups, then roles.                *)
PatchSetting(step, next, left) ==
    /\ idp.at = step
    /\ \/ /\ idp.sub = {}
          /\ IdpGoes([idp EXCEPT !.at = next, !.sub = left])
          /\ UNCHANGED coder
       \/ \E s \in idp.sub :
             \/ /\ sync' = sync \cup {s} /\ UNCHANGED <<orgs, teams>>
                /\ IdpGoes([idp EXCEPT !.sub = @ \ {s}])
             \/ /\ "patch" \in CoderRefused
                /\ IdpGoes([idp EXCEPT !.sub = @ \ {s}, !.applied = FALSE])
                /\ UNCHANGED coder

SyncOrgs == PatchSetting("org", "groups", GroupSettings)
SyncGroups == PatchSetting("groups", "roles", RoleSettings)

(* The last of them, and exit 0.                                           *)
SyncRoles ==
    /\ idp.at = "roles"
    /\ \/ /\ idp.sub # {} /\ PatchSetting("roles", "roles", {})
       \/ /\ idp.sub = {} /\ idp' = NoIdp /\ synced' = idp.applied
          /\ UNCHANGED coder

IdpCrash == idp.at # "idle" /\ IdpDies /\ UNCHANGED coder

IdpStep ==
    \/ ListOrgs \/ CreateOrg \/ ListTeams \/ CreateTeam
    \/ SyncOrgs \/ SyncGroups \/ SyncRoles

IdpNext == IdpStart \/ IdpStep \/ IdpCrash

(* An Owner changes a setting in Coder.                                    *)
SettingChanged ==
    /\ \E s \in sync : sync' = sync \ {s}
    /\ synced' = FALSE
    /\ idp' = [idp EXCEPT !.applied = (idp.at = "idle")]
    /\ UNCHANGED <<orgs, teams>>
=============================================================================
