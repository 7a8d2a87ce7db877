------------------------------ MODULE SsoAccess ------------------------------
(***************************************************************************)
(* Both halves of single sign-on together: the Keycloak hierarchy, Coder's *)
(* IdP sync, and the users who sign in to Coder while either script runs.  *)
(*                                                                         *)
(* Signing in is Keycloak's and Coder's work, modelled from what the two   *)
(* scripts configure: pending required actions come first, the groups      *)
(* claim carries full paths if the mapper is there, and Coder derives the  *)
(* user's organizations, groups and roles from it at that moment.          *)
(***************************************************************************)
EXTENDS KeycloakHierarchy, IdpSync

CONSTANT Overlap    \* whether the two scripts, which share no state, may run at
                    \* once (bound)

Image(map, paths) == {map[p] : p \in paths \cap DOMAIN map}

(* A user with a Coder group or role is in the group of its organization.  *)
ASSUME AccessAssumption ==
    /\ DOMAIN OrgOf \cup DOMAIN TeamOf \cup DOMAIN RoleOf \subseteq Paths
    /\ \A u \in Users :
          \A x \in Image(TeamOf, MemberOf[u]) \cup Image(RoleOf, MemberOf[u]) :
             x[1] \in Image(OrgOf, MemberOf[u])
    /\ Overlap \in BOOLEAN

VARIABLES
    account,    \* the Coder account of each user: organizations, groups, roles
    current     \* history: users who have signed in since both scripts last
                \* exited 0, all writes carried out, nothing removed or
                \* changed since, while in no group by hand alone

vars == <<hierVars, idpVars, account, current>>

NoAccount == [orgs |-> {}, teams |-> {}, roles |-> {}]

Roles == {RoleOf[p] : p \in DOMAIN RoleOf}
Account == [orgs : SUBSET Orgs, teams : SUBSET Teams, roles : SUBSET Roles]

(* Mutation: the paths of the claim are taken for organizations.           *)
SignedInUnmapped(old, claim) ==
    [old EXCEPT !.orgs = IF sync = {} THEN @ ELSE claim]

(* Coder keeps what a setting that is not there would have derived.        *)
SignedIn(old, claim) ==
    LET os == IF <<"org">> \in sync THEN Image(OrgOf, claim) \cap orgs ELSE old.orgs
        derived(kind, map, before) ==
            {x \in Image(map, claim) : x[1] \in os /\ <<kind, x[1]>> \in sync}
            \cup {x \in before : x[1] \in os /\ <<kind, x[1]>> \notin sync}
    IN  [orgs |-> os, teams |-> derived("groups", TeamOf, old.teams) \cap teams,
         roles |-> derived("roles", RoleOf, old.roles)]

SignIn ==
    /\ \E u \in Users :
          /\ user[u].pw /\ user[u].actions = {}
          /\ account' = [account EXCEPT ![u] =
                            SignedIn(@, IF mapper THEN user[u].members ELSE {})]
          /\ current' = IF tidy /\ synced /\ added[u] = {} THEN current \cup {u} ELSE current \ {u}
    /\ UNCHANGED <<hierVars, idpVars>>

-----------------------------------------------------------------------------
Init ==
    /\ HierInit /\ IdpInit
    /\ account = [u \in Users |-> NoAccount] /\ current = {}

MayStart(other) == Overlap \/ other.at = "idle"

Next ==
    \/ /\ (HierStart /\ MayStart(idp)) \/ HierStep \/ HierCrash \/ PeopleNext
       /\ UNCHANGED <<idpVars, account, current>>
    \/ /\ (IdpStart /\ MayStart(hier)) \/ IdpStep \/ IdpCrash \/ SettingChanged
       /\ UNCHANGED <<hierVars, account, current>>
    \/ SignIn

Spec == Init /\ [][Next]_vars

-----------------------------------------------------------------------------
(* Properties.                                                             *)

(* The type invariant.                                                     *)
TypeOK ==
    /\ groups \subseteq Paths /\ mapper \in BOOLEAN
    /\ user \in [Users -> User]
    /\ hands \in Nat /\ added \in [Users -> SUBSET Paths] /\ hier \in Hier /\ tidy \in BOOLEAN
    /\ orgs \subseteq Orgs /\ teams \subseteq Teams /\ sync \subseteq Settings
    /\ idp \in Idp /\ synced \in BOOLEAN
    /\ account \in [Users -> Account] /\ current \subseteq Users

Declared(u) == [orgs |-> Image(OrgOf, MemberOf[u]), teams |-> Image(TeamOf, MemberOf[u]),
                roles |-> Image(RoleOf, MemberOf[u])]

(* "Both read from the same hierarchy": whoever signs in once both scripts *)
(* have exited 0, with their writes carried out and nothing removed or     *)
(* changed by hand since, has exactly the declared organizations, groups   *)
(* and roles, whatever dead or refused runs and sign-ins half way left     *)
(* behind.  Who is in a group by hand alone at that sign-in is left out:   *)
(* no run takes that membership away.                                      *)
AccessAsDeclared == \A u \in current : account[u] = Declared(u)

(* "Keycloak forces passkey + TOTP enrollment": after a run that exits 0   *)
(* with its writes carried out every required action is pending or its     *)
(* credential there, until somebody removes one -- also for a user who     *)
(* enrols between the reads and the write.                                 *)
EnrollmentForced ==
    tidy => \A u \in Users : Required[u] \subseteq user[u].actions \cup user[u].creds

(* "a reconcile never forces re-enrollment": no step of a run makes an     *)
(* action pending whose credential the user has.                           *)
NeverReenrolls ==
    [][HierNext => \A u \in Users :
          (user'[u].actions \ user[u].actions) \cap user[u].creds = {}]_vars

(* A run asks a user to enrol again only for what the user has enrolled in *)
(* between its read of the credentials and its write of the user, or when  *)
(* that read was answered with an empty error.                             *)
ReenrollsOnlyUnseen ==
    [][HierNext => \A u \in Users :
          (user'[u].actions \ user[u].actions) \cap user[u].creds
             \subseteq IF hier.cur = u THEN hier.unseen ELSE {}]_vars
=============================================================================
