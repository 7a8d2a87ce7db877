----------------------------- MODULE MCSsoAccess -----------------------------
(***************************************************************************)
(* Instances of SsoAccess for TLC: one tenant, a super admin with two      *)
(* required actions, one group that gives a Coder group and a role, and    *)
(* one the user is not declared to be in.                                  *)
(***************************************************************************)
EXTENDS SsoAccess, TLC

MCKids == "/alpha" :> {"/alpha/org-admins", "/alpha/auditors"}
MCMemberOf == "austen" :> {"/alpha", "/alpha/org-admins"}
MCRequired == "austen" :> Actions
MCOrgGroups == "coder" :> {} @@ "alpha" :> {"developers"}
MCOrgOf == "/alpha" :> "alpha"
MCTeamOf == "/alpha/org-admins" :> <<"alpha", "developers">>
MCRoleOf ==
    "/alpha/org-admins" :> <<"alpha", "organization-admin">>
    @@ "/alpha/auditors" :> <<"alpha", "organization-auditor">>
=============================================================================
