SPECIFICATION Spec
CONSTANTS
    Tops = {"/alpha"}
    Kids <- MCKids
    Users = {"austen"}
    MemberOf <- MCMemberOf
    Actions = {"CONFIGURE_TOTP", "webauthn"}
    Required <- MCRequired
    KcRefused = {"read", "write"}
    MaxHands = 1
    Orgs = {"coder", "alpha"}
    DefaultOrg = "coder"
    OrgGroups <- MCOrgGroups
    CoderRefused = {"read", "create", "patch"}
    OrgOf <- MCOrgOf
    Overlap = FALSE
    TeamOf <- MCTeamOf
    RoleOf <- MCRoleOf
PROPERTIES NeverReenrolls
