SPECIFICATION Spec
CONSTANTS
    Tops = {"/alpha"}
    Kids <- MCKids
    Users = {"austen"}
    MemberOf <- MCMemberOf
    Actions = {"CONFIGURE_TOTP", "webauthn"}
    Required <- MCRequired
    KcRefused = {"read", "write", "empty"}
    MaxHands = 2
    Orgs = {"coder", "alpha"}
    DefaultOrg = "coder"
    OrgGroups <- MCOrgGroups
    CoderRefused = {"read", "create", "patch", "empty"}
    OrgOf <- MCOrgOf
    Overlap = FALSE
    TeamOf <- MCTeamOf
    RoleOf <- MCRoleOf
INVARIANTS TypeOK AccessAsDeclared EnrollmentForced
PROPERTIES ReenrollsOnlyUnseen
