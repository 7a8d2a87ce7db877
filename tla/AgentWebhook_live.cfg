SPECIFICATION FairSpec
CONSTANTS
    Runs = {"r1", "r2"}
    Workers = {"w1"}
    Issues = {"7"}
    Assignees = {"dana", "pat"}
    LabelLists <- MCLabelLists
    Templates = {"claude-code", "jupyter"}
    Declares = {"jupyter"}
    DEFAULT_TEMPLATE = "claude-code"
    Refused = {"asmRead", "hookRead", "hookWrite", "coderRead", "coderWrite"}
    MaxHooks = 3
    MaxHands = 1
    MaxEdits = 1
    Overlap = FALSE
INVARIANTS TypeOK HooksPerRun RegisteredIsCurrent
PROPERTIES SpawnedForAssignee EventServed
