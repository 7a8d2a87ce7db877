SPECIFICATION FairSpec
CONSTANTS
    r1 = r1
    r2 = r2
    Fields <- MCFields
    Runs = {r1, r2}
    Faults = {"coder", "script", "die"}
    Hands = {"commit", "removeRunner"}
    MaxToken = 2
    MaxRunner = 2
INVARIANTS CleanRunSeeds CleanRunLeavesNothing
PROPERTIES RunnerReachesSecret RunsEnd
