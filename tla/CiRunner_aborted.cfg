SPECIFICATION Spec
CONSTANTS
    r1 = r1
    r2 = r2
    Fields <- MCFields
    Runs = {r1}
    Faults = {"copy"}
    Hands = {}
    MaxToken = 3
    MaxRunner = 1
INVARIANT VariableAlive
