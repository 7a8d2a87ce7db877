SPECIFICATION Spec
CONSTANTS
    r1 = r1
    r2 = r2
    Fields <- MCFields
    Runs = {r1, r2}
    Faults = {"coder", "copy", "script", "destroy", "seed", "protect", "asm", "rm", "die"}
    Hands = {"removeRunner"}
    MaxToken = 2
    MaxRunner = 2
SYMMETRY Overlapping
INVARIANTS TypeOK CleanRunReady
