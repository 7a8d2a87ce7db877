SPECIFICATION Spec
CONSTANTS
    r1 = r1
    r2 = r2
    Fields <- MCFields
    Runs = {r1, r2}
    HasKey = TRUE
    Faults = {"kcRead", "kcWrite", "asmRead", "asmWrite"}
    Console = {"rotate", "edit"}
    MaxSecret = 2
    MaxKey = 2
SYMMETRY Overlapping
INVARIANTS  PairsStayWhole CleanRunConfigures
PROPERTIES KeyPreserved NeverRotates
