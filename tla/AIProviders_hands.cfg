SPECIFICATION Spec
CONSTANTS
    p1 = p1
    p2 = p2
    m1 = m1
    c1 = c1
    c2 = c2
    s1 = s1
    s2 = s2
    k1 = k1
    k2 = k2
    k3 = k3
    i1 = i1
    i2 = i2
    i3 = i3
    NoKey = NoKey
    Providers = {p1, p2}
    Models = {m1}
    Confs = {c1, c2}
    PresetFields = {"shown", "context_limit"}
    LimitField = "context_limit"
    Specs = {s1, s2}
    NotGiven = NotGiven
    Keys = {k1, k2, k3}
    Masks = {"m12", "m3"}
    Mask <- MCMask
    PresetIds = {i1, i2}
    Files <- MCFiles
    LiveInits <- MCLiveInits
    PresetInits <- MCPresetInits
    ListMayFail = TRUE
    MaxEdits = 1
INVARIANTS CleanExitConverges KeysRotated
PROPERTIES OnlyDeclaredProviders OnlyWantedPresets ProvidersIdempotent
