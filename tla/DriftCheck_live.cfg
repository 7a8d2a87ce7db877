SPECIFICATION Spec
CONSTANTS
    Secrets = {"coder-ai", "coder-db"}
    Fields = {"key"}
    Hands = {"rotate", "edit"}
    MaxVersion = 3
    Starts <- MCStarts
    Unreadable = {"k8s", "asm", "live"}
    Placeholder = {1}
    Misshapen = {1}
    AiSecret = "coder-ai"
    AiKey = "key"
    Lifetimes <- MCLifetimes
    Expected = "8760h"
    MaxEdits = 1
INVARIANTS TypeOK CleanCheckVouches
PROPERTIES DriftVerdictTrue LifetimeVerdictTrue
