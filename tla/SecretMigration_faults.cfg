SPECIFICATION FairSpec
CONSTANTS
    Secrets = {"coder-ai", "coder-db"}
    Fields = {"key", "url"}
    Hands = {"rotate", "edit"}
    MaxVersion = 3
    Starts <- MCStarts
    Refused = {"k8sRead", "asmRead", "asmWrite"}
INVARIANTS TypeOK CleanMigrationCopies
PROPERTIES SyncedRunIsNoOp MigrationArrives WritesLikeAScript
