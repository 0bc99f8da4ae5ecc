SPECIFICATION FairSpec
CONSTANTS
    Kinds = {"nodes", "pods"}
    Contents <- MCContents
    Requests = {r1}
    Args <- MCArgs
    MaxChanges = 1
    Nobody = Nobody
    NoReply = NoReply
INVARIANTS
    TypeOK
    QuietCachesAreCurrent
PROPERTIES
    ImplementsSnapshotReads
    CachesConverge
    RequestsAnswered
CHECK_DEADLOCK FALSE
