SPECIFICATION FairSpec
CONSTANTS
    Clusters = {"c1", "c2"}
    LiveViews = {"pods", "deployments"}
    Page = "overview"
    Count = 2
    Worlds <- MCWorlds
    NamespaceOf <- MCNamespaceOf
    Namespaces = {"", "a"}
    Rows = {"x", "-"}
    Gone = "-"
    Fetches = {1}
    NoStream = NoStream
    NoFetch = NoFetch
    NoAnswer = NoAnswer
    MaxActs = 3
    MaxFaults = 1
INVARIANTS TypeOK ShowsWhatItHolds
PROPERTY ResyncTakesOver TableConverges
CHECK_DEADLOCK FALSE
