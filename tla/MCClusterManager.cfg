SPECIFICATION Spec
CONSTANTS
    default = default
    prod = prod
    k1 = k1
    k2 = k2
    Names = {default, prod}
    Configs = {k1, k2}
    Contexts <- SameContexts
    InPod = {TRUE, FALSE}
    Initial = k1
    Mappings <- CustomName
    Files = {1, 2}
    FileFor <- SmallFileFor
    UploadFiles = {1, NoFile}
    Unsyncable = {}
    Conns = {c1, c2, c3, c4}
    Reqs = {r1, r2}
    MaxRestarts = 1
    Default = default
    NoFile = NoFile
    NoConn = NoConn
    NoClient = NoClient
    Main = Main
    Nobody = Nobody
SYMMETRY Symmetry
INVARIANTS
    TypeOK
    ServedClientsRun
    NameIsKey
    OnlyInClusterLeaks
PROPERTIES
    NoSilentReplacement
    ReportsAreTrue
    ImplementsRegistry
    RestartRestoresStored
CHECK_DEADLOCK FALSE
