SPECIFICATION Spec
CONSTANTS
    default = default
    prod = prod
    k1 = k1
    k2 = k2
    Names = {default, prod}
    Configs = {k1, k2}
    Contexts <- SameContexts
    InPod = {TRUE}
    Initial = "absent"
    Mappings <- CustomName
    Files = {1, 2}
    FileFor <- SmallFileFor
    UploadFiles = {NoFile}
    Unsyncable = {}
    Conns = {c1, c2, c3}
    Reqs = {r1}
    MaxRestarts = 1
    Default = default
    NoFile = NoFile
    NoConn = NoConn
    NoClient = NoClient
    Main = Main
    Nobody = Nobody
SYMMETRY Symmetry
PROPERTIES
    StoredClustersReturn
CHECK_DEADLOCK FALSE
