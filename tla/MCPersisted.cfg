SPECIFICATION Spec
CONSTANTS
    default = default
    prod = prod
    k1 = k1
    k2 = k2
    Names = {default, prod}
    Configs = {k1, k2}
    Contexts <- SmallContexts
    InPod = {TRUE, FALSE}
    Initial = "absent"
    Mappings <- NoMapping
    Files = {1, 2}
    FileFor <- SmallFileFor
    UploadFiles = {1, NoFile}
    Unsyncable = {}
    Conns = {c1, c2, c3}
    Reqs = {r1, r2}
    MaxRestarts = 1
    Default = default
    NoFile = NoFile
    NoConn = NoConn
    NoClient = NoClient
    Main = Main
    Nobody = Nobody
SYMMETRY Symmetry
PROPERTIES
    UploadsStayPersisted
CHECK_DEADLOCK FALSE
