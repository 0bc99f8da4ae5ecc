SPECIFICATION FairSpec
CONSTANTS
    Names = {prod}
    Conns = {c1, c2}
    NoConn = NoConn
    NoBroker = NoBroker
    Keys = {p, q}
    Rows = {Gone, ready}
    Gone = Gone
    Watchers = {w1, w2}
    Reading = {w1}
    Buffer = 1
    MaxNotices = 2
    MaxChanges = 2
INVARIANTS
    TypeOK
    FedStreamsFollow
    OnlyDeadBrokersAreSilent
PROPERTIES
    ReadersCatchUp
CHECK_DEADLOCK FALSE
