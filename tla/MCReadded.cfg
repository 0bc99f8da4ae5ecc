SPECIFICATION Spec
CONSTANTS
    Names = {prod}
    Conns = {c1, c2}
    NoConn = NoConn
    NoBroker = NoBroker
    Keys = {p, q}
    Rows = {Gone, ready}
    Gone = Gone
    Watchers = {w1, w2}
    Reading = {w1}
    Buffer = 1
    MaxNotices = 2
    MaxChanges = 3
SYMMETRY Symmetry
INVARIANTS
    EveryStreamFollows
CHECK_DEADLOCK FALSE
