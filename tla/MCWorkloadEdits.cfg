SPECIFICATION Spec
CONSTANTS
    Objects = {web}
    Users = {alice, bob}
    web = web

    alice = alice
    bob = bob
    Values = {Blank, given}
    Blank = Blank
    given = given
    Editors = {alice}
    OthersFields = {"spec"}
    TextFields = {"labels"}
    MaxRevision = 2
    Absent = Absent
    Keep = Keep
    Gone = Gone
    NoWish = NoWish
    NoReply = NoReply
    NoEditor = NoEditor

INVARIANT
    TypeOK
PROPERTIES
    NoBlindOverwrite
    ConflictsAreReal
    ImplementsAtomicEdits
CHECK_DEADLOCK FALSE
