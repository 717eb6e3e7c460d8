SPECIFICATION FairSpec
CONSTANTS
    Users = {ana, bob}
    Ghosts = {ghost}
    Requests = {r1, r2}
    MessageIds = {m1, m2}
    MaxTime = 1
    NoRow = NoRow
    NoId = NoId
INVARIANTS TypeOK ShownIsRead ThreadOrder
PROPERTIES OnlyReceiverReads OpenedGetsRead
