SPECIFICATION Spec
CONSTANTS
    Clients = {c1, c2, c3}
    Members = {mia}
    Posts = {p1}
    Conversations = {room}
    MaxMessages = 1
    NoUser = NoUser
SYMMETRY Symmetry
INVARIANTS TablesOK LiveStaysListed ConfirmedIsDelivered
PROPERTIES ReachesAllUnlessGrown
CHECK_DEADLOCK FALSE
