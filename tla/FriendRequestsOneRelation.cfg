SPECIFICATION Spec
CONSTANTS
    Users = {ana, bob}
    Ghosts = {ghost}
    Requests = {r1, r2}
    FriendshipIds = {f1, f2}
    NoRow = NoRow
    NoId = NoId
INVARIANTS OneRelationPerPair
