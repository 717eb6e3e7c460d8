SPECIFICATION Spec
CONSTANTS
    Users = {ana, bob}
    Ghosts = {ghost}
    Requests = {r1, r2}
    MessageIds = {m1, m2}
    MaxTime = 2
    NoRow = NoRow
    NoId = NoId
INVARIANTS ReadWasReturned
