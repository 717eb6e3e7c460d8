SPECIFICATION Spec
SYMMETRY Symmetry
CONSTANTS
    Users = {ana, bob}
    Requests = {r1, r2}
    SermonIds = {s1}
    LikeIds = {l1, l2, l3}
    CommentIds = {c1}
    NoRow = NoRow
    Gone = Gone
    NoId = NoId
INVARIANTS TablesOK OneLikePerUser FailedLeavesNothing
PROPERTIES LoneToggle ReactionsRemovedRightly
