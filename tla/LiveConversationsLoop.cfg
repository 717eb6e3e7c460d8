SPECIFICATION FairSpec
CONSTANTS
    Clients = {c1, c2}
    Members = {}
    Posts = {}
    Conversations = {room}
    MaxMessages = 1
    NoUser = NoUser
PROPERTIES LoopEnds
CHECK_DEADLOCK FALSE
