SPECIFICATION Spec
SYMMETRY Symmetry
CONSTANTS
    Users = {ana, bob}
    Conversations = {v1, v2}
    MaxMessages = 2
    MaxPosted = 1
    MaxParticipants = 2
INVARIANTS TablesOK DirectOK AdminStays ReadClears
PROPERTIES ReceiptsForward ComesBackByOwn AllOrNothing
CHECK_DEADLOCK FALSE
