SPECIFICATION Spec
SYMMETRY Symmetry
CONSTANTS
    Users = {ana, bob}
    Conversations = {v1, v2}
    MaxMessages = 2
    MaxPosted = 1
    MaxParticipants = 2
INVARIANTS SenderSeesRecipients
CHECK_DEADLOCK FALSE
