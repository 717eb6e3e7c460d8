SPECIFICATION Spec
SYMMETRY Symmetry
CONSTANTS
    Users = {ana, bob}
    Superusers = {ana}
    Ghosts = {eve}
    Roles = {admin, fidele}
    Admin = admin
    BadNames = {other}
    Requests = {r1, r2}
    Gone = Gone
    NoRole = NoRole
INVARIANTS RolesOK
PROPERTIES StaysDeleted
