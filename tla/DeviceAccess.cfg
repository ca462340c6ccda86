SPECIFICATION Spec
CONSTANTS
    Attempts = {a1, a2}
    Invitations = {i1}
    None = None
    MaxOwn = 2
    MaxLost = 1
INVARIANT
    CancelledIsOut
PROPERTIES
    JoinIsApproved
    ApprovedConnects
