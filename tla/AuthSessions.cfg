SPECIFICATION Spec
CONSTANTS
    User = {1, 2}
    Login = {l1}
    Change = {c1, c2}
    Request = {r1}
    None = None
    MaxFaults = 1
INVARIANTS
    LastAdmin
    NoStaleSession
    RevokedStaysRevoked
PROPERTY
    ChangesEnd
