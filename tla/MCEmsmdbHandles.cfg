CONSTANTS
    Guids = {g1, g2}
    Users = {u1}
    Rpcs = {r1, r2}
    Events = {e1}
    Scan = scan
    MaxSessions = 0
    MaxUsers = 1
    MaxPerUser = 2
    MaxPending = 1
    MaxCxr = 2
    NoGuid = NoGuid
SYMMETRY Symm
SPECIFICATION Spec
INVARIANTS SessionsSound HeldIsLive Announced
