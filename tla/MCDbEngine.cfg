SPECIFICATION Spec
CONSTANTS
    Dirs = {d1}
    Bases = {b1, b2}
    NoBase = NoBase
    Kinds = {"table"}
    Rpcs = {r1, r2}
    Populators = {p1}
    Expiry = Expiry
    Nobody = Nobody
    TableSize = 1
    MaxSearches = 1
INVARIANTS
    BasesSound
PROPERTIES
    UseSpec
    SearchesDrain
    Served
    IdleClosed
