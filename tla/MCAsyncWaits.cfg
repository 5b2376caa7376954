CONSTANTS
    Waits = {w1, w2}
    Tags = {t1}
    Ctxs = {c1}
    Calls = {a1}
    Wakers = {k1}
    Scan = scan
    MaxTags = 2
    MaxCalls = 1
    None = None
SPECIFICATION FairSpec
INVARIANTS WaitsSound AtMostOneAnswer
PROPERTY WaitIsOver
