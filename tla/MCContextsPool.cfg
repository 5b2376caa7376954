SPECIFICATION Spec
CONSTANTS
    Ctx = {c1, c2}
    Listeners = {l1}
    Workers = {w1, w2}
    Notifiers = {n1}
    Epoll = Epoll
    Waker = Waker
    NoCtx = NoCtx
    AddMayFail = TRUE
SYMMETRY Symmetry
INVARIANTS
    TypeOK
    OnePlace
    TypeTellsList
    FreeIsClean
    NoLostEvent
    SleepersKnown
