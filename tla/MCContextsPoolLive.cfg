SPECIFICATION FairSpec
CONSTANTS
    Ctx = {c1, c2}
    Listeners = {l1}
    Workers = {w1}
    Notifiers = {}
    Epoll = Epoll
    Waker = Waker
    NoCtx = NoCtx
    AddMayFail = FALSE
PROPERTIES
    LifeSpec
    WaitingServed
