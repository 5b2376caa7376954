SPECIFICATION FairSpec
CONSTANTS
    imapd = imapd midb = midb p1 = p1 p2 = p2 s1 = s1 s2 = s2
    Hosts = {imapd, midb}
    Proxies = {p1, p2}
    Stubs = {s1, s2}
    Owner <- MCOwner
    Folders = {inbox}
    Events = {e1}
    EnqThreads = 4
    DeqThreads = 1
    FifoMax = 1
    Generations <- MCGenerations
    MaxFaults = 1
INVARIANTS NodesSound EventOnce
PROPERTY SelectionRestored
