SPECIFICATION Spec
CONSTANTS
    Publishers = {p1, p2}
    Clients = {}
    Sees <- OneHidden
    MaxHistory = 2
    Cap = 1
    Urls = {u1, u2}
    Off = off
    MaxEvents = 2
    MaxFaults = 0
    MaxRestarts = 0
INVARIANTS
    PostsGoWhereConfigured
