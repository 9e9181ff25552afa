SPECIFICATION Spec
CONSTANTS
    Publishers = {p1, p2}
    Clients = {}
    Sees <- OneHidden
    MaxHistory = 2
    Cap = 1
    Urls = {}
    Off = off
    MaxEvents = 2
    MaxFaults = 0
    MaxRestarts = 0
INVARIANTS
    NewestFirst
