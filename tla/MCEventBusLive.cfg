SPECIFICATION FairSpec
CONSTANTS
    Publishers = {p1, p2}
    Clients = {c1}
    Sees <- OneHidden
    MaxHistory = 2
    Cap = 1
    Urls = {u1}
    Off = off
    MaxEvents = 2
    MaxFaults = 1
    MaxRestarts = 1
PROPERTIES
    PublishReturns
