SPECIFICATION Spec
CONSTANTS
    Publishers = {p1, p2}
    Clients = {c1}
    Sees <- OneHidden
    MaxHistory = 2
    Cap = 2
    Urls = {}
    Off = off
    MaxEvents = 4
    MaxFaults = 1
    MaxRestarts = 1
SYMMETRY Symmetry
INVARIANTS
    TypeOK
    NoRepeats
    StreamsFollowHistory
    LossesAccountedFor
PROPERTIES
    ImplementsEventLog
