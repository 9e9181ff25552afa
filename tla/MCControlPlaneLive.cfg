\* Two handlers, two machines, the reconciler: liveness, so no symmetry.
CONSTANTS
    Projects = {p1}
    Names = {n1, n2}
    Ids = {a, b}
    SnapIds = {}
    TTLs = {0, 1}
    Requests = {r1, r2}
    Sweeper = ttl
    None = None
    MaxTime = 2
    MaxEvents = 2
SPECIFICATION FairSpec
PROPERTY ExpiredIsAnnounced
PROPERTY ImplementsLifecycleFair
