\* Two handlers, three machines, the reconciler: safety.
CONSTANTS
    Projects = {p1, p2}
    Names = {n1}
    Ids = {a, b, c}
    SnapIds = {s1}
    TTLs = {0, 1}
    Requests = {r1, r2}
    Sweeper = ttl
    None = None
    MaxTime = 2
    MaxEvents = 3
SPECIFICATION Spec
SYMMETRY Symmetry
INVARIANT TypeOK
INVARIANT DistinctIdentities
INVARIANT OneObituary
INVARIANT NoSilentDeath
INVARIANT SnapshotsHaveOwners
INVARIANT NeverExpiredEarly
INVARIANT SweepMissesNothing
INVARIANT PowerEventsAgree
PROPERTY ImplementsLifecycle
