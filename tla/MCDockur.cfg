\* Three machines, two of them at a time, and two things that go wrong.
CONSTANTS
    Names = {n1, n2}
    Ids = {a, b, c}
    Ports = {1, 2, 3}
    Nobody = Nobody
    Torn = Torn
    MaxFaults = 2
SPECIFICATION FairSpec
INVARIANT TypeOK
INVARIANT DistinctMachines
INVARIANT DeletedForGood
INVARIANT WorldAgrees
PROPERTY KillCostsOneCall
PROPERTY SavedInTheEnd
