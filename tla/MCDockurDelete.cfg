\* A machine is created and deleted, and compose down fails.
CONSTANTS
    Names = {n1}
    Ids = {a}
    Ports = {1, 2}
    Nobody = Nobody
    Torn = Torn
    MaxFaults = 1
SPECIFICATION Spec
INVARIANT BackingRemoved
