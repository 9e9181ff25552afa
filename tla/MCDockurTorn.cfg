\* A machine is created and listed, and krytond is killed in the middle of a save.
CONSTANTS
    Names = {n1}
    Ids = {a}
    Ports = {1, 2}
    Nobody = Nobody
    Torn = Torn
    MaxFaults = 1
SPECIFICATION Spec
PROPERTY Mirrored
