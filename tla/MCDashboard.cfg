\* Two calls in flight, of a page that shows one event and a server with two projects.
CONSTANTS
    Projects = {p, q}
    None = None
    Failed = Failed
    Slots = 2
    Keep = 1
    MaxUpsets = 3
SPECIFICATION FairSpec
CHECK_DEADLOCK FALSE
PROPERTY PageCatchesUp
