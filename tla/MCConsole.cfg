\* Every handshake; sessions with a clipboard, a change of size, keys or a pointer,
\* with a mouse and a finger, and with keys and two fingers.
CONSTANTS
    Servers <- MCServers
    Simple <- OldScript
    Uses <- MCUses
    None = None
    SendSize = 3
    Lengths = {1, 3}
    GuestCaps <- MCGuestCaps
    MaxCopies = 2
    MaxPastes = 2
    Sizes = {s1, s2, s3}
    MaxChanges = 3
    NoSym = NoSym
    Keyboards <- MCKeyboards
    MaxHeld = 2
    MaxLamps = 2
    Positions = {p1, p2}
    Fingers = {f1, f2, f3}
SPECIFICATION FairSpec
CHECK_DEADLOCK FALSE
INVARIANTS
    TypeOK
    HandshakeInStep
    PageFollows
    PasteDelivered
    SizeSettles
    KeysAgree
    PointerAgrees
PROPERTIES
    Decides
