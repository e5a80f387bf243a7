SPECIFICATION HubFairSpec
CONSTANTS
    Buses = {b1}
    USBH_MAX_DEVICES = 2
    num_channels = 1
    NoPacket = NoPacket
    Halting = Halting
    ports_num = 2
    Speeds = {"full"}
    Faults = {}
PROPERTIES
    LockReleased
    EnumerationEnds
INVARIANTS
    LockHeld
    DefaultAddressLocked
    AddressIsOwnSlot
    StartFindsLockFree
