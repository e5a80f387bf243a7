SPECIFICATION HubSpec
CONSTANTS
    Buses = {b1, b2}
    USBH_MAX_DEVICES = 2
    num_channels = 1
    NoPacket = NoPacket
    Halting = Halting
    ports_num = 1
    Speeds = {"full"}
    Faults = {}
INVARIANTS
    AddressIsOwnSlot
