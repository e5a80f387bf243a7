SPECIFICATION HubSpec
CONSTANTS
    Buses = {b1}
    USBH_MAX_DEVICES = 3
    num_channels = 1
    NoPacket = NoPacket
    Halting = Halting
    ports_num = 2
    Speeds = {"full"}
    Faults = {}
INVARIANTS
    NoSharedSlot
