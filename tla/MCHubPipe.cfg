SPECIFICATION HubSpec
CONSTANTS
    Buses = {b1}
    USBH_MAX_DEVICES = 2
    num_channels = 2
    NoPacket = NoPacket
    Halting = Halting
    ports_num = 1
    Speeds = {"full"}
    Faults = {}
INVARIANTS
    ChildPipeBacked
