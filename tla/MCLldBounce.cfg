SPECIFICATION FairSpec
CONSTANTS
    lld = lld
    USBH_MAX_DEVICES = 1
    num_channels = 1
    NoPacket = NoPacket
    Halting = Halting
    Packets <- NoPackets
    datalen = 2
    ResubmitAfterError = FALSE
    Bounces = TRUE
PROPERTIES
    SteadyIsConnected
