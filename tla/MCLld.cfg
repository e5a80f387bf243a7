SPECIFICATION FairSpec
CONSTANTS
    lld = lld
    USBH_MAX_DEVICES = 1
    num_channels = 2
    NoPacket = NoPacket
    Halting = Halting
    Packets <- WriteAndRead
    datalen = 2
    ResubmitAfterError = FALSE
    Bounces = FALSE
INVARIANTS
    LldTypeOK
PROPERTIES
    ImplementsBus
    ReportsAreTrue
    ChannelComesBack
    SteadyIsConnected
