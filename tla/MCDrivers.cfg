SPECIFICATION DriversFairSpec
CONSTANTS
    Buses = {b1}
    USBH_MAX_DEVICES = 1
    num_channels = 3
    NoPacket = NoPacket
    Halting = Halting
    USBH_HID_MAX_DEVICES = 2
    USBH_AC_MIDI_MAX_DEVICES = 1
    USBH_GP_XBOX_MAX_DEVICES = 1
    Null = Null
INVARIANTS
    DriversTypeOK
    WaitsForItsRead
    ReportUnderWay
    WriteCallsBack
    ActiveDataBound
    KnownWhileBound
PROPERTIES
    ImplementsCore
    KeepsReading
