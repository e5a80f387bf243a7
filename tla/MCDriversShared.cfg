SPECIFICATION DriversSpec
CONSTANTS
    Buses = {b1, b2}
    USBH_MAX_DEVICES = 1
    num_channels = 1
    NoPacket = NoPacket
    Halting = Halting
    USBH_HID_MAX_DEVICES = 2
    USBH_AC_MIDI_MAX_DEVICES = 0
    USBH_GP_XBOX_MAX_DEVICES = 0
    Null = Null
INVARIANTS
    PrivateData
