SPECIFICATION Spec
CONSTANTS
    Buses = {b1, b2}
    USBH_MAX_DEVICES = 1
    num_channels = 2
    NoPacket = NoPacket
    Halting = Halting
SYMMETRY BusSymmetry
INVARIANTS
    TypeOK
    Ep0Exclusive
    ControlPipeBacked
    EnumerationBacked
    DriverOnlyWhenSettled
    CallbackHasDriver
    LockNotLeaked
PROPERTIES
    ImplementsPort
