--------------------------- MODULE UsbhDriversProofs ---------------------------
(***************************************************************************)
(* The HID, MIDI and Xbox drivers implement the generic driver of UsbhCore,*)
(* for any number of buses, devices, channels and driver data, and work    *)
(* only for devices that are there.  With that, what UsbhCoreProofs shows  *)
(* of the core with the generic driver holds of the core with these.       *)
(***************************************************************************)
EXTENDS UsbhDrivers, UsbhCoreProofs

-----------------------------------------------------------------------------
(* Types.                                                                  *)

DataTypeOK ==
    /\ drvdata \in [Device -> Data \cup {Null}]
    /\ DOMAIN data = Data
    /\ \A x \in Data : data[x] \in DataOf(x)
    /\ notified \subseteq Midi \cup Xbox
    /\ overlapped \subseteq Midi

\* Driver data that are not free belong to a device that is bound to them.
Backed ==
    \A x \in Data : data[x].state # "INACTIVE" => \E b \in Buses : Present(x, b)

DInv == DataTypeOK /\ Backed

LEMMA DataKinds ==
    /\ \A x \in Hid : x \in Data /\ StatesOf(x) = HidState
    /\ \A x \in Midi : x \in Data /\ x \notin Hid /\ StatesOf(x) = MidiState
    /\ \A x \in Xbox : x \in Data /\ x \notin Hid /\ x \notin Midi /\ StatesOf(x) = XboxState
    /\ \A x \in Data : "INACTIVE" \in StatesOf(x)
BY DEF Hid, Midi, Xbox, Data, StatesOf, HidState, MidiState, XboxState

LEMMA FreshTyped ==
    ASSUME NEW x \in Data, NEW d \in Device \cup {Null}
    PROVE  /\ Fresh(d) \in DataOf(x)
           /\ Fresh(d).state = "INACTIVE"
           /\ Fresh(d).usbh_device = d
BY DataKinds DEF Fresh, DataOf

LEMMA AnalyzedTyped ==
    ASSUME NEW x \in Data, NEW d \in Device
    PROVE  /\ Analyzed(x, d) \in DataOf(x)
           /\ Analyzed(x, d).usbh_device = d
           /\ Analyzed(x, d).state # "INACTIVE" => drv'[d] = "READY"
<1>1. FirstState(x) \in StatesOf(x)
  BY DataKinds DEF FirstState, Data, HidState, MidiState, XboxState
<1> QED
  BY <1>1, FreshTyped DEF Analyzed, Fresh, DataOf

LEMMA DriversInitInv == DriversInit => DInv
<1> SUFFICES ASSUME DriversInit
             PROVE  DInv
  OBVIOUS
<1>1. \A x \in Data : data[x] = Fresh(Null)
  BY DEF DriversInit
<1> QED
  BY <1>1, FreshTyped DEF DriversInit, DInv, DataTypeOK, Backed

-----------------------------------------------------------------------------
(* Steps that keep every device bound to the data it has.                  *)

\* The data may change, but none wakes up and none changes its device.
DataKept ==
    /\ DOMAIN data' = Data
    /\ \A x \in Data : /\ data'[x] \in DataOf(x)
                       /\ data'[x].usbh_device = data[x].usbh_device
                       /\ data'[x].state # "INACTIVE" => data[x].state # "INACTIVE"

DriversKept ==
    /\ drvdata' = drvdata
    /\ \A b \in Buses : drv[Root(b)] = "READY" => drv'[Root(b)] = "READY"

LEMMA KeptBacked ==
    ASSUME Backed, DataKept, DriversKept
    PROVE  Backed'
BY DEF Backed, DataKept, DriversKept, Present

LEMMA SameDataKept ==
    ASSUME DataTypeOK, UNCHANGED data
    PROVE  DataKept
BY DEF DataTypeOK, DataKept

\* One data of a driver changes.
LEMMA OneDataChanges ==
    ASSUME DataTypeOK, NEW x \in Data, NEW new \in DataOf(x),
           data' = [data EXCEPT ![x] = new],
           new.usbh_device = data[x].usbh_device,
           new.state # "INACTIVE" => data[x].state # "INACTIVE"
    PROVE  DataKept
<1>1. data'[x] = new /\ \A y \in Data \ {x} : data'[y] = data[y]
  BY DEF DataTypeOK
<1> QED
  BY <1>1 DEF DataTypeOK, DataKept

LEMMA StateChanges ==
    ASSUME DataTypeOK, NEW x \in Data, NEW s \in StatesOf(x),
           data' = [data EXCEPT ![x].state = s],
           s # "INACTIVE" => data[x].state # "INACTIVE"
    PROVE  DataKept
<1> DEFINE new == [data[x] EXCEPT !.state = s]
<1>1. new \in DataOf(x) /\ new.state = s /\ new.usbh_device = data[x].usbh_device
  BY DEF DataTypeOK, DataOf
<1>2. data' = [data EXCEPT ![x] = new]
  OBVIOUS
<1> QED
  BY <1>1, <1>2, OneDataChanges

-----------------------------------------------------------------------------
(* The callbacks of the drivers.                                           *)

LEMMA HidEventKeeps ==
    ASSUME DataTypeOK, NEW x \in Hid, NEW r, HidEvent(x, r)
    PROVE  DataKept
<1>0. x \in Data /\ StatesOf(x) = HidState
  BY DataKinds
<1>1. CASE \E s \in HidState : /\ data[x].state # "INACTIVE"
                               /\ data' = [data EXCEPT ![x].state = s]
  BY <1>0, <1>1, StateChanges
<1>2. CASE /\ data[x].state = "GET_REPORT_DESCRIPTOR_READ_COMPLETE"
           /\ data' = [data EXCEPT ![x].state = "READING_REQUEST",
                                   ![x].report_state = "READY"]
  <2> DEFINE new == [data[x] EXCEPT !.state = "READING_REQUEST", !.report_state = "READY"]
  <2>1. new \in DataOf(x) /\ new.usbh_device = data[x].usbh_device
    BY <1>0 DEF DataTypeOK, DataOf, HidState
  <2>2. data' = [data EXCEPT ![x] = new]
    BY <1>0, <1>2 DEF DataTypeOK
  <2> QED
    BY <1>0, <1>2, <2>1, <2>2, OneDataChanges
<1>3. CASE UNCHANGED data
  BY <1>3, SameDataKept
<1> QED
  BY <1>1, <1>2, <1>3 DEF HidEvent, HidState

LEMMA MidiEventKeeps ==
    ASSUME DataTypeOK, NEW x \in Midi, NEW r, MidiEvent(x, r)
    PROVE  DataKept
<1>0. x \in Data /\ StatesOf(x) = MidiState
  BY DataKinds
<1>1. CASE \E s \in MidiState : /\ data[x].state # "INACTIVE"
                                /\ data' = [data EXCEPT ![x].state = s]
  BY <1>0, <1>1, StateChanges
<1>2. CASE UNCHANGED data
  BY <1>2, SameDataKept
<1> QED
  BY <1>1, <1>2 DEF MidiEvent, MidiState

LEMMA XboxEventKeeps ==
    ASSUME DataTypeOK, NEW x \in Xbox, NEW r, XboxEvent(x, r)
    PROVE  DataKept
<1>0. x \in Data /\ StatesOf(x) = XboxState
  BY DataKinds
<1>1. CASE \E s \in XboxState : /\ data[x].state # "INACTIVE"
                                /\ data' = [data EXCEPT ![x].state = s]
  BY <1>0, <1>1, StateChanges
<1>2. CASE UNCHANGED data
  BY <1>2, SameDataKept
<1> QED
  BY <1>1, <1>2 DEF XboxEvent, XboxState

\* write_callback, report_event, and the calls of the application.
LEMMA FlagChanges ==
    ASSUME DataTypeOK, NEW x \in Data,
           \/ \E v \in BOOLEAN : data' = [data EXCEPT ![x].sending = v]
           \/ \E v \in {"READY", "PENDING"} : data' = [data EXCEPT ![x].report_state = v]
    PROVE  DataKept
<1>1. CASE \E v \in BOOLEAN : data' = [data EXCEPT ![x].sending = v]
  <2>1. PICK v \in BOOLEAN : data' = [data EXCEPT ![x].sending = v]
    BY <1>1
  <2> DEFINE new == [data[x] EXCEPT !.sending = v]
  <2>2. /\ new \in DataOf(x) /\ new.usbh_device = data[x].usbh_device
        /\ new.state = data[x].state
    BY DEF DataTypeOK, DataOf
  <2>3. data' = [data EXCEPT ![x] = new]
    BY <2>1
  <2> QED
    BY <2>2, <2>3, OneDataChanges
<1>2. CASE \E v \in {"READY", "PENDING"} : data' = [data EXCEPT ![x].report_state = v]
  <2>1. PICK v \in {"READY", "PENDING"} : data' = [data EXCEPT ![x].report_state = v]
    BY <1>2
  <2> DEFINE new == [data[x] EXCEPT !.report_state = v]
  <2>2. /\ new \in DataOf(x) /\ new.usbh_device = data[x].usbh_device
        /\ new.state = data[x].state
    BY DEF DataTypeOK, DataOf
  <2>3. data' = [data EXCEPT ![x] = new]
    BY <2>1
  <2> QED
    BY <2>2, <2>3, OneDataChanges
<1> QED
  BY <1>1, <1>2

\* A callback of a driver is one the generic driver might have.
LEMMA DriverCallbackKeeps ==
    ASSUME DataTypeOK, NEW d \in Device, NEW kind, NEW r, NEW ctl, NEW chs,
           DriverCallback(d, kind, r, ctl, chs)
    PROVE  /\ DriverEvent(d, ctl, chs)
           /\ DataKept /\ DriversKept
           /\ UNCHANGED <<notified, overlapped>>
<1> DEFINE x == drvdata[d]
<1>1. /\ control' = ctl /\ NoIssue(chs)
      /\ UNCHANGED <<coreRest, drvdata, notified, overlapped>>
  BY DEF DriverCallback
<1>2. DriverEvent(d, ctl, chs) /\ DriversKept
  BY <1>1 DEF DriverEvent, DriversKept, coreRest
<1>3. DataKept
  <2>1. CASE UNCHANGED data
    BY <2>1, SameDataKept
  <2>2. CASE x \in Hid /\ HidEvent(x, r)
    BY <2>2, HidEventKeeps
  <2>3. CASE x \in Midi /\ MidiEvent(x, r)
    BY <2>3, MidiEventKeeps
  <2>4. CASE x \in Xbox /\ XboxEvent(x, r)
    BY <2>4, XboxEventKeeps
  <2>5. CASE x \in Hid /\ ReportEvent(x)
    BY <2>5, DataKinds, FlagChanges DEF ReportEvent
  <2>6. CASE x \in Midi /\ WriteCallback(x)
    BY <2>6, DataKinds, FlagChanges DEF WriteCallback
  <2> QED
    BY <2>1, <2>2, <2>3, <2>4, <2>5, <2>6 DEF DriverCallback
<1> QED
  BY <1>1, <1>2, <1>3

-----------------------------------------------------------------------------
(* The callbacks of the core.                                              *)

\* Only a registration changes the driver of a device.
LEMMA OnlyRegistrationBinds ==
    ASSUME NEW p \in Packet, NEW r, NEW chs, CoreCallback(p, r, chs), ~Registers(p, r)
    PROVE  drv' = drv
<1> DEFINE d == p.dev
<1>1. ASSUME NEW s, NEW ctl, DeviceEnumerate(d, s, ctl, chs),
             ~(estate[d] = "SET_CONFIGURATION_COMPLETE" /\ s = "OK")
      PROVE  drv' = drv
  BY <1>1 DEF DeviceEnumerate, SetAddressComplete, DeviceDtReadComplete,
              ConfigurationSetupSent, HeaderReadComplete, ConfigurationReadComplete,
              SetConfigurationComplete, EnumTerminate, EnumRequest, EnumRaw
<1>2. CASE ControlAdvance(d, r, chs) \/ ControlIgnored(d, chs)
  BY <1>2 DEF ControlAdvance, ControlIgnored, coreVars
<1>3. CASE /\ p.callback = "control_state_machine" /\ ControlEnds(d, r)
           /\ DeviceEnumerate(d, ControlResult(d, r), PipeIdle(d), chs)
  BY <1>1, <1>3 DEF Registers
<1>4. CASE p.callback = "device_enumerate" /\ DeviceEnumerate(d, r, control, chs)
  BY <1>1, <1>4 DEF Registers
<1> QED
  BY <1>2, <1>3, <1>4 DEF CoreCallback

\* A device that is being registered has no driver yet, so no data are in use
\* for it.
LEMMA RegisteredKeeps ==
    ASSUME DInv, NEW b \in Buses, drv[Root(b)] = "NULL", OthersKept(Root(b)),
           Registered(Root(b))
    PROVE  DInv'
<1> DEFINE d == Root(b)
<1>0. d \in Device /\ \A a \in Buses : Root(a) \in Device /\ Root(a)[1] = a
  BY RootIsDevice
<1>1. PICK tried \in SUBSET {y \in Data : FirstFree(y)},
           x \in {y \in Data : FirstFree(y)} \cup {Null} :
         /\ drvdata' = [drvdata EXCEPT ![d] = x]
         /\ data' = [y \in Data |->
               IF y = x THEN Analyzed(x, d) ELSE IF y \in tried THEN Fresh(d) ELSE data[y]]
         /\ notified' = notified \ tried
         /\ overlapped' = overlapped \ (tried \cup {x})
  BY DEF Registered
<1>2. DataTypeOK'
  <2>1. drvdata' \in [Device -> Data \cup {Null}]
    BY <1>0, <1>1 DEF DInv, DataTypeOK
  <2>2. \A y \in Data : data'[y] \in DataOf(y)
    BY <1>0, <1>1, AnalyzedTyped, FreshTyped DEF DInv, DataTypeOK
  <2>3. /\ DOMAIN data' = Data
        /\ notified' \subseteq Midi \cup Xbox
        /\ overlapped' \subseteq Midi
    BY <1>1 DEF DInv, DataTypeOK
  <2> QED
    BY <2>1, <2>2, <2>3 DEF DataTypeOK
<1>3. ASSUME NEW y \in Data, data'[y].state # "INACTIVE"
      PROVE  \E a \in Buses : Present(y, a)'
  <2>1. CASE y = x
    <3>1. data'[y] = Analyzed(y, d)
      BY <1>1, <2>1
    <3>2. /\ data'[y].usbh_device = d
          /\ drv'[d] = "READY"
          /\ drvdata'[d] = y
      BY <1>0, <1>1, <1>3, <2>1, <3>1, AnalyzedTyped DEF DInv, DataTypeOK
    <3> QED
      BY <3>2 DEF Present
  <2>2. CASE y # x /\ y \in tried
    BY <1>0, <1>1, <1>3, <2>2, FreshTyped
  <2>3. CASE y # x /\ y \notin tried
    <3>1. data'[y] = data[y]
      BY <1>1, <2>3
    <3>2. PICK a \in Buses : Present(y, a)
      BY <1>3, <3>1 DEF DInv, Backed
    <3>3. Root(a) # d /\ Root(a) \in Device
      BY <1>0, <3>2 DEF Present
    <3>4. drv'[Root(a)] = "READY" /\ drvdata'[Root(a)] = y
      BY <1>1, <3>2, <3>3 DEF Present, OthersKept, DInv, DataTypeOK
    <3> QED
      BY <3>1, <3>2, <3>4 DEF Present
  <2> QED
    BY <2>1, <2>2, <2>3
<1> QED
  BY <1>2, <1>3 DEF DInv, Backed

\* No driver is bound to a device that is being enumerated.
LEMMA RegistersUnbound ==
    ASSUME IInv, NEW b \in Buses, NEW p, p.dev = Root(b), NEW r, Registers(p, r)
    PROVE  drv[Root(b)] = "NULL"
BY InvDriver DEF Registers, DriverOnlyWhenSettled, Enumerating

\* A callback of a packet: the core sees a callback of its own, or one of the
\* generic driver.
LEMMA PacketCallbackImplements ==
    ASSUME IInv, DInv, NEW b \in Buses, NEW p \in Packet, p.dev = Root(b),
           NEW r \in Status, NEW chs, DriversPacketCallback(p, r, chs)
    PROVE  PacketCallback(p, r, chs) /\ DInv'
<1>0. Root(b) \in Device /\ DataTypeOK /\ Backed /\ CoreTypeOK
  BY RootIsDevice DEF DInv, IInv, TypeOK, CoreTypeOK
<1>1. CASE DriversCoreCallback(p, r, chs)
  <2>1. CoreCallback(p, r, chs) /\ PacketCallback(p, r, chs)
    BY <1>1 DEF DriversCoreCallback, PacketCallback
  <2>2. CASE Registers(p, r)
    <3>1. Registered(Root(b)) /\ OthersKept(Root(b))
      BY <1>0, <1>1, <2>1, <2>2, CallbackTyped DEF DriversCoreCallback
    <3> QED
      BY <2>1, <2>2, <3>1, RegistersUnbound, RegisteredKeeps
  <2>3. CASE ~Registers(p, r)
    <3>1. drv' = drv /\ UNCHANGED driversVars
      BY <1>1, <2>1, <2>3, OnlyRegistrationBinds DEF DriversCoreCallback
    <3>2. DInv'
      BY <3>1 DEF driversVars, DInv, DataTypeOK, Backed, Present
    <3> QED
      BY <2>1, <3>2
  <2> QED
    BY <2>2, <2>3
<1>2. CASE /\ DriverRequestEnds(p, r)
           /\ DriverCallback(p.dev, control[p.dev].request, ControlResult(p.dev, r),
                             PipeIdle(p.dev), chs)
  <2>1. /\ DriverEvent(p.dev, PipeIdle(p.dev), chs)
        /\ DataKept /\ DriversKept /\ UNCHANGED <<notified, overlapped>>
    BY <1>0, <1>2, DriverCallbackKeeps
  <2>2. DInv'
    BY <1>0, <2>1, KeptBacked DEF DInv, DataTypeOK, DataKept, DriversKept
  <2> QED
    BY <1>2, <2>1, <2>2 DEF PacketCallback
<1>3. CASE p.callback = "event" /\ DriverCallback(p.dev, p.kind, r, control, chs)
  <2>1. /\ DriverEvent(p.dev, control, chs)
        /\ DataKept /\ DriversKept /\ UNCHANGED <<notified, overlapped>>
    BY <1>0, <1>3, DriverCallbackKeeps
  <2>2. DInv'
    BY <1>0, <2>1, KeptBacked DEF DInv, DataTypeOK, DataKept, DriversKept
  <2> QED
    BY <1>3, <2>1, <2>2 DEF PacketCallback
<1> QED
  BY <1>1, <1>2, <1>3 DEF DriversPacketCallback

-----------------------------------------------------------------------------
(* The steps.                                                              *)

LEMMA CompletionImplements ==
    ASSUME IInv, DInv, NEW c \in Chan, DriversCompletion(c)
    PROVE  Completion(c) /\ DInv'
<1> DEFINE p == channels[c]
<1>1. PICK r \in Responses(p), left \in {NoPacket, Halting} :
         DriversPacketCallback(p, r, Released(c, left))
  BY DEF DriversCompletion
<1>2. p \in Packet /\ r \in Status
  BY <1>1, ResponsesTyped DEF DriversCompletion, Answerable
<1>3. PICK b \in Buses : p.dev = Root(b)
  BY <1>2 DEF IInv, RootPackets, Chan
<1>4. PacketCallback(p, r, Released(c, left)) /\ DInv'
  BY <1>1, <1>2, <1>3, PacketCallbackImplements
<1> QED
  BY <1>1, <1>4 DEF DriversCompletion, Completion

LEMMA RefusalImplements ==
    ASSUME IInv, DInv, DriversRefusal
    PROVE  Refusal /\ DInv'
<1>1. refused \in Packet /\ "EFATAL" \in Status
  BY DEF DriversRefusal, IInv, TypeOK, BusTypeOK, Status
<1>2. PICK b \in Buses : refused.dev = Root(b)
  BY <1>1 DEF IInv, RootPackets
<1>3. PacketCallback(refused, "EFATAL", channels) /\ DInv'
  BY <1>1, <1>2, PacketCallbackImplements DEF DriversRefusal
<1> QED
  BY <1>3 DEF DriversRefusal, Refusal

\* A read of a driver goes to the device that is bound to its data.
LEMMA ReadImplements ==
    ASSUME DInv, NEW x \in Data, NEW next \in StatesOf(x),
           refused = NoPacket, data[x].state # "INACTIVE", ReadIn(x, next),
           UNCHANGED <<coreRest, dpstate, drvdata, overlapped>>
    PROVE  /\ \E b \in Buses : DriverTransfer(Root(b))
           /\ DInv'
<1>1. PICK b \in Buses : Present(x, b)
  BY DEF DInv, Backed
<1>2. Issue(NewPacket(Root(b), "IN", "event"), channels)
  BY <1>1 DEF ReadIn, Present
<1>3. DriverTransfer(Root(b))
  BY <1>1, <1>2 DEF DriverTransfer, Transfers, Present, ReadIn, coreVars, coreRest
<1>4. DataKept /\ DriversKept
  BY StateChanges DEF ReadIn, DInv, DriversKept, coreRest
<1>5. DInv'
  BY <1>4, KeptBacked DEF DInv, DataTypeOK, DataKept, DriversKept, ReadIn
<1> QED
  BY <1>3, <1>5

\* A step of a driver that sends nothing is none of the core.
LEMMA QuietStepKeeps ==
    ASSUME DInv, NEW x \in Data, NEW next \in StatesOf(x), NEW told,
           told \subseteq Midi \cup Xbox,
           refused = NoPacket, data[x].state # "INACTIVE", Step(x, next, told),
           UNCHANGED <<coreRest, dpstate, drvdata, overlapped>>
    PROVE  UNCHANGED vars /\ DInv'
<1>1. UNCHANGED vars
  BY DEF Step, NoIssue, vars, busVars, coreVars, coreRest
<1>2. DataKept /\ DriversKept
  BY StateChanges DEF Step, DInv, DriversKept, coreRest
<1>3. DInv'
  BY <1>2, KeptBacked DEF DInv, DataTypeOK, DataKept, DriversKept, Step
<1> QED
  BY <1>1, <1>3

LEMMA HidPollImplements ==
    ASSUME DInv, NEW x \in Hid, refused = NoPacket, HidPoll(x),
           UNCHANGED <<coreRest, dpstate, drvdata, overlapped>>
    PROVE  /\ \E b \in Buses : DriverTransfer(Root(b)) \/ DriverControl(Root(b))
           /\ DInv'
<1>0. x \in Data /\ StatesOf(x) = HidState
  BY DataKinds
<1>1. CASE /\ data[x].state = "READING_REQUEST"
           /\ ReadIn(x, "READING_COMPLETE_AND_CHECK_REPORT")
  BY <1>0, <1>1, ReadImplements DEF HidState
<1>2. CASE /\ data[x].state = "GET_REPORT_DESCRIPTOR_READ_SETUP"
           /\ data' = [data EXCEPT ![x].state = "GET_REPORT_DESCRIPTOR_READ_COMPLETE"]
           /\ UNCHANGED notified
           /\ DeviceControl(data[x].usbh_device, "event", "IN", control, channels)
  <2>1. PICK b \in Buses : Present(x, b)
    BY <1>0, <1>2 DEF DInv, Backed
  <2>2. DriverControl(Root(b))
    BY <1>2, <2>1 DEF DriverControl, Present, coreRest, Request
  <2>3. DataKept /\ DriversKept
    BY <1>0, <1>2, StateChanges DEF DInv, DriversKept, coreRest, HidState
  <2>4. DInv'
    BY <1>2, <2>3, KeptBacked DEF DInv, DataTypeOK, DataKept, DriversKept
  <2> QED
    BY <2>2, <2>4
<1> QED
  BY <1>1, <1>2 DEF HidPoll

LEMMA MidiPollImplements ==
    ASSUME DInv, NEW x \in Midi, refused = NoPacket, MidiPoll(x),
           UNCHANGED <<coreRest, dpstate, drvdata, overlapped>>
    PROVE  /\ UNCHANGED vars \/ \E b \in Buses : DriverTransfer(Root(b))
           /\ DInv'
<1>0. x \in Data /\ StatesOf(x) = MidiState
  BY DataKinds
<1>1. CASE \E next \in {"102", "26"} : data[x].state # "INACTIVE" /\ ReadIn(x, next)
  BY <1>0, <1>1, ReadImplements DEF MidiState
<1>2. CASE \E next \in {"100", "101", "26"}, told \in {{}, {x}} :
              data[x].state # "INACTIVE" /\ Step(x, next, told)
  BY <1>0, <1>2, QuietStepKeeps DEF MidiState
<1> QED
  BY <1>1, <1>2 DEF MidiPoll

LEMMA XboxPollImplements ==
    ASSUME DInv, NEW x \in Xbox, refused = NoPacket, XboxPoll(x),
           UNCHANGED <<coreRest, dpstate, drvdata, overlapped>>
    PROVE  /\ UNCHANGED vars \/ \E b \in Buses : DriverTransfer(Root(b))
           /\ DInv'
<1>0. x \in Data /\ StatesOf(x) = XboxState
  BY DataKinds
<1>1. CASE data[x].state = "READING_REQUEST" /\ ReadIn(x, "READING_COMPLETE")
  BY <1>0, <1>1, ReadImplements DEF XboxState
<1>2. CASE data[x].state = "INITIAL" /\ Step(x, "READING_REQUEST", {x})
  BY <1>0, <1>2, QuietStepKeeps DEF XboxState
<1> QED
  BY <1>1, <1>2 DEF XboxPoll

LEMMA DriverPollImplements ==
    ASSUME DInv, NEW b \in Buses, DriverPoll(b)
    PROVE  [Next]_vars /\ DInv'
<1> DEFINE x == drvdata[Root(b)]
<1>1. refused = NoPacket /\ UNCHANGED <<coreRest, dpstate, drvdata, overlapped>>
  BY DEF DriverPoll
<1>2. CASE x \in Hid /\ HidPoll(x)
  BY <1>1, <1>2, HidPollImplements DEF Next
<1>3. CASE x \in Midi /\ MidiPoll(x)
  BY <1>1, <1>3, MidiPollImplements DEF Next
<1>4. CASE x \in Xbox /\ XboxPoll(x)
  BY <1>1, <1>4, XboxPollImplements DEF Next
<1> QED
  BY <1>2, <1>3, <1>4 DEF DriverPoll

LEMMA SetReportImplements ==
    ASSUME DInv, NEW x \in Hid, SetReport(x)
    PROVE  /\ \E b \in Buses : DriverControl(Root(b))
           /\ DInv'
<1>0. x \in Data
  BY DataKinds
<1>1. PICK b \in Buses : Present(x, b)
  BY DEF SetReport
<1>2. DriverControl(Root(b))
  BY <1>1 DEF SetReport, DriverControl, Present, coreRest, Request
<1>3. DataKept /\ DriversKept
  BY <1>0, FlagChanges DEF SetReport, DInv, DriversKept, coreRest
<1>4. DInv'
  BY <1>3, KeptBacked DEF DInv, DataTypeOK, DataKept, DriversKept, SetReport
<1> QED
  BY <1>2, <1>4

LEMMA MidiWriteImplements ==
    ASSUME DInv, NEW x \in Midi, MidiWrite(x)
    PROVE  /\ \E b \in Buses : DriverTransfer(Root(b))
           /\ DInv'
<1>0. x \in Data
  BY DataKinds
<1>1. PICK b \in Buses : Present(x, b)
  BY <1>0 DEF MidiWrite, DInv, Backed
<1>2. Issue(NewPacket(Root(b), "OUT", "event"), channels)
  BY <1>1 DEF MidiWrite, Present
<1>3. DriverTransfer(Root(b))
  BY <1>1, <1>2 DEF MidiWrite, DriverTransfer, Transfers, Present
<1>4. DataKept /\ DriversKept
  BY <1>0, FlagChanges DEF MidiWrite, DInv, DriversKept, coreVars
<1>5. DInv'
  BY <1>4, KeptBacked DEF DInv, DataTypeOK, DataKept, DriversKept, MidiWrite
<1> QED
  BY <1>3, <1>5

\* The data of the devices that go with a port become free.
LEMMA DisconnectedKeeps ==
    ASSUME DInv, NEW b \in Buses, DriversDisconnected(b)
    PROVE  DInv'
<1> DEFINE removed == {drvdata[d] : d \in {e \in Device : e[1] = b}} \ {Null}
           freed(x) == [data[x] EXCEPT !.state = "INACTIVE"]
<1>0. \A a \in Buses : Root(a) \in Device /\ Root(a)[1] = a
  BY RootIsDevice
<1>1. /\ drvdata' = [d \in Device |-> IF d[1] = b THEN Null ELSE drvdata[d]]
      /\ data' = [x \in Data |-> IF x \in removed THEN freed(x) ELSE data[x]]
      /\ notified' = notified \ removed
      /\ overlapped' = overlapped
  BY DEF DriversDisconnected, Removed
<1>2. \A x \in Data : freed(x) \in DataOf(x) /\ freed(x).state = "INACTIVE"
  BY DataKinds DEF DInv, DataTypeOK, DataOf
<1>3. DataTypeOK'
  BY <1>1, <1>2 DEF DInv, DataTypeOK
<1>4. ASSUME NEW x \in Data, data'[x].state # "INACTIVE"
      PROVE  \E a \in Buses : Present(x, a)'
  <2>1. x \notin removed /\ data'[x] = data[x]
    BY <1>1, <1>2, <1>4
  <2>2. PICK a \in Buses : Present(x, a)
    BY <1>4, <2>1 DEF DInv, Backed
  <2>3. x # Null
    BY DriversAssumption
  <2>4. a # b
    BY <1>0, <2>1, <2>2, <2>3 DEF Present
  <2>5. drvdata'[Root(a)] = x /\ drv'[Root(a)] = "READY"
    BY <1>0, <1>1, <2>2, <2>4 DEF Present, DriversDisconnected, Disconnected, DeviceRemove
  <2> QED
    BY <2>1, <2>2, <2>5 DEF Present
<1> QED
  BY <1>3, <1>4 DEF DInv, Backed

LEMMA UnchangedKeeps ==
    ASSUME DInv, UNCHANGED <<drv, driversVars>>
    PROVE  DInv'
BY DEF driversVars, DInv, DataTypeOK, Backed, Present

\* Every step of the drivers is one the core allows its generic driver.
LEMMA DriversStep == IInv /\ DInv /\ [DriversNext]_dvars => [Next]_vars /\ DInv'
<1> SUFFICES ASSUME IInv, DInv, [DriversNext]_dvars
             PROVE  [Next]_vars /\ DInv'
  OBVIOUS
<1>1. ASSUME NEW b \in Buses, Reset(b) \/ Connected(b), UNCHANGED driversVars
      PROVE  Next /\ DInv'
  BY <1>1, UnchangedKeeps DEF Next, Reset, Connected, coreVars
<1>2. ASSUME NEW b \in Buses, DriversDisconnected(b)
      PROVE  Next /\ DInv'
  BY <1>2, DisconnectedKeeps DEF Next, DriversDisconnected
<1>3. ASSUME NEW b \in Buses, DriverPoll(b)
      PROVE  [Next]_vars /\ DInv'
  BY <1>3, DriverPollImplements
<1>4. ASSUME NEW x \in Hid, SetReport(x)
      PROVE  Next /\ DInv'
  BY <1>4, SetReportImplements DEF Next
<1>5. ASSUME NEW x \in Midi, MidiWrite(x)
      PROVE  Next /\ DInv'
  BY <1>5, MidiWriteImplements DEF Next
<1>6. ASSUME NEW c \in Chan, DriversCompletion(c)
      PROVE  Next /\ DInv'
  BY <1>6, CompletionImplements DEF Next
<1>7. ASSUME NEW c \in Chan, Halted(c), UNCHANGED driversVars
      PROVE  Next /\ DInv'
  BY <1>7, UnchangedKeeps DEF Next, Halted, coreVars
<1>8. CASE DriversRefusal
  BY <1>8, RefusalImplements DEF Next
<1>9. CASE UNCHANGED dvars
  BY <1>9, UnchangedKeeps DEF dvars, vars, coreVars
<1> QED
  BY <1>1, <1>2, <1>3, <1>4, <1>5, <1>6, <1>7, <1>8, <1>9 DEF DriversNext

-----------------------------------------------------------------------------
(* The theorems.                                                           *)

LEMMA DriversInvariance == DriversSpec => [](IInv /\ DInv)
<1>1. DriversInit => IInv /\ DInv
  BY InvInit, DriversInitInv DEF DriversInit
<1>2. IInv /\ DInv /\ [DriversNext]_dvars => IInv' /\ DInv'
  BY DriversStep, InvStep
<1> QED
  BY <1>1, <1>2, PTL DEF DriversSpec

\* The drivers keep the types of their data, whatever devices come and go.
THEOREM DriversTypeCorrect == DriversSpec => []DriversTypeOK
<1>1. IInv /\ DInv => DriversTypeOK
  BY DEF IInv, DInv, DataTypeOK, DriversTypeOK
<1> QED
  BY <1>1, DriversInvariance, PTL

\* The HID, MIDI and Xbox drivers never do to the core what its generic driver
\* could not.
THEOREM DriversRefinement == DriversSpec => ImplementsCore
<1>1. DriversInit => Init
  BY DEF DriversInit
<1>2. IInv /\ DInv /\ [DriversNext]_dvars => [Next]_vars
  BY DriversStep
<1> QED
  BY <1>1, <1>2, DriversInvariance, PTL DEF DriversSpec, ImplementsCore, Spec

\* A driver works only for a device that is there and is bound to its data, even
\* where two devices have come to share them.
THEOREM DriversWorkForPresent == DriversSpec => []ActiveDataBound
<1>1. ASSUME IInv, DInv
      PROVE  ActiveDataBound
  <2>1. ASSUME NEW x \in Data, data[x].state # "INACTIVE"
        PROVE  \E b \in Buses : dpstate[b] = "RUN" /\ Present(x, b)
    <3>1. PICK b \in Buses : Present(x, b)
      BY <1>1, <2>1 DEF DInv, Backed
    <3>2. dpstate[b] = "RUN"
      BY <1>1, <3>1, InvDriver DEF DriverOnlyWhenSettled, Present
    <3> QED
      BY <3>1, <3>2
  <2> QED
    BY <2>1 DEF ActiveDataBound
<1> QED
  BY <1>1, DriversInvariance, PTL

\* What holds of the control pipe, the enumeration and the lock of the core under
\* any driver holds under these.
THEOREM CoreKeepsUnderDrivers ==
    DriversSpec => [](Ep0Exclusive /\ ControlPipeBacked /\ EnumerationBacked
                        /\ DriverOnlyWhenSettled /\ CallbackHasDriver)
<1>1. IInv /\ DInv => Ep0Exclusive /\ ControlPipeBacked /\ EnumerationBacked
                        /\ DriverOnlyWhenSettled /\ CallbackHasDriver
  BY InvExclusive, InvPipe, InvEnumeration, InvDriver, InvCallback
<1> QED
  BY <1>1, DriversInvariance, PTL
=============================================================================
