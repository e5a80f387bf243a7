------------------------------ MODULE UsbhDrivers ------------------------------
(***************************************************************************)
(* The drivers of devices that are no hubs, usbh_driver_hid.c,             *)
(* usbh_driver_ac_midi.c and usbh_driver_gp_xbox.c, bound to root devices  *)
(* by usbh_core.c, with the application that calls hid_set_report and      *)
(* usbh_midi_write.  They take the place of the generic driver of UsbhCore *)
(* and implement it.                                                       *)
(*                                                                         *)
(* The functions of the application that the drivers call may call back    *)
(* into the drivers.  The drivers then do nothing that such a call could   *)
(* meet, so it is taken as the step that follows.  Environment: while the  *)
(* application is told of a disconnection it does not write to the device, *)
(* whose state the driver clears only afterwards.                          *)
(***************************************************************************)
EXTENDS UsbhCore

CONSTANTS
    USBH_HID_MAX_DEVICES, USBH_AC_MIDI_MAX_DEVICES, USBH_GP_XBOX_MAX_DEVICES,
    Null      \* no driver data; no device

\* The entries of hid_device, midi_device and gp_xbox_device.
Hid == {"hid"} \X (0 .. USBH_HID_MAX_DEVICES - 1)
Midi == {"midi"} \X (0 .. USBH_AC_MIDI_MAX_DEVICES - 1)
Xbox == {"xbox"} \X (0 .. USBH_GP_XBOX_MAX_DEVICES - 1)
Data == Hid \cup Midi \cup Xbox

ASSUME DriversAssumption ==
    /\ USBH_HID_MAX_DEVICES \in Nat
    /\ USBH_AC_MIDI_MAX_DEVICES \in Nat
    /\ USBH_GP_XBOX_MAX_DEVICES \in Nat
    /\ Null \notin Data
    /\ Null \notin Device

VARIABLES
    drvdata,   \* dev->drvdata
    data,      \* the driver data
    notified,  \* history: the data whose device the application was told of
    overlapped \* history: the MIDI data the application wrote to before the
               \* callback of its last write

driversVars == <<drvdata, data, notified, overlapped>>
dvars == <<vars, driversVars>>

\* state_next of the HID and Xbox drivers; state of the MIDI driver, whose 0 is
\* INACTIVE.
HidState == {"INACTIVE", "READING_REQUEST", "READING_COMPLETE_AND_CHECK_REPORT",
             "GET_REPORT_DESCRIPTOR_READ_SETUP", "GET_REPORT_DESCRIPTOR_READ_COMPLETE"}
MidiState == {"INACTIVE", "1", "100", "101", "102", "25", "26"}
XboxState == {"INACTIVE", "INITIAL", "READING_REQUEST", "READING_COMPLETE"}

StatesOf(x) == IF x \in Hid THEN HidState ELSE IF x \in Midi THEN MidiState ELSE XboxState

\* report_state is of the HID driver, sending of the MIDI driver.
DataOf(x) == [state : StatesOf(x), usbh_device : Device \cup {Null},
              report_state : {"NULL", "READY", "PENDING"}, sending : BOOLEAN]

DriversTypeOK ==
    /\ TypeOK
    /\ drvdata \in [Device -> Data \cup {Null}]
    /\ DOMAIN data = Data
    /\ \A x \in Data : data[x] \in DataOf(x)
    /\ notified \subseteq Midi \cup Xbox
    /\ overlapped \subseteq Midi

\* Driver data as init of the drivers leaves it.
Fresh(d) == [state |-> "INACTIVE", usbh_device |-> d,
             report_state |-> "NULL", sending |-> FALSE]

DriversInit ==
    /\ Init
    /\ drvdata = [d \in Device |-> Null]
    /\ data = [x \in Data |-> Fresh(Null)]
    /\ notified = {}
    /\ overlapped = {}

-----------------------------------------------------------------------------
(* device_register: init, analyze_descriptor, remove.                      *)

\* The data that init of a driver takes: the first that is inactive.
FirstFree(x) ==
    /\ data[x].state = "INACTIVE"
    /\ \A y \in Data : y[1] = x[1] /\ data[y].state = "INACTIVE" => x[2] <= y[2]

\* Mutant: the gamepad starts like a MIDI device.
FirstStateMixed(x) ==
    IF x \in Hid THEN "GET_REPORT_DESCRIPTOR_READ_SETUP" ELSE "1"

\* The state that analyze_descriptor sets when the driver has all it needs.
FirstState(x) ==
    IF x \in Hid THEN "GET_REPORT_DESCRIPTOR_READ_SETUP"
    ELSE IF x \in Midi THEN "1" ELSE "INITIAL"

\* Mutants: the driver starts before it has all it needs; reports may be sent
\* before the descriptor of the reports is read.
AnalyzedEarly(x, d) == [Fresh(d) EXCEPT !.state = FirstState(x)]
AnalyzedReady(x, d) ==
    IF drv'[d] = "READY"
    THEN [Fresh(d) EXCEPT !.state = FirstState(x), !.report_state = "READY"] ELSE Fresh(d)

\* The data of device d after its descriptors were analyzed, whole or not.
Analyzed(x, d) ==
    IF drv'[d] = "READY" THEN [Fresh(d) EXCEPT !.state = FirstState(x)] ELSE Fresh(d)

\* device_register, with what it does to the driver data.  The data in tried
\* were given to the device and taken away again; x is what it keeps, ready, or
\* not ready because the parsing stopped before the driver had what it needs.
\* A driver that has no data left is named in dev->drv all the same.
Registered(d) ==
    \E tried \in SUBSET {y \in Data : FirstFree(y)},
       x \in {y \in Data : FirstFree(y)} \cup {Null} :
       /\ address'[d] = IF tried = {} THEN address[d] ELSE -1
       /\ IF x # Null THEN drv'[d] # "NULL"
          ELSE \/ drv'[d] = "NULL"
               \/ /\ drv'[d] = "UNREADY"
                  /\ \E ds \in {Hid, Midi, Xbox} : \A y \in ds : ~FirstFree(y)
       /\ drvdata' = [drvdata EXCEPT ![d] = x]
       /\ data' = [y \in Data |->
             IF y = x THEN Analyzed(x, d) ELSE IF y \in tried THEN Fresh(d) ELSE data[y]]
       /\ notified' = notified \ tried
       /\ overlapped' = overlapped \ (tried \cup {x})

\* The answer makes device_enumerate register the device.
Registers(p, r) ==
    /\ estate[p.dev] = "SET_CONFIGURATION_COMPLETE"
    /\ \/ p.callback = "device_enumerate" /\ r = "OK"
       \/ /\ p.callback = "control_state_machine"
          /\ ControlEnds(p.dev, r) /\ ControlResult(p.dev, r) = "OK"

DriversCoreCallback(p, r, chs) ==
    /\ CoreCallback(p, r, chs)
    /\ IF Registers(p, r) THEN Registered(p.dev) ELSE UNCHANGED driversVars

\* Mutant: remove leaves the state of the driver.
RemovedStaysActive(b) ==
    LET removed == {drvdata[d] : d \in {e \in Device : e[1] = b}} \ {Null}
    IN  /\ drvdata' = [d \in Device |-> IF d[1] = b THEN Null ELSE drvdata[d]]
        /\ notified' = notified \ removed
        /\ UNCHANGED <<data, overlapped>>

\* remove of the drivers, for every device of bus b.  report_state and sending
\* stay as they are.
Removed(b) ==
    LET removed == {drvdata[d] : d \in {e \in Device : e[1] = b}} \ {Null}
    IN  /\ drvdata' = [d \in Device |-> IF d[1] = b THEN Null ELSE drvdata[d]]
        /\ data' = [x \in Data |-> IF x \in removed THEN [data[x] EXCEPT !.state = "INACTIVE"]
                                   ELSE data[x]]
        /\ notified' = notified \ removed
        /\ UNCHANGED overlapped

DriversDisconnected(b) == Disconnected(b) /\ Removed(b)

-----------------------------------------------------------------------------
(* poll of the drivers, and the calls of the application.                  *)

coreRest == <<enumeration_run, address_temporary, address, estate, drv>>

\* read_hid_in_endpoint, read_midi_in, read_gp_xbox_in: the device is the one
\* that the data names.
ReadIn(x, next) ==
    /\ data' = [data EXCEPT ![x].state = next]
    /\ UNCHANGED <<control, notified>>
    /\ Issue(NewPacket(data[x].usbh_device, "IN", "event"), channels)

\* Only the state changes, and the application may be told of the device.
Step(x, next, told) ==
    /\ data' = [data EXCEPT ![x].state = next]
    /\ notified' = notified \cup told
    /\ UNCHANGED control
    /\ NoIssue(channels)

\* Mutant: poll reads again while the last read is under way.
HidPollAgain(x) ==
    \/ /\ data[x].state \in {"READING_REQUEST", "READING_COMPLETE_AND_CHECK_REPORT"}
       /\ ReadIn(x, "READING_COMPLETE_AND_CHECK_REPORT")
    \/ /\ data[x].state = "GET_REPORT_DESCRIPTOR_READ_SETUP"
       /\ data' = [data EXCEPT ![x].state = "GET_REPORT_DESCRIPTOR_READ_COMPLETE"]
       /\ UNCHANGED notified
       /\ DeviceControl(data[x].usbh_device, "event", "IN", control, channels)

HidPoll(x) ==
    \/ /\ data[x].state = "READING_REQUEST"
       /\ ReadIn(x, "READING_COMPLETE_AND_CHECK_REPORT")
    \/ /\ data[x].state = "GET_REPORT_DESCRIPTOR_READ_SETUP"
       /\ data' = [data EXCEPT ![x].state = "GET_REPORT_DESCRIPTOR_READ_COMPLETE"]
       /\ UNCHANGED notified
       /\ DeviceControl(data[x].usbh_device, "event", "IN", control, channels)

\* Upon configuration some devices send data of no use: what is read before
\* MIDI_INITIAL_DELAY is over is ignored.  The delay ends at some poll.
MidiPoll(x) ==
    \/ data[x].state = "1" /\ Step(x, "100", {x})
    \/ data[x].state = "100" /\ Step(x, "101", {})
    \/ data[x].state = "101" /\ ReadIn(x, "102")
    \/ data[x].state = "102" /\ Step(x, "26", {})
    \/ data[x].state = "25" /\ ReadIn(x, "26")

XboxPoll(x) ==
    \/ data[x].state = "INITIAL" /\ Step(x, "READING_REQUEST", {x})
    \/ data[x].state = "READING_REQUEST" /\ ReadIn(x, "READING_COMPLETE")

\* usbh_poll polls the driver of the root device.
DriverPoll(b) ==
    LET x == drvdata[Root(b)]
    IN  /\ refused = NoPacket
        /\ drv[Root(b)] # "NULL" /\ x # Null
        /\ UNCHANGED <<coreRest, dpstate, drvdata, overlapped>>
        /\ \/ x \in Hid /\ HidPoll(x)
           \/ x \in Midi /\ MidiPoll(x)
           \/ x \in Xbox /\ XboxPoll(x)

\* The device that the data x name is in root port b, and uses them.
Present(x, b) ==
    /\ data[x].usbh_device = Root(b)
    /\ drvdata[Root(b)] = x
    /\ drv[Root(b)] = "READY"

\* hid_set_report.  Environment: the application asks only for a device that is
\* still there; the driver does not know.
SetReport(x) ==
    LET d == data[x].usbh_device
    IN  /\ refused = NoPacket
        /\ data[x].report_state = "READY"
        /\ \E b \in Buses : Present(x, b)
        /\ UNCHANGED <<coreRest, dpstate, drvdata, notified, overlapped>>
        /\ data' = [data EXCEPT ![x].report_state = "PENDING"]
        /\ DeviceControl(d, "event", "OUT", control, channels)

\* usbh_midi_write; nothing keeps the application from writing again before
\* the last write has called back.
MidiWrite(x) ==
    /\ refused = NoPacket
    /\ data[x].state # "INACTIVE"
    /\ data' = [data EXCEPT ![x].sending = TRUE]
    /\ overlapped' = IF data[x].sending THEN overlapped \cup {x} ELSE overlapped
    /\ UNCHANGED <<coreVars, dpstate, drvdata, notified>>
    /\ Issue(NewPacket(data[x].usbh_device, "OUT", "event"), channels)

-----------------------------------------------------------------------------
(* The callbacks of the drivers.                                           *)

\* A transfer that was cut short delivers what has arrived.
Delivered == {"OK", "ERRSIZ"}

\* event of the HID driver.
HidEvent(x, r) ==
    \/ /\ data[x].state = "READING_COMPLETE_AND_CHECK_REPORT"
       /\ data' = [data EXCEPT ![x].state =
                      IF r \in Delivered THEN "READING_REQUEST" ELSE "INACTIVE"]
    \/ /\ data[x].state = "GET_REPORT_DESCRIPTOR_READ_COMPLETE" /\ r = "OK"
       /\ data' = [data EXCEPT ![x].state = "READING_REQUEST",
                               ![x].report_state = "READY"]
    \/ /\ data[x].state = "GET_REPORT_DESCRIPTOR_READ_COMPLETE" /\ r # "OK"
       /\ data' = [data EXCEPT ![x].state = "INACTIVE"]
    \/ /\ data[x].state \notin {"READING_COMPLETE_AND_CHECK_REPORT",
                                "GET_REPORT_DESCRIPTOR_READ_COMPLETE"}
       /\ UNCHANGED data

\* Mutant: what is to be ignored ends the reading.
MidiEventIgnoresTwice(x, r) ==
    \/ /\ data[x].state = "26"
       /\ data' = [data EXCEPT ![x].state = IF r \in Delivered THEN "25" ELSE "INACTIVE"]
    \/ data[x].state # "26" /\ UNCHANGED data

\* event of the MIDI driver; while data are ignored, so are errors.
MidiEvent(x, r) ==
    \/ /\ data[x].state = "26"
       /\ data' = [data EXCEPT ![x].state = IF r \in Delivered THEN "25" ELSE "INACTIVE"]
    \/ /\ data[x].state = "102"
       /\ data' = [data EXCEPT ![x].state = "101"]
    \/ data[x].state \notin {"26", "102"} /\ UNCHANGED data

\* event of the Xbox driver.
XboxEvent(x, r) ==
    \/ /\ data[x].state = "READING_COMPLETE"
       /\ data' = [data EXCEPT ![x].state =
                      IF r \in Delivered THEN "READING_REQUEST" ELSE "INACTIVE"]
    \/ data[x].state # "READING_COMPLETE" /\ UNCHANGED data

\* Mutant: the last write to be called back is forgotten.
WriteForgotten(x) == UNCHANGED data

\* write_callback of the MIDI driver.
WriteCallback(x) == data' = [data EXCEPT ![x].sending = FALSE]

\* report_event of the HID driver, whatever became of the report.
ReportEvent(x) == data' = [data EXCEPT ![x].report_state = "READY"]

\* Mutant: a fatal error of MIDI removes the driver, as a line of the code that is
\* commented out would.
DriverCallbackRemoves(d, kind, r, ctl, chs) ==
    LET x == drvdata[d]
        dead == x \in Midi /\ kind = "IN" /\ data[x].state = "26" /\ r \notin Delivered
    IN  /\ control' = ctl
        /\ NoIssue(chs)
        /\ UNCHANGED <<coreRest, drvdata, overlapped>>
        /\ notified' = IF dead THEN notified \ {x} ELSE notified
        /\ \/ x = Null /\ UNCHANGED data
           \/ x \in Hid /\ kind = "IN" /\ HidEvent(x, r)
           \/ x \in Hid /\ kind = "OUT" /\ ReportEvent(x)
           \/ x \in Midi /\ kind = "IN" /\ MidiEvent(x, r)
           \/ x \in Midi /\ kind = "OUT" /\ WriteCallback(x)
           \/ x \in Xbox /\ kind = "IN" /\ XboxEvent(x, r)

\* The callback of a packet or request of device d: an IN goes to event, an OUT
\* to write_callback or report_event.  A device that was removed has no data:
\* the code then works on what lies at address 0, out of reach here.
DriverCallback(d, kind, r, ctl, chs) ==
    LET x == drvdata[d]
    IN  /\ control' = ctl
        /\ NoIssue(chs)
        /\ UNCHANGED <<coreRest, drvdata, notified, overlapped>>
        /\ \/ x = Null /\ UNCHANGED data
           \/ x \in Hid /\ kind = "IN" /\ HidEvent(x, r)
           \/ x \in Hid /\ kind = "OUT" /\ ReportEvent(x)
           \/ x \in Midi /\ kind = "IN" /\ MidiEvent(x, r)
           \/ x \in Midi /\ kind = "OUT" /\ WriteCallback(x)
           \/ x \in Xbox /\ kind = "IN" /\ XboxEvent(x, r)

DriversPacketCallback(p, r, chs) ==
    \/ DriversCoreCallback(p, r, chs)
    \/ /\ DriverRequestEnds(p, r)
       /\ DriverCallback(p.dev, control[p.dev].request, ControlResult(p.dev, r),
                         PipeIdle(p.dev), chs)
    \/ /\ p.callback = "event"
       /\ DriverCallback(p.dev, p.kind, r, control, chs)

DriversCompletion(c) ==
    /\ Answerable(c)
    /\ \E r \in Responses(channels[c]), left \in {NoPacket, Halting} :
          DriversPacketCallback(channels[c], r, Released(c, left))
    /\ UNCHANGED dpstate

DriversRefusal ==
    /\ refused # NoPacket
    /\ DriversPacketCallback(refused, "EFATAL", channels)
    /\ UNCHANGED dpstate

DriversNext ==
    \/ \E b \in Buses :
          \/ Reset(b) /\ UNCHANGED driversVars
          \/ Connected(b) /\ UNCHANGED driversVars
          \/ DriversDisconnected(b)
          \/ DriverPoll(b)
    \/ \E x \in Hid : SetReport(x)
    \/ \E x \in Midi : MidiWrite(x)
    \/ \E c \in Chan : DriversCompletion(c) \/ (Halted(c) /\ UNCHANGED driversVars)
    \/ DriversRefusal

DriversSpec == DriversInit /\ [][DriversNext]_dvars

\* The main loop polls for ever, which polls the drivers too, and every packet
\* is answered or fails.  The fairness is strong because a refused packet holds
\* up both: it does so only inside a call of the application, which returns.
DriversFairness ==
    /\ \A b \in Buses : SF_dvars(DriverPoll(b))
    /\ \A c \in Chan : SF_dvars(DriversCompletion(c))
    /\ WF_dvars(DriversRefusal)

DriversFairSpec == DriversSpec /\ DriversFairness

-----------------------------------------------------------------------------
(* Properties.                                                             *)

Bound(x, d) == drvdata[d] = x
InUse(x) == \E b \in Buses : dpstate[b] = "RUN" /\ Bound(x, Root(b))

\* The states in which a driver waits for a read; HID also waits for the
\* descriptor, through the control pipe.
Reading(x) == data[x].state \in {"READING_COMPLETE_AND_CHECK_REPORT",
                                 "READING_COMPLETE", "102", "26"}

Reads(d) == {c \in Chan : Carries(channels[c], d, "event", "IN")}

RequestUnderWay(d, request) ==
    control[d].state # "NONE" /\ control[d].callback = "event"
        /\ control[d].request = request

\* With one bus, while the port is up, a driver has a read outstanding exactly
\* in the states that wait for one, and never two, which would fill the same
\* buffer; and HID has its request under way exactly while it waits for the
\* descriptor.  No driver waits for an answer that will not come, and none gets
\* an answer that was meant for another state or for the last device.
WaitsForItsRead ==
    \A b \in Buses : dpstate[b] = "RUN" =>
        LET d == Root(b)
            x == drvdata[d]
            waiting == x # Null /\ Reading(x)
            requesting == x # Null /\ data[x].state = "GET_REPORT_DESCRIPTOR_READ_COMPLETE"
        IN  /\ waiting <=> Awaits(d, "event", "IN")
            /\ requesting <=> RequestUnderWay(d, "IN")
            /\ \A c, e \in Reads(d) : c = e

\* With one bus, a report the application was told is on its way is under way:
\* hid_set_report never returns true for a request that device_control dropped,
\* and no other request of the application comes back to report_event.
ReportUnderWay ==
    \A b \in Buses : dpstate[b] = "RUN" =>
        LET x == drvdata[Root(b)]
        IN  (x # Null /\ data[x].report_state = "PENDING") <=> RequestUnderWay(Root(b), "OUT")

\* With one bus, the callback that the application gave to usbh_midi_write is
\* called when the write finishes: it is expected as long as the write is
\* outstanding, unless the application has written twice at a time, and it is
\* expected only then.
WriteCallsBack ==
    \A x \in Midi : InUse(x) =>
        LET outstanding == Awaits(data[x].usbh_device, "event", "OUT")
        IN  /\ data[x].sending => outstanding
            /\ outstanding => data[x].sending \/ x \in overlapped

\* Driver data that are not free belong to the device they name: its port is up,
\* it is enumerated, and the callbacks of its transfers find these data.  So poll
\* and usbh_midi_write, which look at the state of the data, never work for a
\* device that is gone.  hid_set_report does not look at it: SetReport assumes
\* that the application asks for no such device.
ActiveDataBound ==
    \A x \in Data : data[x].state # "INACTIVE" =>
        \E b \in Buses : dpstate[b] = "RUN" /\ Present(x, b)

\* The driver of MIDI or gamepad device d has been polled for the first time.
\* Data that are INACTIVE with a driver that is ready have been, and have met a
\* fatal error since.
Introduced(d) ==
    /\ drv[d] = "READY" /\ drvdata[d] \in Midi \cup Xbox
    /\ data[drvdata[d]].state \notin {"INITIAL", "1"}

\* With one bus, the application knows a MIDI device or a gamepad as connected
\* exactly from the first poll of its driver until the port goes down, also when
\* a fatal error has stopped the driver: notify_disconnected tells of devices
\* that are gone, and of no others.
KnownWhileBound ==
    /\ \A x \in notified : InUse(x)
    /\ \A b \in Buses : drvdata[Root(b)] \in notified <=> Introduced(Root(b))

\* The drivers implement the generic driver of UsbhCore: whatever holds of the
\* core with that driver holds of the core with these.
ImplementsCore == Spec

\* A driver that is ready reads its device over and over, until its first
\* transfer that fails or until the port goes down.
KeepsReading ==
    \A b \in Buses :
        LET d == Root(b)
            x == drvdata[d]
        IN  (x # Null /\ drv[d] = "READY")
              ~> (x = Null \/ data[x].state = "INACTIVE" \/ Awaits(d, "event", "IN"))

\* Driver data are private to one device: no two devices whose drivers are ready
\* share any.
PrivateData ==
    \A d, e \in Device :
        drvdata[d] = drvdata[e] /\ drvdata[d] # Null /\ drv[d] = "READY" /\ drv[e] = "READY"
            => d = e
=============================================================================
