------------------------------ MODULE UsbhCore -------------------------------
(***************************************************************************)
(* usbh_core.c: the control pipe of each device, the enumeration of a      *)
(* device, the binding of its driver, and the connection and disconnection *)
(* of root ports in usbh_poll.  The program has one thread: every action   *)
(* is one callback, one status returned by a low-level driver, or one call *)
(* that a device driver makes from its poll.                               *)
(*                                                                         *)
(* The drivers bound to root devices are generic here: any request, any    *)
(* transfer, at any time.                                                  *)
(***************************************************************************)
EXTENDS UsbhBus

VARIABLES
    enumeration_run,    \* usbh_data.enumeration_run: one lock for all buses
    address_temporary,  \* usbh_data.address_temporary: one for all buses
    address,            \* dev->address
    estate,             \* dev->state
    control,            \* dev->control
    drv                 \* dev->drv and dev->drvdata taken together

coreVars == <<enumeration_run, address_temporary, address, estate, control, drv>>
vars == <<busVars, coreVars>>

\* The states of the enumeration that outlive a call of device_enumerate; the
\* others are passed through by CONTINUE_WITH.
EnumState ==
    {"SET_ADDRESS", "DEVICE_DT_READ_COMPLETE",
     "CONFIGURATION_DT_HEADER_READ", "CONFIGURATION_DT_HEADER_READ_COMPLETE",
     "CONFIGURATION_DT_READ", "CONFIGURATION_DT_READ_COMPLETE",
     "SET_CONFIGURATION_COMPLETE"}

\* Direction and length of a control request.
Request == {"IN", "OUT", "NODATA"}
ControlState == {"NONE", "SETUP", "DATA", "STATUS"}
Control == [state : ControlState,
            callback : {"device_enumerate", "event"},
            request : Request]

\* Not bound; bound, but parsing stopped early so the driver never started;
\* bound and ready.
Drv == {"NULL", "UNREADY", "READY"}

TypeOK ==
    /\ BusTypeOK
    /\ enumeration_run \in BOOLEAN
    /\ address_temporary \in Address
    /\ address \in [Device -> Address]
    /\ estate \in [Device -> EnumState]
    /\ control \in [Device -> Control]
    /\ drv \in [Device -> Drv]

IdleControl == [state |-> "NONE", callback |-> "device_enumerate", request |-> "NODATA"]

Init ==
    /\ BusInit
    /\ enumeration_run = FALSE
    /\ address_temporary = 0
    /\ address = [d \in Device |-> -1]
    /\ estate = [d \in Device |-> "SET_ADDRESS"]
    /\ control = [d \in Device |-> IdleControl]
    /\ drv = [d \in Device |-> "NULL"]

-----------------------------------------------------------------------------
(* The control pipe.  ctl and chs are control and channels at the point of *)
(* the call; a packet takes the address the device has by then.            *)

NewPacket(d, kind, callback) ==
    [dev |-> d, address |-> address'[d], kind |-> kind, callback |-> callback]

\* Mutant: the pipe stays busy after the request.
PipeLeftBusy(d) == [control EXCEPT ![d].state = @]

\* An idle pipe; callback and setup_data of the last request are not read any
\* more.
PipeIdle(d) == [control EXCEPT ![d] = IdleControl]

\* Mutant: a busy pipe accepts another request.
DeviceControlUnguarded(d, callback, request, ctl, chs) ==
    /\ control' = [ctl EXCEPT ![d] = [state |-> "SETUP",
                                      callback |-> callback,
                                      request |-> request]]
    /\ Issue(NewPacket(d, "SETUP", "control_state_machine"), chs)

\* device_control drops the request, and never calls back, if the pipe of the
\* device is busy.
DeviceControl(d, callback, request, ctl, chs) ==
    IF ctl[d].state # "NONE"
    THEN /\ control' = ctl
         /\ NoIssue(chs)
    ELSE /\ control' = [ctl EXCEPT ![d] = [state |-> "SETUP",
                                           callback |-> callback,
                                           request |-> request]]
         /\ Issue(NewPacket(d, "SETUP", "control_state_machine"), chs)

\* The stage of the request that follows the one that succeeded.
NextStage(d) ==
    IF control[d].state = "SETUP" /\ control[d].request # "NODATA"
    THEN "DATA" ELSE "STATUS"

StageKind(d) ==
    IF NextStage(d) = "STATUS" THEN "STATUS" ELSE control[d].request

\* control_state_machine: a stage succeeded and another one follows.
ControlAdvance(d, r, chs) ==
    /\ r = "OK"
    /\ \/ control[d].state = "SETUP"
       \/ control[d].state = "DATA" /\ control[d].request # "IN"
    /\ UNCHANGED <<enumeration_run, address_temporary, address, estate, drv>>
    /\ control' = [control EXCEPT ![d].state = NextStage(d)]
    /\ Issue(NewPacket(d, StageKind(d), "control_state_machine"), chs)

\* control_state_machine: this answer ends the request.
ControlEnds(d, r) ==
    \/ control[d].state \in {"SETUP", "DATA"} /\ r # "OK"
    \/ control[d].state = "DATA" /\ control[d].request = "IN"
    \/ control[d].state = "STATUS"

\* The status that control->callback is given then.  The data stage of an IN
\* request has no status stage and reports what the read reported.
ControlResult(d, r) ==
    IF \/ control[d].state = "SETUP"
       \/ control[d].state = "DATA" /\ control[d].request # "IN"
    THEN "EFATAL" ELSE r

\* control_state_machine: an answer nobody waits for.
ControlIgnored(d, chs) ==
    /\ control[d].state = "NONE"
    /\ NoIssue(chs)
    /\ UNCHANGED coreVars

-----------------------------------------------------------------------------
(* The enumeration: one operator per case of device_enumerate that a       *)
(* callback can meet, with the cases it continues with.                    *)

\* Mutants: the lock, the state or the address is left as it was.
EnumTerminateKeepsLock(d, ctl, chs) ==
    /\ address' = [address EXCEPT ![d] = -1]
    /\ estate' = [estate EXCEPT ![d] = "SET_ADDRESS"]
    /\ control' = ctl
    /\ NoIssue(chs)
    /\ UNCHANGED <<enumeration_run, address_temporary, drv>>

EnumTerminateKeepsState(d, ctl, chs) ==
    /\ address' = [address EXCEPT ![d] = -1]
    /\ enumeration_run' = FALSE
    /\ control' = ctl
    /\ NoIssue(chs)
    /\ UNCHANGED <<address_temporary, drv, estate>>

EnumTerminateKeepsAddress(d, ctl, chs) ==
    /\ estate' = [estate EXCEPT ![d] = "SET_ADDRESS"]
    /\ enumeration_run' = FALSE
    /\ control' = ctl
    /\ NoIssue(chs)
    /\ UNCHANGED <<address_temporary, drv, address>>

\* device_enumeration_terminate
EnumTerminate(d, ctl, chs) ==
    /\ address' = [address EXCEPT ![d] = -1]
    /\ estate' = [estate EXCEPT ![d] = "SET_ADDRESS"]
    /\ enumeration_run' = FALSE
    /\ control' = ctl
    /\ NoIssue(chs)
    /\ UNCHANGED <<address_temporary, drv>>

\* The requests sent through the control pipe.
EnumRequest(d, next, request, ctl, chs) ==
    /\ estate' = [estate EXCEPT ![d] = next]
    /\ DeviceControl(d, "device_enumerate", request, ctl, chs)
    /\ UNCHANGED <<enumeration_run, address_temporary, drv>>

\* The configuration is read without the control pipe, packet by packet, and
\* without a status stage.
EnumRaw(d, next, kind, ctl, chs) ==
    /\ UNCHANGED address
    /\ estate' = [estate EXCEPT ![d] = next]
    /\ control' = ctl
    /\ Issue(NewPacket(d, kind, "device_enumerate"), chs)
    /\ UNCHANGED <<enumeration_run, address_temporary, drv>>

\* Mutant: off by one.
NextAddress(d) == address_temporary + 1

\* The address a device has after SET_ADDRESS.
NewAddress(d) == IF address[d] = 0 THEN address_temporary ELSE address[d]

SetAddressComplete(d, r, ctl, chs) ==
    /\ estate[d] = "SET_ADDRESS"
    /\ \/ /\ r = "OK"
          /\ address' = [address EXCEPT ![d] = NewAddress(d)]
          /\ EnumRequest(d, "DEVICE_DT_READ_COMPLETE", "IN", ctl, chs)
       \/ r # "OK" /\ EnumTerminate(d, ctl, chs)

\* A descriptor cut short after its eighth byte still tells the packet size,
\* and is read again with that size.
DeviceDtReadComplete(d, r, ctl, chs) ==
    /\ estate[d] = "DEVICE_DT_READ_COMPLETE"
    /\ \/ r = "OK" /\ EnumRaw(d, "CONFIGURATION_DT_HEADER_READ", "SETUP", ctl, chs)
       \/ /\ r = "ERRSIZ"
          /\ UNCHANGED address
          /\ EnumRequest(d, "DEVICE_DT_READ_COMPLETE", "IN", ctl, chs)
       \/ r # "OK" /\ EnumTerminate(d, ctl, chs)

ConfigurationSetupSent(d, r, ctl, chs) ==
    \/ /\ estate[d] = "CONFIGURATION_DT_HEADER_READ"
       /\ r = "OK"
       /\ EnumRaw(d, "CONFIGURATION_DT_HEADER_READ_COMPLETE", "IN", ctl, chs)
    \/ /\ estate[d] = "CONFIGURATION_DT_READ"
       /\ r = "OK"
       /\ EnumRaw(d, "CONFIGURATION_DT_READ_COMPLETE", "IN", ctl, chs)
    \/ /\ estate[d] \in {"CONFIGURATION_DT_HEADER_READ", "CONFIGURATION_DT_READ"}
       /\ r # "OK"
       /\ EnumTerminate(d, ctl, chs)

\* A header that came up short either was the whole configuration, or leaves
\* the enumeration where it is, with nothing in flight.
HeaderReadComplete(d, r, ctl, chs) ==
    /\ estate[d] = "CONFIGURATION_DT_HEADER_READ_COMPLETE"
    /\ \/ r = "OK" /\ EnumRaw(d, "CONFIGURATION_DT_READ", "SETUP", ctl, chs)
       \/ /\ r = "ERRSIZ"
          /\ UNCHANGED address
          /\ EnumRequest(d, "SET_CONFIGURATION_COMPLETE", "NODATA", ctl, chs)
       \/ /\ r = "ERRSIZ"
          /\ control' = ctl
          /\ NoIssue(chs)
          /\ UNCHANGED <<enumeration_run, address_temporary, address, estate, drv>>
       \/ r \notin {"OK", "ERRSIZ"} /\ EnumTerminate(d, ctl, chs)

ConfigurationReadComplete(d, r, ctl, chs) ==
    /\ estate[d] = "CONFIGURATION_DT_READ_COMPLETE"
    /\ \/ /\ r = "OK"
          /\ UNCHANGED address
          /\ EnumRequest(d, "SET_CONFIGURATION_COMPLETE", "NODATA", ctl, chs)
       \/ r # "OK" /\ EnumTerminate(d, ctl, chs)

\* device_register.  The descriptors decide which driver accepts the device,
\* if any.  A driver that matched an interface but did not find what it needs
\* is removed again, and device_remove takes the address away as well; the
\* search then goes on and may still bind a driver.
DeviceRegister(d) ==
    \E incompatible \in BOOLEAN, bound \in Drv :
       /\ drv' = [drv EXCEPT ![d] = bound]
       /\ address' = IF incompatible THEN [address EXCEPT ![d] = -1] ELSE address

SetConfigurationComplete(d, r, ctl, chs) ==
    /\ estate[d] = "SET_CONFIGURATION_COMPLETE"
    /\ \/ /\ r = "OK"
          /\ DeviceRegister(d)
          /\ estate' = [estate EXCEPT ![d] = "SET_ADDRESS"]
          /\ enumeration_run' = FALSE
          /\ control' = ctl
          /\ NoIssue(chs)
          /\ UNCHANGED address_temporary
       \/ r # "OK" /\ EnumTerminate(d, ctl, chs)

DeviceEnumerate(d, r, ctl, chs) ==
    \/ SetAddressComplete(d, r, ctl, chs)
    \/ DeviceDtReadComplete(d, r, ctl, chs)
    \/ ConfigurationSetupSent(d, r, ctl, chs)
    \/ HeaderReadComplete(d, r, ctl, chs)
    \/ ConfigurationReadComplete(d, r, ctl, chs)
    \/ SetConfigurationComplete(d, r, ctl, chs)

\* Mutants: the lock is not taken; the address is not saved.
EnumerationStartUnlocked(d, a, ctl, chs) ==
    /\ address_temporary' = a
    /\ address' = [address EXCEPT ![d] = 0]
    /\ estate' = [estate EXCEPT ![d] = "SET_ADDRESS"]
    /\ DeviceControl(d, "device_enumerate", "NODATA", ctl, chs)
    /\ UNCHANGED enumeration_run

EnumerationStartUnsaved(d, a, ctl, chs) ==
    /\ enumeration_run' = TRUE
    /\ address' = [address EXCEPT ![d] = 0]
    /\ estate' = [estate EXCEPT ![d] = "SET_ADDRESS"]
    /\ DeviceControl(d, "device_enumerate", "NODATA", ctl, chs)
    /\ address_temporary' = IF address_temporary = 0 THEN a ELSE address_temporary

\* device_enumeration_start, for a device whose own address is a.
EnumerationStart(d, a, ctl, chs) ==
    /\ enumeration_run' = TRUE
    /\ address_temporary' = a
    /\ address' = [address EXCEPT ![d] = 0]
    /\ estate' = [estate EXCEPT ![d] = "SET_ADDRESS"]
    /\ DeviceControl(d, "device_enumerate", "NODATA", ctl, chs)

-----------------------------------------------------------------------------
(* usbh_poll: the root ports.                                              *)

Connected(b) ==
    /\ PortEnabled(b)
    /\ EnumerationStart(Root(b), 1, PipeIdle(Root(b)), channels)
    /\ UNCHANGED drv

\* Mutant: the driver is not removed.
DeviceRemoveKeepsDriver(D) ==
    /\ address' = [d \in Device |-> IF d \in D THEN -1 ELSE address[d]]
    /\ UNCHANGED drv

\* device_remove, for each device of D.  The state of an unfinished enumeration,
\* the lock, the control pipe and the packets in flight stay as they are.
DeviceRemove(D) ==
    /\ address' = [d \in Device |-> IF d \in D THEN -1 ELSE address[d]]
    /\ drv' = [d \in Device |-> IF d \in D THEN "NULL" ELSE drv[d]]

\* Mutant: a disconnection gives back the lock, whoever holds it.
DisconnectedUnlocks(b) ==
    /\ PortGone(b)
    /\ control' = PipeIdle(Root(b))
    /\ DeviceRemove({d \in Device : d[1] = b})
    /\ enumeration_run' = FALSE
    /\ UNCHANGED <<address_temporary, estate>>

\* Every slot of the bus is removed, whatever was using it.
Disconnected(b) ==
    /\ PortGone(b)
    /\ control' = PipeIdle(Root(b))
    /\ DeviceRemove({d \in Device : d[1] = b})
    /\ UNCHANGED <<enumeration_run, address_temporary, estate>>

-----------------------------------------------------------------------------
(* A generic driver.                                                       *)

\* A transfer on an endpoint of the driver.
Transfers(d, chs) ==
    \E kind \in {"IN", "OUT"} : Issue(NewPacket(d, kind, "event"), chs)

DriverTransfer(d) ==
    /\ refused = NoPacket
    /\ drv[d] = "READY"
    /\ UNCHANGED <<coreVars, dpstate>>
    /\ Transfers(d, channels)

\* A request of the driver, or of the application through the driver; nothing
\* keeps it from asking while an earlier request is under way.
DriverControl(d) ==
    /\ refused = NoPacket
    /\ drv[d] = "READY"
    /\ UNCHANGED <<enumeration_run, address_temporary, address, estate, drv, dpstate>>
    /\ \E request \in Request :
          DeviceControl(d, "event", request, control, channels)

\* The callback of the driver.  A device that was removed has no driver data
\* left: the code then works on what lies at address 0, and nothing of the
\* state kept here is in reach.
DriverEvent(d, ctl, chs) ==
    /\ UNCHANGED <<enumeration_run, address_temporary, address, estate, drv>>
    /\ \/ control' = ctl /\ NoIssue(chs)
       \/ /\ drv[d] = "READY"
          /\ control' = ctl
          /\ Transfers(d, chs)
       \/ /\ drv[d] = "READY"
          /\ \E request \in Request : DeviceControl(d, "event", request, ctl, chs)

-----------------------------------------------------------------------------
(* The callbacks of packets.                                               *)

\* Callbacks that stay within the core.
CoreCallback(p, r, chs) ==
    \/ /\ p.callback = "control_state_machine"
       /\ \/ ControlAdvance(p.dev, r, chs)
          \/ ControlIgnored(p.dev, chs)
          \/ /\ ControlEnds(p.dev, r)
             /\ control[p.dev].callback = "device_enumerate"
             /\ DeviceEnumerate(p.dev, ControlResult(p.dev, r),
                                PipeIdle(p.dev), chs)
    \/ /\ p.callback = "device_enumerate"
       /\ DeviceEnumerate(p.dev, r, control, chs)

\* A request of a driver has ended.
DriverRequestEnds(p, r) ==
    /\ p.callback = "control_state_machine"
    /\ ControlEnds(p.dev, r)
    /\ control[p.dev].callback = "event"

PacketCallback(p, r, chs) ==
    \/ CoreCallback(p, r, chs)
    \/ /\ DriverRequestEnds(p, r)
       /\ DriverEvent(p.dev, PipeIdle(p.dev), chs)
    \/ /\ p.callback = "event"
       /\ DriverEvent(p.dev, control, chs)

\* poll_run found channel c finished.
Completion(c) ==
    /\ Answerable(c)
    /\ \E r \in Responses(channels[c]), left \in {NoPacket, Halting} :
          PacketCallback(channels[c], r, Released(c, left))
    /\ UNCHANGED dpstate

\* The callback of a packet that found no channel, inside usbh_read/write.
Refusal ==
    /\ refused # NoPacket
    /\ PacketCallback(refused, "EFATAL", channels)
    /\ UNCHANGED dpstate

Halted(c) == ChannelHalted(c) /\ UNCHANGED coreVars
Reset(b) == PortReset(b) /\ UNCHANGED coreVars

Next ==
    \/ \E b \in Buses :
          \/ Reset(b)
          \/ Connected(b)
          \/ Disconnected(b)
          \/ DriverTransfer(Root(b))
          \/ DriverControl(Root(b))
    \/ \E c \in Chan : Completion(c) \/ Halted(c)
    \/ Refusal

Spec == Init /\ [][Next]_vars

\* The main loop polls for ever, and a device that was sent a packet answers
\* it or the transfer fails: every packet calls back unless it is dropped.
Fairness ==
    /\ \A c \in Chan : WF_vars(Completion(c))
    /\ WF_vars(Refusal)

FairSpec == Spec /\ Fairness

-----------------------------------------------------------------------------
(* Properties.                                                             *)

Ep0Packet(p, d) == p \in Packet /\ p.dev = d /\ p.callback # "event"

\* Endpoint 0 of a root device never carries two transfers at once: neither
\* two stages of one request, nor a request of a driver beside the raw reads
\* of device_enumerate.
Ep0Exclusive ==
    \A b \in Buses, c \in Chan : Ep0Packet(channels[c], Root(b)) =>
        /\ ~Ep0Packet(refused, Root(b))
        /\ \A e \in Chan : Ep0Packet(channels[e], Root(b)) => e = c

Carries(p, d, callback, kind) ==
    p \in Packet /\ p.dev = d /\ p.callback = callback /\ p.kind = kind

\* A packet of d of this kind, with this callback, has not called back yet.
Awaits(d, callback, kind) ==
    \/ Carries(refused, d, callback, kind)
    \/ \E c \in Chan : Carries(channels[c], d, callback, kind)

\* The packet that a control pipe in a given state waits for.
StateKind(d) ==
    CASE control[d].state = "SETUP" -> "SETUP"
      [] control[d].state = "DATA" -> control[d].request
      [] OTHER -> "STATUS"

\* While the port is up, the control pipe of the root device is busy exactly
\* when the packet of its stage is outstanding: a busy pipe always gets an
\* answer, and no answer of an earlier request meets a later one.
ControlPipeBacked ==
    \A b \in Buses : dpstate[b] = "RUN" =>
        LET d == Root(b)
        IN  IF control[d].state = "NONE"
            THEN \A k \in Kind : ~Awaits(d, "control_state_machine", k)
            ELSE Awaits(d, "control_state_machine", StateKind(d))

Enumerating(d) == address[d] = 0 \/ estate[d] # "SET_ADDRESS"

RawKind ==
    [s \in {"CONFIGURATION_DT_HEADER_READ", "CONFIGURATION_DT_READ",
            "CONFIGURATION_DT_HEADER_READ_COMPLETE",
            "CONFIGURATION_DT_READ_COMPLETE"} |->
        IF s \in {"CONFIGURATION_DT_HEADER_READ", "CONFIGURATION_DT_READ"}
        THEN "SETUP" ELSE "IN"]

\* The header of the configuration came up short in a way device_enumerate
\* does nothing about.
HeaderDeadEnd(d) ==
    /\ estate[d] = "CONFIGURATION_DT_HEADER_READ_COMPLETE"
    /\ ~Awaits(d, "device_enumerate", "IN")

\* While the port is up, an enumeration waits for the answer its state is
\* about, through the pipe or raw, except in the dead end; and once it is
\* over nothing of it is outstanding.
EnumerationBacked ==
    \A b \in Buses : dpstate[b] = "RUN" =>
        LET d == Root(b)
            asked == control[d].state # "NONE"
                       /\ control[d].callback = "device_enumerate"
        IN  IF ~Enumerating(d)
            THEN ~asked /\ \A k \in Kind : ~Awaits(d, "device_enumerate", k)
            ELSE IF estate[d] \in DOMAIN RawKind
            THEN /\ control[d].state = "NONE"
                 /\ HeaderDeadEnd(d) \/ Awaits(d, "device_enumerate", RawKind[estate[d]])
            ELSE asked

\* A driver is bound only to a device whose port is up and whose enumeration
\* is over: usbh_poll never polls a driver of a device that is gone or is
\* being enumerated again, and no driver data is dropped without remove.
DriverOnlyWhenSettled ==
    \A b \in Buses : drv[Root(b)] # "NULL" =>
        dpstate[b] = "RUN" /\ ~Enumerating(Root(b))

\* While the port is up, a driver is only called back with its data in place.
CallbackHasDriver ==
    \A b \in Buses : dpstate[b] = "RUN" =>
        LET d == Root(b)
        IN  \/ drv[d] = "READY"
            \/ /\ \A k \in Kind : ~Awaits(d, "event", k)
               /\ control[d].state = "NONE" \/ control[d].callback # "event"

\* The lock outlives every enumeration only as long as some port is down:
\* with all ports up and enumerated, hubs may enumerate.
LockNotLeaked ==
    enumeration_run =>
        \E b \in Buses : dpstate[b] # "RUN" \/ Enumerating(Root(b))

\* With one bus, an enumeration in progress holds the lock.
LockHeld ==
    \A b \in Buses :
        dpstate[b] = "RUN" /\ Enumerating(Root(b)) /\ Buses = {b} => enumeration_run

PortPhase(b) ==
    CASE dpstate[b] # "RUN" -> "absent"
      [] dpstate[b] = "RUN" /\ Enumerating(Root(b)) -> "enumerating"
      [] OTHER -> IF drv[Root(b)] # "NULL" THEN "bound"
                  ELSE IF address[Root(b)] = -1 THEN "failed" ELSE "unclaimed"

RootPort == INSTANCE UsbhPort WITH phase <- [b \in Buses |-> PortPhase(b)],
                                   lock <- enumeration_run

\* The core implements the root ports of UsbhPort: a driver appears only at the
\* end of an enumeration, goes only with the port, and the lock changes hands
\* at these points and no others.
ImplementsPort == RootPort!Spec

\* The device descriptor is read again because it came up short.
ShortRetry(d) ==
    /\ estate[d] = "DEVICE_DT_READ_COMPLETE" /\ UNCHANGED estate
    /\ control[d].state = "DATA" /\ control'[d].state = "SETUP"

\* Every enumeration ends, or the port goes down, or the header dead end is
\* reached, unless the device cuts its descriptor short for ever.
EnumerationEnds ==
    \A b \in Buses :
        \/ []<><<ShortRetry(Root(b))>>_vars
        \/ (dpstate[b] = "RUN" /\ Enumerating(Root(b)))
              ~> (\/ dpstate[b] # "RUN" \/ ~Enumerating(Root(b))
                  \/ HeaderDeadEnd(Root(b)))

=============================================================================
