---------------------------- MODULE UsbhCoreProofs ----------------------------
(***************************************************************************)
(* The properties of UsbhCore, for any number of buses, device slots and   *)
(* channels.                                                               *)
(***************************************************************************)
EXTENDS UsbhCore, TLAPS

Carried == Packet \cup {NoPacket, Halting}

LEMMA RootIsDevice ==
    ASSUME NEW b \in Buses
    PROVE  Root(b) \in Device /\ Root(b)[1] = b
BY BusAssumption DEF Root, Device, Slot

LEMMA ZeroOneAddress == {-1, 0, 1} \subseteq Address
BY BusAssumption DEF Address

-----------------------------------------------------------------------------
(* What a callback, and what a poll of the core, leaves alone.             *)

\* The devices other than d are as before.
OthersKept(d) ==
    \A e \in Device \ {d} : /\ address'[e] = address[e]
                            /\ estate'[e] = estate[e]
                            /\ control'[e] = control[e]
                            /\ drv'[e] = drv[e]

\* At most one packet, of d, is added to chs.
Submits(d, chs) == NoIssue(chs) \/ \E p \in Packet : p.dev = d /\ Issue(p, chs)

CoreTypeOK ==
    /\ enumeration_run \in BOOLEAN
    /\ address_temporary \in Address
    /\ address \in [Device -> Address]
    /\ estate \in [Device -> EnumState]
    /\ control \in [Device -> Control]
    /\ drv \in [Device -> Drv]

LEMMA SubmitsTyped ==
    ASSUME NEW d, NEW chs \in [Chan -> Carried], Submits(d, chs)
    PROVE  channels' \in [Chan -> Carried] /\ refused' \in Packet \cup {NoPacket}
BY DEF Submits, NoIssue, Issue, Carried, FreeChannels

LEMMA NewPacketTyped ==
    ASSUME NEW d \in Device, address'[d] \in Address,
           NEW kind \in Kind, NEW callback \in Callback
    PROVE  /\ NewPacket(d, kind, callback) \in Packet
           /\ NewPacket(d, kind, callback).dev = d
BY DEF NewPacket, Packet

LEMMA DeviceControlTyped ==
    ASSUME NEW d \in Device, NEW ctl \in [Device -> Control], NEW chs,
           NEW request \in Request,
           NEW callback \in {"device_enumerate", "event"},
           address'[d] \in Address,
           DeviceControl(d, callback, request, ctl, chs)
    PROVE  /\ control' \in [Device -> Control]
           /\ \A e \in Device \ {d} : control'[e] = ctl[e]
           /\ Submits(d, chs)
<1>1. NewPacket(d, "SETUP", "control_state_machine") \in Packet
      /\ NewPacket(d, "SETUP", "control_state_machine").dev = d
  BY NewPacketTyped DEF Kind, Callback
<1>2. CASE ctl[d].state # "NONE"
  BY <1>2 DEF DeviceControl, Submits
<1>3. CASE ctl[d].state = "NONE"
  <2>1. [state |-> "SETUP", callback |-> callback, request |-> request] \in Control
    BY DEF Control, ControlState
  <2>2. control' = [ctl EXCEPT ![d] = [state |-> "SETUP", callback |-> callback,
                                       request |-> request]]
    BY <1>3 DEF DeviceControl
  <2>3. Issue(NewPacket(d, "SETUP", "control_state_machine"), chs)
    BY <1>3 DEF DeviceControl
  <2> QED
    BY <1>1, <2>1, <2>2, <2>3 DEF Submits
<1> QED
  BY <1>2, <1>3

LEMMA PipeIdleTyped ==
    ASSUME CoreTypeOK, NEW d \in Device
    PROVE  /\ PipeIdle(d) \in [Device -> Control]
           /\ PipeIdle(d)[d] = IdleControl
           /\ \A e \in Device \ {d} : PipeIdle(d)[e] = control[e]
BY DEF CoreTypeOK, PipeIdle, IdleControl, Control, ControlState, Request

\* One call of device_enumerate, with the control pipes ctl.
LEMMA EnumerateTyped ==
    ASSUME CoreTypeOK, NEW d \in Device, NEW r \in Status,
           NEW ctl \in [Device -> Control], NEW chs,
           \A e \in Device \ {d} : ctl[e] = control[e],
           DeviceEnumerate(d, r, ctl, chs)
    PROVE  CoreTypeOK' /\ OthersKept(d) /\ Submits(d, chs)
           /\ address_temporary' = address_temporary
<1> USE DEF CoreTypeOK
<1>a. ASSUME EnumTerminate(d, ctl, chs)
      PROVE  CoreTypeOK' /\ OthersKept(d) /\ Submits(d, chs)
             /\ address_temporary' = address_temporary
  BY <1>a, ZeroOneAddress DEF EnumTerminate, OthersKept, Submits, EnumState
<1>b. ASSUME NEW s \in EnumState, NEW request \in Request,
             EnumRequest(d, s, request, ctl, chs),
             address' \in [Device -> Address],
             \A e \in Device \ {d} : address'[e] = address[e]
      PROVE  CoreTypeOK' /\ OthersKept(d) /\ Submits(d, chs)
             /\ address_temporary' = address_temporary
  <2>1. DeviceControl(d, "device_enumerate", request, ctl, chs)
    BY <1>b DEF EnumRequest
  <2>2. /\ control' \in [Device -> Control]
        /\ \A e \in Device \ {d} : control'[e] = ctl[e]
        /\ Submits(d, chs)
    BY <1>b, <2>1, DeviceControlTyped
  <2> QED
    BY <1>b, <2>2 DEF EnumRequest, OthersKept
<1>c. ASSUME NEW s \in EnumState, NEW kind \in Kind, EnumRaw(d, s, kind, ctl, chs)
      PROVE  CoreTypeOK' /\ OthersKept(d) /\ Submits(d, chs)
             /\ address_temporary' = address_temporary
  <2>1. NewPacket(d, kind, "device_enumerate") \in Packet
        /\ NewPacket(d, kind, "device_enumerate").dev = d
    BY <1>c, NewPacketTyped DEF EnumRaw, Callback
  <2> QED
    BY <1>c, <2>1 DEF EnumRaw, OthersKept, Submits
<1>1. CASE SetAddressComplete(d, r, ctl, chs)
  <2>1. CASE r = "OK"
    <3>1. NewAddress(d) \in Address
      BY DEF NewAddress
    <3>2. /\ address' = [address EXCEPT ![d] = NewAddress(d)]
          /\ EnumRequest(d, "DEVICE_DT_READ_COMPLETE", "IN", ctl, chs)
      BY <1>1, <2>1 DEF SetAddressComplete
    <3> QED
      BY <1>b, <3>1, <3>2 DEF EnumState, Request
  <2>2. CASE r # "OK"
    BY <1>1, <1>a, <2>2 DEF SetAddressComplete
  <2> QED
    BY <2>1, <2>2
<1>2. CASE DeviceDtReadComplete(d, r, ctl, chs)
  BY <1>2, <1>a, <1>b, <1>c DEF DeviceDtReadComplete, EnumState, Request, Kind
<1>3. CASE ConfigurationSetupSent(d, r, ctl, chs)
  BY <1>3, <1>a, <1>c DEF ConfigurationSetupSent, EnumState, Kind
<1>4. CASE HeaderReadComplete(d, r, ctl, chs)
  <2>1. CASE EnumRaw(d, "CONFIGURATION_DT_READ", "SETUP", ctl, chs)
    BY <2>1, <1>c DEF EnumState, Kind
  <2>2. CASE UNCHANGED address
             /\ EnumRequest(d, "SET_CONFIGURATION_COMPLETE", "NODATA", ctl, chs)
    BY <2>2, <1>b DEF EnumState, Request
  <2>3. CASE /\ control' = ctl
             /\ NoIssue(chs)
             /\ UNCHANGED <<enumeration_run, address_temporary, address, estate, drv>>
    BY <2>3 DEF OthersKept, Submits
  <2>4. CASE EnumTerminate(d, ctl, chs)
    BY <2>4, <1>a
  <2> QED
    BY <1>4, <2>1, <2>2, <2>3, <2>4 DEF HeaderReadComplete
<1>5. CASE ConfigurationReadComplete(d, r, ctl, chs)
  BY <1>5, <1>a, <1>b DEF ConfigurationReadComplete, EnumState, Request
<1>6. CASE SetConfigurationComplete(d, r, ctl, chs)
  <2>1. CASE r = "OK"
    BY <1>6, <2>1, ZeroOneAddress
       DEF SetConfigurationComplete, DeviceRegister, OthersKept, Submits, EnumState
  <2>2. CASE r # "OK"
    BY <1>6, <1>a, <2>2 DEF SetConfigurationComplete
  <2> QED
    BY <2>1, <2>2
<1> QED
  BY <1>1, <1>2, <1>3, <1>4, <1>5, <1>6 DEF DeviceEnumerate

LEMMA TransfersTyped ==
    ASSUME CoreTypeOK, NEW d \in Device, NEW chs, address' = address, Transfers(d, chs)
    PROVE  Submits(d, chs)
BY NewPacketTyped DEF Transfers, Submits, Kind, Callback, CoreTypeOK

LEMMA DriverEventTyped ==
    ASSUME CoreTypeOK, NEW d \in Device, NEW ctl \in [Device -> Control], NEW chs,
           \A e \in Device \ {d} : ctl[e] = control[e],
           DriverEvent(d, ctl, chs)
    PROVE  CoreTypeOK' /\ OthersKept(d) /\ Submits(d, chs)
           /\ address_temporary' = address_temporary
<1> USE DEF CoreTypeOK
<1>1. CASE control' = ctl /\ NoIssue(chs)
  BY <1>1 DEF DriverEvent, OthersKept, Submits
<1>2. CASE \E request \in Request : DeviceControl(d, "event", request, ctl, chs)
  <2>1. /\ control' \in [Device -> Control]
        /\ \A e \in Device \ {d} : control'[e] = ctl[e]
        /\ Submits(d, chs)
    BY <1>2, DeviceControlTyped DEF DriverEvent
  <2> QED
    BY <2>1 DEF DriverEvent, OthersKept
<1>3. CASE control' = ctl /\ Transfers(d, chs)
  BY <1>3, TransfersTyped DEF DriverEvent, OthersKept
<1> QED
  BY <1>1, <1>2, <1>3 DEF DriverEvent

LEMMA AdvanceTyped ==
    ASSUME CoreTypeOK, NEW d \in Device, NEW r \in Status, NEW chs,
           ControlAdvance(d, r, chs)
    PROVE  CoreTypeOK' /\ OthersKept(d) /\ Submits(d, chs)
           /\ address_temporary' = address_temporary
<1> USE DEF CoreTypeOK
<1>1. NextStage(d) \in ControlState /\ StageKind(d) \in Kind
  BY DEF NextStage, StageKind, ControlState, Kind, Control, Request
<1>2. NewPacket(d, StageKind(d), "control_state_machine") \in Packet
      /\ NewPacket(d, StageKind(d), "control_state_machine").dev = d
  BY <1>1, NewPacketTyped DEF ControlAdvance, Callback
<1>3. [control[d] EXCEPT !.state = NextStage(d)] \in Control
  BY <1>1 DEF Control
<1>4. control' = [control EXCEPT ![d].state = NextStage(d)]
  BY DEF ControlAdvance
<1>5. control' \in [Device -> Control] /\ \A e \in Device \ {d} : control'[e] = control[e]
  BY <1>3, <1>4
<1> QED
  BY <1>2, <1>5 DEF ControlAdvance, OthersKept, Submits

LEMMA CallbackTyped ==
    ASSUME CoreTypeOK, NEW p \in Packet, NEW r \in Status, NEW chs,
           PacketCallback(p, r, chs)
    PROVE  CoreTypeOK' /\ OthersKept(p.dev) /\ Submits(p.dev, chs)
           /\ address_temporary' = address_temporary
<1> DEFINE d == p.dev
<1>0. d \in Device
  BY DEF Packet
<1>a. control \in [Device -> Control] /\ ControlResult(d, r) \in Status
  BY DEF CoreTypeOK, ControlResult, Status
<1>1. CASE ControlAdvance(d, r, chs)
  BY <1>0, <1>1, AdvanceTyped
<1>2. CASE ControlIgnored(d, chs)
  BY <1>2 DEF ControlIgnored, coreVars, CoreTypeOK, OthersKept, Submits
<1>3. CASE DeviceEnumerate(d, ControlResult(d, r), PipeIdle(d), chs)
  BY <1>0, <1>a, <1>3, PipeIdleTyped, EnumerateTyped
<1>4. CASE DeviceEnumerate(d, r, control, chs)
  BY <1>0, <1>a, <1>4, EnumerateTyped
<1>5. CASE DriverEvent(d, PipeIdle(d), chs)
  BY <1>0, <1>5, PipeIdleTyped, DriverEventTyped
<1>6. CASE DriverEvent(d, control, chs)
  BY <1>0, <1>a, <1>6, DriverEventTyped
<1> QED
  BY <1>1, <1>2, <1>3, <1>4, <1>5, <1>6 DEF PacketCallback, CoreCallback

-----------------------------------------------------------------------------
(* Type correctness.                                                       *)

LEMMA ReleasedTyped ==
    ASSUME TypeOK, NEW c \in Chan, NEW left \in {NoPacket, Halting}
    PROVE  Released(c, left) \in [Chan -> Carried]
BY DEF TypeOK, BusTypeOK, Released, Carried

LEMMA ResponsesTyped ==
    ASSUME NEW p
    PROVE  Responses(p) \subseteq Status
BY DEF Responses, ReadResponses, WriteResponses, Answered, Status

LEMMA FlushedTyped ==
    ASSUME TypeOK, NEW b \in Buses, NEW stopping
    PROVE  Flushed(b, stopping) \in [Chan -> Carried]
BY DEF TypeOK, BusTypeOK, Flushed, Carried

LEMMA TypeInit == Init => TypeOK
<1> SUFFICES ASSUME Init PROVE TypeOK
  OBVIOUS
<1>1. BusTypeOK
  BY DEF Init, BusInit, BusTypeOK, PollState
<1>2. IdleControl \in Control
  BY DEF IdleControl, Control, ControlState, Request
<1>3. control \in [Device -> Control]
  BY <1>2 DEF Init
<1>4. 0 \in Address /\ address \in [Device -> Address]
  BY ZeroOneAddress DEF Init
<1> QED
  BY <1>1, <1>3, <1>4 DEF Init, TypeOK, EnumState, Drv

\* A root port starts its enumeration with an idle pipe.
LEMMA ConnectedTyped ==
    ASSUME CoreTypeOK, NEW b \in Buses, Connected(b)
    PROVE  CoreTypeOK' /\ OthersKept(Root(b)) /\ Submits(Root(b), channels)
           /\ address_temporary' = 1
<1> DEFINE d == Root(b)
<1> USE DEF CoreTypeOK
<1>1. d \in Device
  BY RootIsDevice
<1>2. /\ EnumerationStart(d, 1, PipeIdle(d), channels)
      /\ drv' = drv
  BY DEF Connected
<1>3. /\ enumeration_run' = TRUE
      /\ address_temporary' = 1
      /\ address' = [address EXCEPT ![d] = 0]
      /\ estate' = [estate EXCEPT ![d] = "SET_ADDRESS"]
      /\ DeviceControl(d, "device_enumerate", "NODATA", PipeIdle(d), channels)
  BY <1>2 DEF EnumerationStart
<1>4. address' \in [Device -> Address]
  BY <1>3, ZeroOneAddress
<1>5. /\ PipeIdle(d) \in [Device -> Control]
      /\ \A e \in Device \ {d} : PipeIdle(d)[e] = control[e]
  BY <1>1, PipeIdleTyped
<1>6. /\ control' \in [Device -> Control]
      /\ \A e \in Device \ {d} : control'[e] = PipeIdle(d)[e]
      /\ Submits(d, channels)
  BY <1>1, <1>3, <1>4, <1>5, DeviceControlTyped DEF Request
<1> QED
  BY <1>1, <1>2, <1>3, <1>4, <1>5, <1>6, ZeroOneAddress DEF OthersKept, EnumState

LEMMA TypeStep == TypeOK /\ [Next]_vars => TypeOK'
<1> SUFFICES ASSUME TypeOK, [Next]_vars
             PROVE  TypeOK'
  OBVIOUS
<1>a. /\ channels \in [Chan -> Carried]
      /\ refused \in Packet \cup {NoPacket}
      /\ dpstate \in [Buses -> PollState]
      /\ CoreTypeOK
  BY DEF TypeOK, BusTypeOK, Carried, CoreTypeOK
<1>b. ASSUME channels' \in [Chan -> Carried], refused' \in Packet \cup {NoPacket},
             dpstate' \in [Buses -> PollState], CoreTypeOK'
      PROVE  TypeOK'
  BY <1>b DEF TypeOK, BusTypeOK, Carried, CoreTypeOK
<1>1. ASSUME NEW b \in Buses, Reset(b)
      PROVE  TypeOK'
  BY <1>1, <1>a, <1>b, FlushedTyped
     DEF Reset, PortReset, coreVars, CoreTypeOK, PollState
<1>2. ASSUME NEW b \in Buses, Connected(b)
      PROVE  TypeOK'
  <2>1. dpstate' \in [Buses -> PollState]
    BY <1>2, <1>a DEF Connected, PortEnabled, PollState
  <2> QED
    BY <1>2, <1>a, <1>b, <2>1, ConnectedTyped, SubmitsTyped
<1>3. ASSUME NEW b \in Buses, Disconnected(b)
      PROVE  TypeOK'
  <2>1. /\ channels' \in [Chan -> Carried] /\ refused' = refused
        /\ dpstate' \in [Buses -> PollState]
    BY <1>3, <1>a, FlushedTyped DEF Disconnected, PortGone, PollState
  <2>2. address' \in [Device -> Address] /\ drv' \in [Device -> Drv]
    BY <1>3, <1>a, ZeroOneAddress DEF Disconnected, DeviceRemove, Drv, CoreTypeOK
  <2>3. control' \in [Device -> Control]
    BY <1>3, <1>a, RootIsDevice, PipeIdleTyped DEF Disconnected
  <2>4. UNCHANGED <<enumeration_run, address_temporary, estate>>
    BY <1>3 DEF Disconnected
  <2> QED
    BY <1>a, <1>b, <2>1, <2>2, <2>3, <2>4 DEF CoreTypeOK
<1>4. ASSUME NEW b \in Buses, DriverTransfer(Root(b))
      PROVE  TypeOK'
  <2>1. CoreTypeOK' /\ dpstate' = dpstate
    BY <1>4, <1>a DEF DriverTransfer, coreVars, CoreTypeOK
  <2>2. Submits(Root(b), channels)
    BY <1>4, <1>a, RootIsDevice, TransfersTyped DEF DriverTransfer, coreVars
  <2> QED
    BY <1>a, <1>b, <2>1, <2>2, SubmitsTyped
<1>5. ASSUME NEW b \in Buses, DriverControl(Root(b))
      PROVE  TypeOK'
  <2>1. /\ UNCHANGED <<enumeration_run, address_temporary, address, estate, drv, dpstate>>
        /\ \E request \in Request :
              DeviceControl(Root(b), "event", request, control, channels)
    BY <1>5 DEF DriverControl
  <2>2. control' \in [Device -> Control] /\ Submits(Root(b), channels)
    BY <1>a, <2>1, RootIsDevice, DeviceControlTyped DEF CoreTypeOK
  <2> QED
    BY <1>a, <1>b, <2>1, <2>2, SubmitsTyped DEF CoreTypeOK
<1>6. ASSUME NEW c \in Chan, Completion(c)
      PROVE  TypeOK'
  <2>1. PICK r \in Responses(channels[c]), left \in {NoPacket, Halting} :
           PacketCallback(channels[c], r, Released(c, left))
    BY <1>6 DEF Completion
  <2>2. channels[c] \in Packet /\ r \in Status /\ dpstate' = dpstate
    BY <1>6, <2>1, ResponsesTyped DEF Completion, Answerable
  <2>3. CoreTypeOK' /\ Submits(channels[c].dev, Released(c, left))
    BY <1>a, <2>1, <2>2, CallbackTyped
  <2>4. Released(c, left) \in [Chan -> Carried]
    BY ReleasedTyped
  <2> QED
    BY <1>a, <1>b, <2>2, <2>3, <2>4, SubmitsTyped
<1>7. ASSUME NEW c \in Chan, Halted(c)
      PROVE  TypeOK'
  BY <1>7, <1>a, <1>b DEF Halted, ChannelHalted, Carried, coreVars, CoreTypeOK
<1>8. CASE Refusal
  <2>1. /\ refused \in Packet /\ "EFATAL" \in Status /\ dpstate' = dpstate
        /\ PacketCallback(refused, "EFATAL", channels)
    BY <1>8, <1>a DEF Refusal, Status
  <2> QED
    BY <1>a, <1>b, <2>1, CallbackTyped, SubmitsTyped
<1>9. CASE UNCHANGED vars
  BY <1>9 DEF vars, busVars, coreVars, TypeOK, BusTypeOK
<1> QED
  BY <1>1, <1>2, <1>3, <1>4, <1>5, <1>6, <1>7, <1>8, <1>9 DEF Next

\* The state keeps its types, whatever the drivers ask and the devices answer.
THEOREM TypeCorrect == Spec => []TypeOK
<1>1. Init => TypeOK
  BY TypeInit
<1>2. TypeOK /\ [Next]_vars => TypeOK'
  BY TypeStep
<1> QED
  BY <1>1, <1>2, PTL DEF Spec

-----------------------------------------------------------------------------
(* The lock.                                                               *)

\* Whoever ends an enumeration gives the lock back.
EndsReleaseLock ==
    enumeration_run' => /\ enumeration_run
                        /\ \A e \in Device : Enumerating(e) => Enumerating(e)'

LEMMA EnumerateReleasesLock ==
    ASSUME CoreTypeOK, NEW d \in Device, NEW r, NEW ctl, NEW chs,
           DeviceEnumerate(d, r, ctl, chs)
    PROVE  EndsReleaseLock
<1> USE DEF CoreTypeOK
<1>a. ASSUME EnumTerminate(d, ctl, chs)
      PROVE  EndsReleaseLock
  BY <1>a DEF EnumTerminate, EndsReleaseLock
<1>b. ASSUME enumeration_run' = enumeration_run,
             NEW s, s # "SET_ADDRESS", estate' = [estate EXCEPT ![d] = s],
             \A e \in Device \ {d} : address'[e] = address[e]
      PROVE  EndsReleaseLock
  BY <1>b DEF EndsReleaseLock, Enumerating
<1>1. CASE SetAddressComplete(d, r, ctl, chs)
  BY <1>1, <1>a, <1>b DEF SetAddressComplete, EnumRequest
<1>2. CASE DeviceDtReadComplete(d, r, ctl, chs)
  BY <1>2, <1>a, <1>b DEF DeviceDtReadComplete, EnumRequest, EnumRaw
<1>3. CASE ConfigurationSetupSent(d, r, ctl, chs)
  BY <1>3, <1>a, <1>b DEF ConfigurationSetupSent, EnumRaw
<1>4. CASE HeaderReadComplete(d, r, ctl, chs)
  BY <1>4, <1>a, <1>b
     DEF HeaderReadComplete, EnumRequest, EnumRaw, EndsReleaseLock, Enumerating
<1>5. CASE ConfigurationReadComplete(d, r, ctl, chs)
  BY <1>5, <1>a, <1>b DEF ConfigurationReadComplete, EnumRequest
<1>6. CASE SetConfigurationComplete(d, r, ctl, chs)
  BY <1>6, <1>a DEF SetConfigurationComplete, EndsReleaseLock
<1> QED
  BY <1>1, <1>2, <1>3, <1>4, <1>5, <1>6 DEF DeviceEnumerate

LEMMA CallbackReleasesLock ==
    ASSUME CoreTypeOK, NEW p \in Packet, NEW r, NEW chs, PacketCallback(p, r, chs)
    PROVE  EndsReleaseLock
<1>1. ASSUME UNCHANGED <<enumeration_run, address, estate>>
      PROVE  EndsReleaseLock
  BY <1>1 DEF EndsReleaseLock, Enumerating
<1>2. ASSUME NEW d, NEW ctl, DriverEvent(d, ctl, chs)
      PROVE  EndsReleaseLock
  BY <1>1, <1>2 DEF DriverEvent
<1>3. p.dev \in Device
  BY DEF Packet
<1>4. CASE CoreCallback(p, r, chs)
  BY <1>1, <1>3, <1>4, EnumerateReleasesLock
     DEF CoreCallback, ControlAdvance, ControlIgnored, coreVars
<1> QED
  BY <1>2, <1>4 DEF PacketCallback

LEMMA LockStep == TypeOK /\ LockNotLeaked /\ [Next]_vars => LockNotLeaked'
<1> SUFFICES ASSUME TypeOK, LockNotLeaked, [Next]_vars
             PROVE  LockNotLeaked'
  OBVIOUS
<1>a. CoreTypeOK /\ \A b \in Buses : Root(b) \in Device
  BY RootIsDevice DEF TypeOK, CoreTypeOK
<1>b. ASSUME EndsReleaseLock, dpstate' = dpstate
      PROVE  LockNotLeaked'
  BY <1>a, <1>b DEF EndsReleaseLock, LockNotLeaked, Root
<1>c. ASSUME NEW b \in Buses, dpstate'[b] # "RUN"
      PROVE  LockNotLeaked'
  BY <1>c DEF LockNotLeaked
<1>d. ASSUME UNCHANGED <<enumeration_run, address, estate, dpstate>>
      PROVE  LockNotLeaked'
  BY <1>d DEF LockNotLeaked, Enumerating, Root
<1>1. ASSUME NEW b \in Buses, Reset(b)
      PROVE  LockNotLeaked'
  BY <1>1, <1>c DEF Reset, PortReset, TypeOK, BusTypeOK
<1>2. ASSUME NEW b \in Buses, Connected(b)
      PROVE  LockNotLeaked'
  BY <1>2, <1>a DEF Connected, EnumerationStart, LockNotLeaked, Enumerating, CoreTypeOK, Root
<1>3. ASSUME NEW b \in Buses, Disconnected(b)
      PROVE  LockNotLeaked'
  BY <1>3, <1>c DEF Disconnected, PortGone, TypeOK, BusTypeOK
<1>4. ASSUME NEW b \in Buses, DriverTransfer(Root(b)) \/ DriverControl(Root(b))
      PROVE  LockNotLeaked'
  BY <1>4, <1>d DEF DriverTransfer, DriverControl, coreVars
<1>5. ASSUME NEW c \in Chan, Completion(c)
      PROVE  LockNotLeaked'
  BY <1>5, <1>a, <1>b, CallbackReleasesLock DEF Completion, Answerable
<1>6. ASSUME NEW c \in Chan, Halted(c)
      PROVE  LockNotLeaked'
  BY <1>6, <1>d DEF Halted, ChannelHalted, coreVars
<1>7. CASE Refusal
  <2>1. refused \in Packet /\ PacketCallback(refused, "EFATAL", channels)
        /\ dpstate' = dpstate
    BY <1>7 DEF Refusal, TypeOK, BusTypeOK
  <2> QED
    BY <1>a, <1>b, <2>1, CallbackReleasesLock
<1>8. CASE UNCHANGED vars
  BY <1>8, <1>d DEF vars, busVars, coreVars
<1> QED
  BY <1>1, <1>2, <1>3, <1>4, <1>5, <1>6, <1>7, <1>8 DEF Next

\* With all root ports up and enumerated, nobody holds the lock.
THEOREM LockNeverLeaked == Spec => []LockNotLeaked
<1>1. Init => LockNotLeaked
  BY DEF Init, LockNotLeaked
<1>2. TypeOK /\ LockNotLeaked /\ [Next]_vars => LockNotLeaked'
  BY LockStep
<1> QED
  BY <1>1, <1>2, TypeCorrect, PTL DEF Spec

-----------------------------------------------------------------------------
(* The invariant behind the other properties.  It says of each root port   *)
(* what may be outstanding on endpoint 0 of its device in each poll state. *)

Raw(s) == s \in DOMAIN RawKind

\* No packet of endpoint 0 of d is outstanding.
Silent(d) ==
    /\ ~Ep0Packet(refused, d)
    /\ \A c \in Chan : ~Ep0Packet(channels[c], d)

\* No transfer of the driver of d is outstanding.
EventPacket(p, d) == p \in Packet /\ p.dev = d /\ p.callback = "event"

NoEvents(d) ==
    /\ ~EventPacket(refused, d)
    /\ \A c \in Chan : ~EventPacket(channels[c], d)

\* Packet p is the only one outstanding on endpoint 0 of d.
Alone(d, p) ==
    /\ Ep0Packet(p, d)
    /\ \/ refused = p /\ \A c \in Chan : ~Ep0Packet(channels[c], d)
       \/ /\ ~Ep0Packet(refused, d)
          /\ \E c \in Chan : /\ channels[c] = p
                             /\ \A e \in Chan \ {c} : ~Ep0Packet(channels[e], d)

\* The port is up: the outstanding packet is the one that the control pipe, or
\* the raw state of the enumeration, waits for.
PipePacket(d, p) ==
    /\ p.callback = "control_state_machine"
    /\ control[d].state # "NONE"
    /\ p.kind = StateKind(d)
    /\ IF control[d].callback = "device_enumerate"
       THEN Enumerating(d) /\ ~Raw(estate[d])
       ELSE ~Enumerating(d) /\ drv[d] = "READY"

RawPacket(d, p) ==
    /\ p.callback = "device_enumerate"
    /\ control[d].state = "NONE"
    /\ Raw(estate[d])
    /\ p.kind = RawKind[estate[d]]

NothingAsked(d) ==
    /\ control[d].state = "NONE"
    /\ Enumerating(d) => estate[d] = "CONFIGURATION_DT_HEADER_READ_COMPLETE"

Up(d) ==
    /\ address_temporary # 0
    /\ Enumerating(d) => drv[d] = "NULL"
    /\ estate[d] # "SET_ADDRESS" => address[d] # 0
    /\ drv[d] # "READY" => NoEvents(d)
    /\ \/ Silent(d) /\ NothingAsked(d)
       \/ \E p \in Packet : Alone(d, p) /\ (PipePacket(d, p) \/ RawPacket(d, p))

\* The port is down, but answers of the last connection may still come: an
\* answer to the pipe is ignored; an answer to a raw read may bring the
\* enumeration back to the pipe, with an address where nobody answers.
Late(d, p) ==
    \/ /\ p.callback = "control_state_machine"
       /\ \/ control[d].state = "NONE"
          \/ /\ control[d].state = "SETUP"
             /\ control[d].callback = "device_enumerate"
             /\ p.address = -1
    \/ /\ p.callback = "device_enumerate"
       /\ control[d].state = "NONE"
       /\ Raw(estate[d])

Down(d) ==
    /\ address[d] = -1
    /\ drv[d] = "NULL"
    /\ \/ Silent(d) /\ control[d].state = "NONE"
       \/ \E p \in Packet : Alone(d, p) /\ Late(d, p)

\* The port is being reset: nothing at all is outstanding.
Flushing(d) ==
    /\ address[d] = -1
    /\ drv[d] = "NULL"
    /\ Silent(d)
    /\ NoEvents(d)

PortInv(b) ==
    CASE dpstate[b] = "RUN" -> Up(Root(b))
      [] dpstate[b] = "DISCONN" -> Down(Root(b))
      [] dpstate[b] = "DEVRST" -> Flushing(Root(b))

\* Packets travel on channels of their own bus, and only root devices send any.
RootPackets ==
    /\ \A c \in Chan : channels[c] \in Packet => channels[c].dev = Root(c[1])
    /\ refused \in Packet => \E b \in Buses : refused.dev = Root(b)

IInv == TypeOK /\ RootPackets /\ \A b \in Buses : PortInv(b)

\* What is left of it when devices behind a hub send packets too.
OwnChannels == \A c \in Chan : channels[c] \in Packet => channels[c].dev[1] = c[1]

PortsInv == TypeOK /\ OwnChannels /\ \A b \in Buses : PortInv(b)

LEMMA InvPorts == IInv => PortsInv
BY DEF IInv, PortsInv, RootPackets, OwnChannels, Root

-----------------------------------------------------------------------------
(* What an answer leaves behind, and what a submission adds.               *)

\* The channels chs carry nothing of endpoint 0, and no event, of d.
Clear(d, chs) == \A c \in Chan : ~Ep0Packet(chs[c], d)
EventFree(d, chs) == \A c \in Chan : ~EventPacket(chs[c], d)

LEMMA ChannelAnswered ==
    ASSUME TypeOK, NEW d, NEW p \in Packet, Alone(d, p),
           NEW c \in Chan, NEW left \in {NoPacket, Halting},
           refused = NoPacket, Ep0Packet(channels[c], d)
    PROVE  channels[c] = p /\ Clear(d, Released(c, left))
BY BusAssumption DEF TypeOK, BusTypeOK, Alone, Clear, Released, Ep0Packet

LEMMA RefusalAnswered ==
    ASSUME NEW d, NEW p \in Packet, Alone(d, p), Ep0Packet(refused, d)
    PROVE  refused = p /\ Clear(d, channels)
BY DEF Alone, Clear

\* An answer to something else changes nothing here.
LEMMA OtherAnswered ==
    ASSUME TypeOK, NEW d, NEW c \in Chan, NEW left \in {NoPacket, Halting}
    PROVE  /\ \A e \in Chan : Released(c, left)[e] = channels[e] \/ e = c
           /\ ~Ep0Packet(Released(c, left)[c], d)
           /\ ~EventPacket(Released(c, left)[c], d)
           /\ EventFree(d, channels) => EventFree(d, Released(c, left))
BY BusAssumption DEF TypeOK, BusTypeOK, Released, Ep0Packet, EventPacket, EventFree

LEMMA NothingSubmitted ==
    ASSUME NEW d, NEW chs, NoIssue(chs)
    PROVE  /\ Clear(d, chs) => Silent(d)'
           /\ EventFree(d, chs) => NoEvents(d)'
<1>1. ~Ep0Packet(NoPacket, d) /\ ~EventPacket(NoPacket, d)
  BY BusAssumption DEF Ep0Packet, EventPacket
<1> QED
  BY <1>1 DEF NoIssue, Clear, Silent, Ep0Packet, EventFree, NoEvents, EventPacket

LEMMA PacketSubmitted ==
    ASSUME NEW d, NEW chs \in [Chan -> Carried], NEW p \in Packet, Ep0Packet(p, d),
           Issue(p, chs)
    PROVE  /\ Clear(d, chs) => Alone(d, p)'
           /\ EventFree(d, chs) => NoEvents(d)'
<1>1. ~Ep0Packet(NoPacket, d) /\ ~EventPacket(NoPacket, d) /\ ~EventPacket(p, d)
  BY BusAssumption DEF Ep0Packet, EventPacket
<1>2. CASE channels' = chs /\ refused' = p
  BY <1>1, <1>2 DEF Clear, Alone, Ep0Packet, EventFree, NoEvents, EventPacket
<1>3. CASE \E c \in Chan : channels' = [chs EXCEPT ![c] = p] /\ refused' = NoPacket
  <2>1. PICK c \in Chan : channels' = [chs EXCEPT ![c] = p] /\ refused' = NoPacket
    BY <1>3
  <2>2. channels'[c] = p /\ \A e \in Chan \ {c} : channels'[e] = chs[e]
    BY <2>1
  <2>3. ASSUME Clear(d, chs)
        PROVE  Alone(d, p)'
    BY <1>1, <2>1, <2>2, <2>3 DEF Clear, Alone, Ep0Packet
  <2>4. ASSUME EventFree(d, chs)
        PROVE  NoEvents(d)'
    BY <1>1, <2>1, <2>2, <2>4 DEF EventFree, NoEvents, EventPacket
  <2> QED
    BY <2>3, <2>4
<1> QED
  BY <1>2, <1>3 DEF Issue, FreeChannels

\* The two ways of device_enumerate to ask something, and the way to end.
LEMMA EnumRequested ==
    ASSUME NEW d \in Device, CoreTypeOK, address' \in [Device -> Address],
           NEW ctl \in [Device -> Control], ctl[d].state = "NONE",
           NEW chs \in [Chan -> Carried], Clear(d, chs),
           NEW s \in EnumState, NEW request \in Request,
           EnumRequest(d, s, request, ctl, chs)
    PROVE  /\ EventFree(d, chs) => NoEvents(d)'
           /\ estate'[d] = s
           /\ control'[d] = [state |-> "SETUP", callback |-> "device_enumerate",
                             request |-> request]
           /\ \E p \in Packet : /\ Alone(d, p)'
                                /\ p.callback = "control_state_machine"
                                /\ p.kind = "SETUP"
                                /\ p.address = address'[d]
           /\ UNCHANGED <<address_temporary, drv>>
<1>0. PICK p \in Packet : p = NewPacket(d, "SETUP", "control_state_machine")
  BY NewPacketTyped DEF Kind, Callback
<1>1. Ep0Packet(p, d)
  BY <1>0 DEF Ep0Packet, NewPacket
<1>2. /\ control' = [ctl EXCEPT ![d] = [state |-> "SETUP", callback |-> "device_enumerate",
                                        request |-> request]]
      /\ Issue(p, chs)
  BY <1>0 DEF EnumRequest, DeviceControl
<1>3. Alone(d, p)' /\ (EventFree(d, chs) => NoEvents(d)')
  BY <1>1, <1>2, PacketSubmitted
<1>4. p.callback = "control_state_machine" /\ p.kind = "SETUP" /\ p.address = address'[d]
  BY <1>0 DEF NewPacket
<1> QED
  BY <1>1, <1>2, <1>3, <1>4 DEF EnumRequest, CoreTypeOK

LEMMA EnumRawAsked ==
    ASSUME NEW d \in Device, CoreTypeOK, NEW ctl,
           NEW chs \in [Chan -> Carried], Clear(d, chs),
           NEW s \in EnumState, NEW kind \in Kind, EnumRaw(d, s, kind, ctl, chs)
    PROVE  /\ EventFree(d, chs) => NoEvents(d)'
           /\ estate'[d] = s
           /\ control' = ctl
           /\ \E p \in Packet : /\ Alone(d, p)'
                                /\ p.callback = "device_enumerate"
                                /\ p.kind = kind
           /\ UNCHANGED <<address, address_temporary, drv>>
<1>0. PICK p \in Packet : p = NewPacket(d, kind, "device_enumerate")
  BY NewPacketTyped DEF EnumRaw, CoreTypeOK, Callback
<1>1. Ep0Packet(p, d) /\ Issue(p, chs)
  BY <1>0 DEF EnumRaw, Ep0Packet, NewPacket
<1>2. Alone(d, p)' /\ (EventFree(d, chs) => NoEvents(d)')
  BY <1>1, PacketSubmitted
<1>3. p.callback = "device_enumerate" /\ p.kind = kind
  BY <1>0 DEF NewPacket
<1> QED
  BY <1>1, <1>2, <1>3 DEF EnumRaw, CoreTypeOK

LEMMA EnumTerminated ==
    ASSUME NEW d \in Device, CoreTypeOK, NEW ctl,
           NEW chs, Clear(d, chs), EnumTerminate(d, ctl, chs)
    PROVE  /\ EventFree(d, chs) => NoEvents(d)'
           /\ Silent(d)'
           /\ address'[d] = -1 /\ estate'[d] = "SET_ADDRESS"
           /\ control' = ctl
           /\ UNCHANGED <<address_temporary, drv>>
BY NothingSubmitted DEF EnumTerminate, CoreTypeOK

\* The answer an enumeration waits for, while the port is up.
LEMMA EnumerateUp ==
    ASSUME NEW d \in Device, CoreTypeOK, NEW r \in Status,
           NEW ctl \in [Device -> Control], ctl[d].state = "NONE",
           NEW chs \in [Chan -> Carried], Clear(d, chs), EventFree(d, chs),
           Enumerating(d), drv[d] = "NULL", address_temporary # 0,
           estate[d] # "SET_ADDRESS" => address[d] # 0,
           DeviceEnumerate(d, r, ctl, chs)
    PROVE  Up(d)'
<1> USE DEF CoreTypeOK
<1>a. ASSUME EnumTerminate(d, ctl, chs)
      PROVE  Up(d)'
  BY <1>a, EnumTerminated DEF Up, NothingAsked, Enumerating
<1>b. ASSUME NEW s \in EnumState, NEW request \in Request,
             EnumRequest(d, s, request, ctl, chs),
             s # "SET_ADDRESS", ~Raw(s), address' \in [Device -> Address], address'[d] # 0
      PROVE  Up(d)'
  <2>1. PICK p \in Packet : /\ Alone(d, p)'
                            /\ p.callback = "control_state_machine"
                            /\ p.kind = "SETUP"
    BY <1>b, EnumRequested
  <2>2. /\ NoEvents(d)' /\ estate'[d] = s
        /\ control'[d] = [state |-> "SETUP", callback |-> "device_enumerate",
                          request |-> request]
        /\ drv' = drv /\ address_temporary' = address_temporary
    BY <1>b, EnumRequested
  <2>3. PipePacket(d, p)'
    BY <1>b, <2>1, <2>2 DEF PipePacket, StateKind, Enumerating
  <2> QED
    BY <1>b, <2>1, <2>2, <2>3 DEF Up
<1>c. ASSUME NEW s \in EnumState, Raw(s), EnumRaw(d, s, RawKind[s], ctl, chs),
             address[d] # 0
      PROVE  Up(d)'
  <2>1. RawKind[s] \in Kind
    BY <1>c DEF Raw, RawKind, Kind
  <2>2. PICK p \in Packet : /\ Alone(d, p)'
                            /\ p.callback = "device_enumerate"
                            /\ p.kind = RawKind[s]
    BY <1>c, <2>1, EnumRawAsked
  <2>3. /\ NoEvents(d)' /\ estate'[d] = s /\ control' = ctl
        /\ address' = address /\ drv' = drv /\ address_temporary' = address_temporary
    BY <1>c, <2>1, EnumRawAsked
  <2>4. RawPacket(d, p)'
    BY <1>c, <2>2, <2>3 DEF RawPacket, Raw, RawKind
  <2> QED
    BY <1>c, <2>2, <2>3, <2>4 DEF Up
<1>d. /\ RawKind["CONFIGURATION_DT_HEADER_READ"] = "SETUP"
      /\ RawKind["CONFIGURATION_DT_READ"] = "SETUP"
      /\ RawKind["CONFIGURATION_DT_HEADER_READ_COMPLETE"] = "IN"
      /\ RawKind["CONFIGURATION_DT_READ_COMPLETE"] = "IN"
      /\ \A s : Raw(s) <=> s \in {"CONFIGURATION_DT_HEADER_READ", "CONFIGURATION_DT_READ",
                                  "CONFIGURATION_DT_HEADER_READ_COMPLETE",
                                  "CONFIGURATION_DT_READ_COMPLETE"}
  BY DEF RawKind, Raw
<1>1. CASE SetAddressComplete(d, r, ctl, chs)
  <2>1. CASE r = "OK"
    <3>1. address' = [address EXCEPT ![d] = NewAddress(d)]
          /\ EnumRequest(d, "DEVICE_DT_READ_COMPLETE", "IN", ctl, chs)
      BY <1>1, <2>1 DEF SetAddressComplete
    <3>2. NewAddress(d) \in Address /\ NewAddress(d) # 0
      BY <1>1 DEF NewAddress, Enumerating, SetAddressComplete
    <3> QED
      BY <1>b, <1>d, <3>1, <3>2, ZeroOneAddress DEF EnumState, Request
  <2>2. CASE r # "OK"
    BY <1>1, <1>a, <2>2 DEF SetAddressComplete
  <2> QED
    BY <2>1, <2>2
<1>2. CASE DeviceDtReadComplete(d, r, ctl, chs)
  <2>1. CASE EnumRaw(d, "CONFIGURATION_DT_HEADER_READ", "SETUP", ctl, chs)
    BY <1>2, <1>c, <1>d, <2>1 DEF DeviceDtReadComplete, EnumState
  <2>2. CASE UNCHANGED address /\ EnumRequest(d, "DEVICE_DT_READ_COMPLETE", "IN", ctl, chs)
    BY <1>2, <1>b, <1>d, <2>2 DEF DeviceDtReadComplete, EnumState, Request
  <2> QED
    BY <1>2, <1>a, <2>1, <2>2 DEF DeviceDtReadComplete
<1>3. CASE ConfigurationSetupSent(d, r, ctl, chs)
  BY <1>3, <1>a, <1>c, <1>d DEF ConfigurationSetupSent, EnumState
<1>4. CASE HeaderReadComplete(d, r, ctl, chs)
  <2>0. estate[d] = "CONFIGURATION_DT_HEADER_READ_COMPLETE"
    BY <1>4 DEF HeaderReadComplete
  <2>1. CASE EnumRaw(d, "CONFIGURATION_DT_READ", "SETUP", ctl, chs)
    BY <2>0, <1>c, <1>d, <2>1 DEF EnumState
  <2>2. CASE UNCHANGED address
             /\ EnumRequest(d, "SET_CONFIGURATION_COMPLETE", "NODATA", ctl, chs)
    BY <2>0, <1>b, <1>d, <2>2 DEF EnumState, Request
  <2>3. CASE /\ control' = ctl
             /\ NoIssue(chs)
             /\ UNCHANGED <<enumeration_run, address_temporary, address, estate, drv>>
    BY <2>0, <2>3, NothingSubmitted DEF Up, NothingAsked, Enumerating
  <2>4. CASE EnumTerminate(d, ctl, chs)
    BY <1>a, <2>4
  <2> QED
    BY <1>4, <2>1, <2>2, <2>3, <2>4 DEF HeaderReadComplete
<1>5. CASE ConfigurationReadComplete(d, r, ctl, chs)
  BY <1>5, <1>a, <1>b, <1>d DEF ConfigurationReadComplete, EnumState, Request
<1>6. CASE SetConfigurationComplete(d, r, ctl, chs)
  <2>1. CASE r = "OK"
    <3>1. /\ address'[d] # 0 /\ estate'[d] = "SET_ADDRESS" /\ control' = ctl
          /\ address_temporary' # 0 /\ NoIssue(chs)
      BY <1>6, <2>1 DEF SetConfigurationComplete, DeviceRegister
    <3> QED
      BY <3>1, NothingSubmitted DEF Up, NothingAsked, Enumerating
  <2>2. CASE r # "OK"
    BY <1>6, <1>a, <2>2 DEF SetConfigurationComplete
  <2> QED
    BY <2>1, <2>2
<1> QED
  BY <1>1, <1>2, <1>3, <1>4, <1>5, <1>6 DEF DeviceEnumerate

\* A late answer to an enumeration whose port is down.
LEMMA EnumerateDown ==
    ASSUME NEW d \in Device, CoreTypeOK, NEW r \in Status,
           NEW ctl \in [Device -> Control], ctl[d].state = "NONE",
           NEW chs \in [Chan -> Carried], Clear(d, chs),
           address[d] = -1, drv[d] = "NULL", r = "EFATAL" \/ Raw(estate[d]),
           DeviceEnumerate(d, r, ctl, chs)
    PROVE  Down(d)'
<1> USE DEF CoreTypeOK
<1>a. ASSUME EnumTerminate(d, ctl, chs)
      PROVE  Down(d)'
  BY <1>a, EnumTerminated DEF Down
<1>b. ASSUME NEW s \in EnumState, NEW request \in Request,
             EnumRequest(d, s, request, ctl, chs), address' = address
      PROVE  Down(d)'
  <2>1. PICK p \in Packet : /\ Alone(d, p)'
                            /\ p.callback = "control_state_machine"
                            /\ p.address = address'[d]
    BY <1>b, EnumRequested
  <2>2. /\ control'[d] = [state |-> "SETUP", callback |-> "device_enumerate",
                          request |-> request]
        /\ drv' = drv
    BY <1>b, EnumRequested
  <2>3. Late(d, p)'
    BY <1>b, <2>1, <2>2 DEF Late
  <2> QED
    BY <1>b, <2>1, <2>2, <2>3 DEF Down
<1>c. ASSUME NEW s \in EnumState, Raw(s), NEW kind \in Kind, EnumRaw(d, s, kind, ctl, chs)
      PROVE  Down(d)'
  <2>1. PICK p \in Packet : Alone(d, p)' /\ p.callback = "device_enumerate"
    BY <1>c, EnumRawAsked
  <2>2. /\ estate'[d] = s /\ control' = ctl /\ address' = address /\ drv' = drv
    BY <1>c, EnumRawAsked
  <2>3. Late(d, p)'
    BY <1>c, <2>1, <2>2 DEF Late
  <2> QED
    BY <2>1, <2>2, <2>3 DEF Down
<1>d. \A s : Raw(s) <=> s \in {"CONFIGURATION_DT_HEADER_READ", "CONFIGURATION_DT_READ",
                              "CONFIGURATION_DT_HEADER_READ_COMPLETE",
                              "CONFIGURATION_DT_READ_COMPLETE"}
  BY DEF RawKind, Raw
<1>1. CASE SetAddressComplete(d, r, ctl, chs)
  BY <1>1, <1>a, <1>d DEF SetAddressComplete
<1>2. CASE DeviceDtReadComplete(d, r, ctl, chs)
  BY <1>2, <1>a, <1>d DEF DeviceDtReadComplete
<1>3. CASE ConfigurationSetupSent(d, r, ctl, chs)
  BY <1>3, <1>a, <1>c, <1>d DEF ConfigurationSetupSent, EnumState, Kind
<1>4. CASE HeaderReadComplete(d, r, ctl, chs)
  <2>1. CASE EnumRaw(d, "CONFIGURATION_DT_READ", "SETUP", ctl, chs)
    BY <1>c, <1>d, <2>1 DEF EnumState, Kind
  <2>2. CASE UNCHANGED address
             /\ EnumRequest(d, "SET_CONFIGURATION_COMPLETE", "NODATA", ctl, chs)
    BY <1>b, <2>2 DEF EnumState, Request
  <2>3. CASE /\ control' = ctl
             /\ NoIssue(chs)
             /\ UNCHANGED <<enumeration_run, address_temporary, address, estate, drv>>
    BY <2>3, NothingSubmitted DEF Down
  <2>4. CASE EnumTerminate(d, ctl, chs)
    BY <1>a, <2>4
  <2> QED
    BY <1>4, <2>1, <2>2, <2>3, <2>4 DEF HeaderReadComplete
<1>5. CASE ConfigurationReadComplete(d, r, ctl, chs)
  BY <1>5, <1>a, <1>b DEF ConfigurationReadComplete, EnumState, Request
<1>6. CASE SetConfigurationComplete(d, r, ctl, chs)
  BY <1>6, <1>a, <1>d DEF SetConfigurationComplete
<1> QED
  BY <1>1, <1>2, <1>3, <1>4, <1>5, <1>6 DEF DeviceEnumerate

\* The stage of a request that follows the one that succeeded.
LEMMA AdvanceUp ==
    ASSUME NEW d \in Device, CoreTypeOK, Up(d), NEW p \in Packet, Alone(d, p),
           PipePacket(d, p), NEW r \in Status, NEW chs \in [Chan -> Carried], Clear(d, chs),
           EventFree(d, channels) => EventFree(d, chs),
           ControlAdvance(d, r, chs)
    PROVE  Up(d)'
<1> USE DEF CoreTypeOK
<1>1. StageKind(d) \in Kind
  BY DEF NextStage, StageKind, Kind, Control, Request
<1>2. PICK q \in Packet : q = NewPacket(d, StageKind(d), "control_state_machine")
  BY <1>1, NewPacketTyped DEF ControlAdvance, Callback
<1>3. Ep0Packet(q, d) /\ q.callback = "control_state_machine" /\ q.kind = StageKind(d)
  BY <1>2 DEF Ep0Packet, NewPacket
<1>4. /\ Alone(d, q)'
      /\ EventFree(d, chs) => NoEvents(d)'
  BY <1>2, <1>3, PacketSubmitted DEF ControlAdvance
<1>5. /\ control'[d].state = NextStage(d)
      /\ control'[d].callback = control[d].callback
      /\ control'[d].request = control[d].request
  BY DEF ControlAdvance, Control
<1>6. NextStage(d) \in {"DATA", "STATUS"}
  BY DEF NextStage
<1>7. UNCHANGED <<address_temporary, address, estate, drv>>
  BY DEF ControlAdvance
<1>8. PipePacket(d, q)'
  BY <1>3, <1>5, <1>6, <1>7 DEF PipePacket, StateKind, StageKind, Enumerating
<1>9. drv[d] # "READY" => EventFree(d, channels)
  BY DEF Up, NoEvents, EventFree
<1> QED
  BY <1>4, <1>7, <1>8, <1>9 DEF Up, Enumerating

\* A request of a driver that finds the pipe idle.
LEMMA DriverAsks ==
    ASSUME NEW d \in Device, CoreTypeOK, Up(d), drv[d] = "READY",
           NEW ctl \in [Device -> Control], ctl[d].state = "NONE",
           NEW chs \in [Chan -> Carried], Clear(d, chs), NEW request \in Request,
           address_temporary' # 0, address'[d] = address[d],
           estate'[d] = estate[d], drv'[d] = drv[d],
           DeviceControl(d, "event", request, ctl, chs)
    PROVE  Up(d)'
<1> USE DEF CoreTypeOK
<1>1. PICK q \in Packet : q = NewPacket(d, "SETUP", "control_state_machine")
  BY NewPacketTyped DEF Kind, Callback
<1>2. /\ Ep0Packet(q, d) /\ q.callback = "control_state_machine" /\ q.kind = "SETUP"
      /\ Issue(q, chs)
  BY <1>1 DEF Ep0Packet, NewPacket, DeviceControl
<1>3. control'[d] = [state |-> "SETUP", callback |-> "event", request |-> request]
  BY DEF DeviceControl
<1>4. Alone(d, q)'
  BY <1>2, PacketSubmitted
<1>5. PipePacket(d, q)'
  BY <1>2, <1>3 DEF PipePacket, StateKind, Enumerating, Up
<1> QED
  BY <1>4, <1>5 DEF Up, Enumerating

\* A transfer that a driver starts when its request has ended.
LEMMA TransfersSilent ==
    ASSUME NEW d \in Device, CoreTypeOK, NEW chs \in [Chan -> Carried], Clear(d, chs),
           address' = address, Transfers(d, chs)
    PROVE  Silent(d)'
<1>1. PICK kind \in {"IN", "OUT"} : Issue(NewPacket(d, kind, "event"), chs)
  BY DEF Transfers
<1>2. PICK q \in Packet : q = NewPacket(d, kind, "event")
  BY NewPacketTyped DEF Kind, Callback, CoreTypeOK
<1>3. Issue(q, chs) /\ ~Ep0Packet(q, d)
  BY <1>1, <1>2 DEF NewPacket, Ep0Packet
<1> QED
  BY <1>3, BusAssumption DEF Issue, FreeChannels, Ep0Packet, Clear, Silent

\* A callback of a driver, with its request ended before.
LEMMA DriverEventIdleUp ==
    ASSUME NEW d \in Device, CoreTypeOK, Up(d), drv[d] = "READY",
           NEW ctl \in [Device -> Control], ctl[d].state = "NONE",
           NEW chs \in [Chan -> Carried], Clear(d, chs), DriverEvent(d, ctl, chs)
    PROVE  Up(d)'
<1>1. UNCHANGED <<address_temporary, address, estate, drv>>
  BY DEF DriverEvent
<1>2. ~Enumerating(d)
  BY DEF Up
<1>3. CASE control' = ctl /\ NoIssue(chs)
  BY <1>1, <1>2, <1>3, NothingSubmitted DEF Up, NothingAsked, Enumerating
<1>4. CASE \E request \in Request : DeviceControl(d, "event", request, ctl, chs)
  BY <1>1, <1>4, DriverAsks DEF Up
<1>5. CASE control' = ctl /\ Transfers(d, chs)
  BY <1>1, <1>2, <1>5, TransfersSilent DEF Up, NothingAsked, Enumerating
<1> QED
  BY <1>3, <1>4, <1>5 DEF DriverEvent

\* The channels chs carry on endpoint 0 of d what channels carries.
KeepsEp0(d, chs) ==
    /\ ~Ep0Packet(refused, d)
    /\ \A c \in Chan : Ep0Packet(chs[c], d) \/ Ep0Packet(channels[c], d)
                          => chs[c] = channels[c]

LEMMA NothingSubmittedKeeps ==
    ASSUME NEW d, NEW chs, KeepsEp0(d, chs), NoIssue(chs)
    PROVE  /\ Silent(d) => Silent(d)'
           /\ \A p \in Packet : Alone(d, p) => Alone(d, p)'
<1>1. ~Ep0Packet(NoPacket, d)
  BY BusAssumption DEF Ep0Packet
<1>2. channels' = chs /\ refused' = NoPacket
  BY DEF NoIssue
<1>3. ASSUME Silent(d)
      PROVE  Silent(d)'
  BY <1>1, <1>2, <1>3 DEF Silent, KeepsEp0, Ep0Packet
<1>4. ASSUME NEW p \in Packet, Alone(d, p)
      PROVE  Alone(d, p)'
  BY <1>1, <1>2, <1>4 DEF Alone, KeepsEp0, Ep0Packet
<1> QED
  BY <1>3, <1>4

LEMMA SilentClears ==
    ASSUME NEW d, NEW chs, KeepsEp0(d, chs), Silent(d)
    PROVE  Clear(d, chs)
BY DEF KeepsEp0, Silent, Clear

\* A transfer of a driver leaves endpoint 0 alone.
LEMMA TransfersKeep ==
    ASSUME CoreTypeOK, NEW d \in Device, NEW chs \in [Chan -> Carried],
           KeepsEp0(d, chs), address' = address, Transfers(d, chs)
    PROVE  /\ Silent(d) => Silent(d)'
           /\ \A p \in Packet : Alone(d, p) => Alone(d, p)'
<1>1. PICK kind \in {"IN", "OUT"} : Issue(NewPacket(d, kind, "event"), chs)
  BY DEF Transfers
<1>2. PICK q \in Packet : q = NewPacket(d, kind, "event")
  BY NewPacketTyped DEF Kind, Callback, CoreTypeOK
<1>3. Issue(q, chs) /\ ~Ep0Packet(q, d)
  BY <1>1, <1>2 DEF NewPacket, Ep0Packet
<1>4. /\ ~Ep0Packet(refused', d)
      /\ \A c \in Chan : Ep0Packet(channels'[c], d) \/ Ep0Packet(channels[c], d)
                            => channels'[c] = channels[c]
  BY <1>3, BusAssumption DEF Issue, FreeChannels, Ep0Packet, KeepsEp0
<1>5. Silent(d) => Silent(d)'
  BY <1>4 DEF Silent, Ep0Packet
<1>6. ASSUME NEW p \in Packet, Alone(d, p)
      PROVE  Alone(d, p)'
  BY <1>4, <1>6 DEF Alone, Ep0Packet, KeepsEp0
<1> QED
  BY <1>5, <1>6

\* ... and what the pipe and the enumeration wait for.
LEMMA TransfersUp ==
    ASSUME NEW d \in Device, CoreTypeOK, Up(d), drv[d] = "READY",
           NEW chs \in [Chan -> Carried], KeepsEp0(d, chs), Transfers(d, chs),
           UNCHANGED <<address_temporary, address, estate, drv, control>>
    PROVE  Up(d)'
<1>1. ~Enumerating(d)
  BY DEF Up
<1>2. /\ Silent(d) => Silent(d)'
      /\ \A p \in Packet : Alone(d, p) => Alone(d, p)'
  BY TransfersKeep
<1>3. \A p \in Packet : /\ PipePacket(d, p) => PipePacket(d, p)'
                        /\ RawPacket(d, p) => RawPacket(d, p)'
  BY DEF PipePacket, RawPacket, StateKind, Enumerating
<1>4. NothingAsked(d) => NothingAsked(d)'
  BY DEF NothingAsked, Enumerating
<1>5. \/ Silent(d)' /\ NothingAsked(d)'
      \/ \E p \in Packet : Alone(d, p)' /\ (PipePacket(d, p) \/ RawPacket(d, p))'
  BY <1>2, <1>3, <1>4 DEF Up
<1> QED
  BY <1>1, <1>5 DEF Up, Enumerating

\* A driver calls device_control, or starts a transfer, while its own request
\* may be under way.
LEMMA DriverEventBusyUp ==
    ASSUME NEW d \in Device, CoreTypeOK, Up(d), drv[d] = "READY",
           NEW chs \in [Chan -> Carried], KeepsEp0(d, chs), DriverEvent(d, control, chs)
    PROVE  Up(d)'
<1>1. UNCHANGED <<address_temporary, address, estate, drv>>
  BY DEF DriverEvent
<1>2. ~Enumerating(d)
  BY DEF Up
<1>3. ASSUME control' = control, NoIssue(chs)
      PROVE  Up(d)'
  <2>1. CASE Silent(d) /\ NothingAsked(d)
    BY <1>1, <1>3, <2>1, NothingSubmittedKeeps DEF Up, NothingAsked, Enumerating
  <2>2. CASE \E p \in Packet : Alone(d, p) /\ (PipePacket(d, p) \/ RawPacket(d, p))
    <3>1. PICK p \in Packet : Alone(d, p) /\ (PipePacket(d, p) \/ RawPacket(d, p))
      BY <2>2
    <3>2. Alone(d, p)'
      BY <1>3, <3>1, NothingSubmittedKeeps
    <3>3. (PipePacket(d, p) \/ RawPacket(d, p))'
      BY <1>1, <1>3, <3>1 DEF PipePacket, RawPacket, StateKind, Enumerating
    <3> QED
      BY <1>1, <3>2, <3>3 DEF Up, Enumerating
  <2> QED
    BY <2>1, <2>2 DEF Up
<1>4. CASE \E request \in Request : DeviceControl(d, "event", request, control, chs)
  <2>1. CASE control[d].state # "NONE"
    BY <1>3, <1>4, <2>1 DEF DeviceControl
  <2>2. CASE control[d].state = "NONE"
    <3>1. Silent(d)
      BY <1>2, <2>2 DEF Up, PipePacket, RawPacket, Enumerating, Raw, RawKind
    <3> QED
      BY <1>1, <1>4, <2>2, <3>1, SilentClears, DriverAsks DEF CoreTypeOK, Up
  <2> QED
    BY <2>1, <2>2
<1>5. CASE control' = control /\ Transfers(d, chs)
  BY <1>1, <1>5, TransfersUp
<1> QED
  BY <1>3, <1>4, <1>5 DEF DriverEvent

LEMMA DriverEventDown ==
    ASSUME NEW d \in Device, Down(d), NEW chs, KeepsEp0(d, chs), DriverEvent(d, control, chs)
    PROVE  Down(d)'
<1>1. UNCHANGED <<address, estate, drv, control>> /\ NoIssue(chs)
  BY DEF Down, DriverEvent
<1>2. CASE Silent(d) /\ control[d].state = "NONE"
  BY <1>1, <1>2, NothingSubmittedKeeps DEF Down
<1>3. CASE \E p \in Packet : Alone(d, p) /\ Late(d, p)
  <2>1. PICK p \in Packet : Alone(d, p) /\ Late(d, p)
    BY <1>3
  <2>2. Alone(d, p)' /\ Late(d, p)'
    BY <1>1, <2>1, NothingSubmittedKeeps DEF Late
  <2> QED
    BY <1>1, <2>2 DEF Down
<1> QED
  BY <1>2, <1>3 DEF Down

-----------------------------------------------------------------------------
(* One callback of a packet of d.                                          *)

\* chs is what is left after packet p has been answered.
Answers(d, p, chs) ==
    IF Ep0Packet(p, d)
    THEN /\ \A q \in Packet : Alone(d, q) => q = p
         /\ ~Silent(d)
         /\ Clear(d, chs)
         /\ EventFree(d, channels) => EventFree(d, chs)
    ELSE KeepsEp0(d, chs) /\ ~NoEvents(d)

LEMMA CallbackUp ==
    ASSUME NEW d \in Device, CoreTypeOK, Up(d), NEW p \in Packet, p.dev = d,
           NEW r \in Status, NEW chs \in [Chan -> Carried],
           Answers(d, p, chs), PacketCallback(p, r, chs)
    PROVE  Up(d)'
<1> USE DEF CoreTypeOK
<1>1. CASE p.callback = "event"
  <2>1. drv[d] = "READY" /\ KeepsEp0(d, chs)
    BY <1>1 DEF Up, Answers, Ep0Packet
  <2>2. DriverEvent(d, control, chs)
    BY <1>1 DEF PacketCallback, CoreCallback, DriverRequestEnds
  <2> QED
    BY <2>1, <2>2, DriverEventBusyUp
<1>2. CASE p.callback # "event"
  <2>1. Ep0Packet(p, d)
    BY <1>2 DEF Ep0Packet
  <2>2. /\ Alone(d, p) /\ (PipePacket(d, p) \/ RawPacket(d, p))
        /\ Clear(d, chs)
        /\ EventFree(d, channels) => EventFree(d, chs)
    BY <2>1 DEF Up, Answers
  <2>3. Enumerating(d) => EventFree(d, chs) /\ drv[d] = "NULL"
    BY <2>2 DEF Up, NoEvents, EventFree
  <2>4. PipeIdle(d) \in [Device -> Control] /\ PipeIdle(d)[d].state = "NONE"
    BY PipeIdleTyped DEF IdleControl
  <2>5. CASE p.callback = "device_enumerate"
    <3>1. DeviceEnumerate(d, r, control, chs) /\ RawPacket(d, p)
      BY <2>2, <2>5 DEF PacketCallback, CoreCallback, DriverRequestEnds, PipePacket
    <3>2. Enumerating(d) /\ control[d].state = "NONE"
      BY <3>1 DEF RawPacket, Enumerating, Raw, RawKind
    <3> QED
      BY <2>2, <2>3, <3>1, <3>2, EnumerateUp DEF Up
  <2>6. CASE p.callback = "control_state_machine"
    <3>0. PipePacket(d, p)
      BY <2>2, <2>6 DEF RawPacket
    <3>1. CASE ControlAdvance(d, r, chs)
      BY <2>2, <3>0, <3>1, AdvanceUp
    <3>2. CASE ControlIgnored(d, chs)
      BY <3>0, <3>2 DEF ControlIgnored, PipePacket
    <3>3. CASE /\ control[d].callback = "device_enumerate"
               /\ DeviceEnumerate(d, ControlResult(d, r), PipeIdle(d), chs)
      <4>1. Enumerating(d) /\ ControlResult(d, r) \in Status
        BY <3>0, <3>3 DEF PipePacket, ControlResult, Status
      <4> QED
        BY <2>2, <2>3, <2>4, <3>3, <4>1, EnumerateUp DEF Up
    <3>4. CASE DriverRequestEnds(p, r) /\ DriverEvent(d, PipeIdle(d), chs)
      <4>1. drv[d] = "READY"
        BY <3>0, <3>4 DEF PipePacket, DriverRequestEnds
      <4> QED
        BY <2>2, <2>4, <3>4, <4>1, DriverEventIdleUp
    <3> QED
      BY <2>6, <3>1, <3>2, <3>3, <3>4 DEF PacketCallback, CoreCallback
  <2> QED
    BY <1>2, <2>5, <2>6 DEF Packet, Callback
<1> QED
  BY <1>1, <1>2

LEMMA CallbackDown ==
    ASSUME NEW d \in Device, CoreTypeOK, Down(d), NEW p \in Packet, p.dev = d,
           NEW r \in Status, p.address = -1 => r # "OK", NEW chs \in [Chan -> Carried],
           Answers(d, p, chs), PacketCallback(p, r, chs)
    PROVE  Down(d)'
<1> USE DEF CoreTypeOK
<1>1. CASE p.callback = "event"
  <2>1. KeepsEp0(d, chs) /\ DriverEvent(d, control, chs)
    BY <1>1 DEF Answers, Ep0Packet, PacketCallback, CoreCallback, DriverRequestEnds
  <2> QED
    BY <2>1, DriverEventDown
<1>2. CASE p.callback # "event"
  <2>1. Ep0Packet(p, d)
    BY <1>2 DEF Ep0Packet
  <2>2. Alone(d, p) /\ Late(d, p) /\ Clear(d, chs)
    BY <2>1 DEF Down, Answers
  <2>3. PipeIdle(d) \in [Device -> Control] /\ PipeIdle(d)[d].state = "NONE"
    BY PipeIdleTyped DEF IdleControl
  <2>4. address[d] = -1 /\ drv[d] = "NULL"
    BY DEF Down
  <2>5. CASE p.callback = "device_enumerate"
    <3>1. /\ DeviceEnumerate(d, r, control, chs)
          /\ control[d].state = "NONE" /\ Raw(estate[d])
      BY <2>2, <2>5 DEF PacketCallback, CoreCallback, DriverRequestEnds, Late
    <3> QED
      BY <2>2, <2>4, <3>1, EnumerateDown
  <2>6. CASE p.callback = "control_state_machine" /\ control[d].state = "NONE"
    <3>1. ControlIgnored(d, chs)
      BY <2>6 DEF PacketCallback, CoreCallback, DriverRequestEnds, ControlAdvance, ControlEnds
    <3> QED
      BY <2>2, <2>4, <2>6, <3>1, NothingSubmitted DEF ControlIgnored, coreVars, Down
  <2>7. CASE /\ p.callback = "control_state_machine"
             /\ control[d].state = "SETUP"
    <3>1. control[d].callback = "device_enumerate" /\ r # "OK"
      BY <2>2, <2>7 DEF Late
    <3>2. ControlResult(d, r) = "EFATAL" /\ "EFATAL" \in Status
      BY <2>7 DEF ControlResult, Status
    <3>3. DeviceEnumerate(d, "EFATAL", PipeIdle(d), chs)
      BY <2>7, <3>1, <3>2
         DEF PacketCallback, CoreCallback, DriverRequestEnds, ControlAdvance, ControlIgnored
    <3> QED
      BY <2>2, <2>3, <2>4, <3>2, <3>3, EnumerateDown
  <2> QED
    BY <1>2, <2>2, <2>5, <2>6, <2>7 DEF Late
<1> QED
  BY <1>1, <1>2

-----------------------------------------------------------------------------
(* The ports a step is not about.                                          *)

Of(x, d) == x \in Packet /\ x.dev = d

\* The packets of d are where they were.
PacketsKept(d) ==
    /\ refused' = refused \/ (~Of(refused, d) /\ ~Of(refused', d))
    /\ \A c \in Chan : \/ channels'[c] = channels[c]
                       \/ ~Of(channels[c], d) /\ ~Of(channels'[c], d)

LEMMA PacketsKeptSame ==
    ASSUME NEW d, PacketsKept(d)
    PROVE  /\ Silent(d) => Silent(d)'
           /\ NoEvents(d) => NoEvents(d)'
           /\ \A p \in Packet : Alone(d, p) => Alone(d, p)'
<1>1. ASSUME Silent(d)
      PROVE  Silent(d)'
  BY <1>1 DEF PacketsKept, Silent, Ep0Packet, Of
<1>2. ASSUME NoEvents(d)
      PROVE  NoEvents(d)'
  BY <1>2 DEF PacketsKept, NoEvents, EventPacket, Of
<1>3. ASSUME NEW p \in Packet, Alone(d, p)
      PROVE  Alone(d, p)'
  <2>1. Of(p, d)
    BY <1>3 DEF Alone, Ep0Packet, Of
  <2>2. \A c \in Chan : Ep0Packet(channels'[c], d) => channels'[c] = channels[c]
    BY DEF PacketsKept, Ep0Packet, Of
  <2>3. Ep0Packet(refused', d) => refused' = refused
    BY DEF PacketsKept, Ep0Packet, Of
  <2>4. CASE refused = p /\ \A c \in Chan : ~Ep0Packet(channels[c], d)
    BY <1>3, <2>1, <2>2, <2>4 DEF PacketsKept, Alone, Ep0Packet
  <2>5. CASE /\ ~Ep0Packet(refused, d)
             /\ \E c \in Chan : /\ channels[c] = p
                                /\ \A e \in Chan \ {c} : ~Ep0Packet(channels[e], d)
    <3>1. PICK c \in Chan : /\ channels[c] = p
                            /\ \A e \in Chan \ {c} : ~Ep0Packet(channels[e], d)
      BY <2>5
    <3>2. channels'[c] = p
      BY <2>1, <3>1 DEF PacketsKept
    <3>3. \A e \in Chan \ {c} : ~Ep0Packet(channels'[e], d)
      BY <2>2, <3>1
    <3>4. ~Ep0Packet(refused', d)
      BY <2>3, <2>5
    <3> QED
      BY <1>3, <3>2, <3>3, <3>4 DEF Alone, Ep0Packet
  <2> QED
    BY <1>3, <2>4, <2>5 DEF Alone
<1> QED
  BY <1>1, <1>2, <1>3

LEMMA PortKept ==
    ASSUME NEW b \in Buses, PortInv(b), PacketsKept(Root(b)), dpstate \in [Buses -> PollState],
           dpstate'[b] = dpstate[b],
           address'[Root(b)] = address[Root(b)], estate'[Root(b)] = estate[Root(b)],
           control'[Root(b)] = control[Root(b)], drv'[Root(b)] = drv[Root(b)],
           address_temporary' = address_temporary \/ address_temporary' # 0
    PROVE  PortInv(b)'
<1> DEFINE d == Root(b)
<1>0. d' = d /\ Root(b)' = d
  BY DEF Root
<1>1. /\ Silent(d) => Silent(d)'
      /\ NoEvents(d) => NoEvents(d)'
      /\ \A p \in Packet : Alone(d, p) => Alone(d, p)'
  BY PacketsKeptSame
<1>2. CASE dpstate[b] = "RUN"
  <2>1. Up(d)
    BY <1>2 DEF PortInv
  <2>2. \A p \in Packet : /\ PipePacket(d, p) => PipePacket(d, p)'
                          /\ RawPacket(d, p) => RawPacket(d, p)'
    BY DEF PipePacket, RawPacket, StateKind, Enumerating
  <2>3. NothingAsked(d) => NothingAsked(d)'
    BY DEF NothingAsked, Enumerating
  <2>4. Enumerating(d)' = Enumerating(d)
    BY DEF Enumerating
  <2>5. \/ Silent(d)' /\ NothingAsked(d)'
        \/ \E p \in Packet : Alone(d, p)' /\ (PipePacket(d, p) \/ RawPacket(d, p))'
    BY <1>1, <2>1, <2>2, <2>3 DEF Up
  <2>6. /\ address_temporary' # 0
        /\ Enumerating(d)' => drv'[d] = "NULL"
        /\ estate'[d] # "SET_ADDRESS" => address'[d] # 0
        /\ drv'[d] # "READY" => NoEvents(d)'
    BY <1>1, <2>1, <2>4 DEF Up
  <2>7. Up(d)'
    BY <2>5, <2>6 DEF Up
  <2> QED
    BY <1>0, <1>2, <2>7 DEF PortInv
<1>3. CASE dpstate[b] = "DISCONN"
  <2>1. Down(d)
    BY <1>3 DEF PortInv
  <2>2. \A p \in Packet : Late(d, p) => Late(d, p)'
    BY DEF Late
  <2>3. Down(d)'
    BY <1>1, <2>1, <2>2 DEF Down
  <2> QED
    BY <1>0, <1>3, <2>3 DEF PortInv
<1>4. CASE dpstate[b] = "DEVRST"
  <2>1. Flushing(d)'
    BY <1>1, <1>4 DEF PortInv, Flushing
  <2> QED
    BY <1>0, <1>4, <2>1 DEF PortInv
<1> QED
  BY <1>2, <1>3, <1>4 DEF PollState

\* Channels from which nothing but packets of d was taken, and to which nothing
\* but a packet of d is added.
TakenFrom(d, chs) ==
    \A c \in Chan : \/ chs[c] = channels[c]
                    \/ Of(channels[c], d) /\ chs[c] \in {NoPacket, Halting}

LEMMA SubmitsKeepsOthers ==
    ASSUME NEW d \in Device, NEW chs \in [Chan -> Carried],
           TakenFrom(d, chs), refused = NoPacket \/ Of(refused, d), Submits(d, chs)
    PROVE  \A e \in Device \ {d} : PacketsKept(e)
<1>1. \A e : ~Of(NoPacket, e) /\ ~Of(Halting, e)
  BY BusAssumption DEF Of
<1>2. CASE NoIssue(chs)
  BY <1>1, <1>2 DEF NoIssue, PacketsKept, TakenFrom, Of
<1>3. CASE \E p \in Packet : p.dev = d /\ Issue(p, chs)
  <2>1. PICK p \in Packet : p.dev = d /\ Issue(p, chs)
    BY <1>3
  <2>2. CASE channels' = chs /\ refused' = p
    BY <1>1, <2>1, <2>2 DEF PacketsKept, TakenFrom, Of
  <2>3. CASE \E c \in Chan : /\ chs[c] = NoPacket
                             /\ channels' = [chs EXCEPT ![c] = p] /\ refused' = NoPacket
    <3>1. PICK c \in Chan : /\ chs[c] = NoPacket
                            /\ channels' = [chs EXCEPT ![c] = p] /\ refused' = NoPacket
      BY <2>3
    <3>2. channels'[c] = p /\ \A x \in Chan \ {c} : channels'[x] = chs[x]
      BY <3>1
    <3>3. ASSUME NEW e \in Device \ {d}
          PROVE  PacketsKept(e)
      <4>1. ~Of(channels[c], e) /\ ~Of(channels'[c], e)
        BY <1>1, <2>1, <3>1, <3>2, <3>3 DEF TakenFrom, Of
      <4> QED
        BY <1>1, <2>1, <3>1, <3>2, <3>3, <4>1 DEF PacketsKept, TakenFrom, Of
    <3> QED
      BY <3>3
  <2> QED
    BY <2>1, <2>2, <2>3 DEF Issue, FreeChannels
<1> QED
  BY <1>2, <1>3 DEF Submits

\* A packet goes to a channel of its bus.
LEMMA SubmitsOwnChannels ==
    ASSUME OwnChannels, NEW d \in Device, NEW chs \in [Chan -> Carried],
           TakenFrom(d, chs), Submits(d, chs)
    PROVE  OwnChannels'
<1>1. \A c \in Chan : chs[c] \in Packet => chs[c].dev[1] = c[1]
  BY BusAssumption DEF TakenFrom, OwnChannels
<1>2. CASE NoIssue(chs)
  BY <1>1, <1>2 DEF NoIssue, OwnChannels
<1>3. CASE \E p \in Packet : p.dev = d /\ Issue(p, chs)
  BY <1>1, <1>3 DEF Issue, FreeChannels, OwnChannels
<1> QED
  BY <1>2, <1>3 DEF Submits

\* Only root devices send packets if only they did and it is their turn.
LEMMA SubmitsFromRoot ==
    ASSUME RootPackets, NEW b \in Buses, NEW chs \in [Chan -> Carried],
           TakenFrom(Root(b), chs), Submits(Root(b), chs)
    PROVE  RootPackets'
<1>0. Root(b)[1] = b
  BY RootIsDevice
<1>1. \A c \in Chan : chs[c] \in Packet => chs[c].dev = Root(c[1])
  BY BusAssumption DEF TakenFrom, RootPackets
<1>2. CASE NoIssue(chs)
  BY <1>1, <1>2, BusAssumption DEF NoIssue, RootPackets, Root
<1>3. CASE \E p \in Packet : p.dev = Root(b) /\ Issue(p, chs)
  <2>1. PICK p \in Packet : p.dev = Root(b) /\ Issue(p, chs)
    BY <1>3
  <2>2. CASE channels' = chs /\ refused' = p
    BY <1>1, <2>1, <2>2 DEF RootPackets, Root
  <2>3. CASE \E c \in Chan : /\ c[1] = b
                             /\ channels' = [chs EXCEPT ![c] = p] /\ refused' = NoPacket
    BY <1>1, <2>1, <2>3, BusAssumption DEF RootPackets, Root
  <2> QED
    BY <1>0, <2>1, <2>2, <2>3 DEF Issue, FreeChannels
<1> QED
  BY <1>2, <1>3 DEF Submits

-----------------------------------------------------------------------------
(* Every step keeps the invariant.                                         *)

\* A step about device d leaves the root ports alone, but for the one it may be in.
RootsKept(d) ==
    \A a \in Buses : Root(a) # d =>
        /\ dpstate'[a] = dpstate[a]
        /\ address'[Root(a)] = address[Root(a)]
        /\ estate'[Root(a)] = estate[Root(a)]
        /\ control'[Root(a)] = control[Root(a)]
        /\ drv'[Root(a)] = drv[Root(a)]

LEMMA OneDeviceStep ==
    ASSUME PortsInv, NEW d \in Device, NEW chs \in [Chan -> Carried],
           TakenFrom(d, chs), refused = NoPacket \/ Of(refused, d), Submits(d, chs),
           RootsKept(d), address_temporary' = address_temporary \/ address_temporary' # 0,
           \A b \in Buses : Root(b) = d => PortInv(b)'
    PROVE  OwnChannels' /\ \A a \in Buses : PortInv(a)'
<1>1. OwnChannels' /\ \A e \in Device \ {d} : PacketsKept(e)
  BY SubmitsKeepsOthers, SubmitsOwnChannels DEF PortsInv
<1>2. ASSUME NEW a \in Buses, Root(a) # d
      PROVE  PortInv(a)'
  <2>1. Root(a) \in Device \ {d}
    BY <1>2, RootIsDevice
  <2> QED
    BY <1>1, <1>2, <2>1, PortKept DEF PortsInv, RootsKept, TypeOK, BusTypeOK
<1> QED
  BY <1>1, <1>2

\* ... and the step of a root device, when the other devices are left alone.
LEMMA OnePortStep ==
    ASSUME PortsInv, NEW b \in Buses, NEW chs \in [Chan -> Carried],
           TakenFrom(Root(b), chs), refused = NoPacket \/ Of(refused, Root(b)),
           Submits(Root(b), chs), OthersKept(Root(b)),
           \A a \in Buses \ {b} : dpstate'[a] = dpstate[a],
           address_temporary' = address_temporary \/ address_temporary' # 0,
           PortInv(b)'
    PROVE  OwnChannels' /\ \A a \in Buses : PortInv(a)'
<1>1. Root(b) \in Device /\ \A a \in Buses : Root(a) = Root(b) => a = b
  BY RootIsDevice DEF Root
<1>2. RootsKept(Root(b))
  BY <1>1, RootIsDevice DEF RootsKept, OthersKept
<1> QED
  BY <1>1, <1>2, OneDeviceStep

\* Packet p of root port b is answered with r, and chs is left.
CallbackOf(b, p, r, chs) ==
    /\ p.dev = Root(b)
    /\ p.address = -1 => r # "OK"
    /\ TakenFrom(Root(b), chs)
    /\ refused = NoPacket \/ Of(refused, Root(b))
    /\ Answers(Root(b), p, chs)
    /\ dpstate' = dpstate
    /\ PacketCallback(p, r, chs)

SomeCallback ==
    \E b \in Buses, p \in Packet, r \in Status, chs \in [Chan -> Carried] :
        CallbackOf(b, p, r, chs)

LEMMA CallbackStep ==
    ASSUME PortsInv, SomeCallback
    PROVE  OwnChannels' /\ \A a \in Buses : PortInv(a)'
<1>p. PICK b \in Buses, p \in Packet, r \in Status, chs \in [Chan -> Carried] :
         CallbackOf(b, p, r, chs)
  BY DEF SomeCallback
<1>q. /\ p.dev = Root(b) /\ (p.address = -1 => r # "OK")
      /\ TakenFrom(Root(b), chs) /\ (refused = NoPacket \/ Of(refused, Root(b)))
      /\ Answers(Root(b), p, chs) /\ dpstate' = dpstate /\ PacketCallback(p, r, chs)
  BY <1>p DEF CallbackOf
<1> DEFINE d == Root(b)
<1>0. CoreTypeOK /\ d \in Device /\ dpstate[b] \in PollState
  BY RootIsDevice DEF PortsInv, TypeOK, BusTypeOK, CoreTypeOK
<1>1. /\ OthersKept(d) /\ Submits(d, chs)
      /\ address_temporary' = address_temporary
  BY <1>0, <1>q, CallbackTyped
<1>2. Root(b)' = d
  BY DEF Root
<1>3. CASE dpstate[b] = "RUN"
  <2>1. Up(d)
    BY <1>3 DEF PortsInv, PortInv
  <2>2. Up(d)'
    BY <1>0, <1>q, <2>1, CallbackUp
  <2>3. PortInv(b)'
    BY <1>2, <1>3, <1>q, <2>2 DEF PortInv
  <2> QED
    BY <1>1, <1>q, <2>3, OnePortStep
<1>4. CASE dpstate[b] = "DISCONN"
  <2>1. Down(d)
    BY <1>4 DEF PortsInv, PortInv
  <2>2. Down(d)'
    BY <1>0, <1>q, <2>1, CallbackDown
  <2>3. PortInv(b)'
    BY <1>2, <1>4, <1>q, <2>2 DEF PortInv
  <2> QED
    BY <1>1, <1>q, <2>3, OnePortStep
<1>5. CASE dpstate[b] = "DEVRST"
  <2>1. Silent(d) /\ NoEvents(d)
    BY <1>5 DEF PortsInv, PortInv, Flushing
  <2> QED
    BY <1>q, <2>1 DEF Answers
<1> QED
  BY <1>0, <1>3, <1>4, <1>5 DEF PollState

\* A channel is answered, or the packet that found none, of a device that has at
\* most one packet on endpoint 0.
LEMMA DeviceAnswers ==
    ASSUME TypeOK, NEW c \in Chan, Answerable(c), NEW d, channels[c].dev = d,
           NEW left \in {NoPacket, Halting},
           Silent(d) \/ \E q \in Packet : Alone(d, q)
    PROVE  Answers(d, channels[c], Released(c, left))
<1> DEFINE p == channels[c]
           chs == Released(c, left)
<1>1. p \in Packet /\ refused = NoPacket
  BY DEF Answerable
<1>2. ~Ep0Packet(refused, d)
  BY <1>1, BusAssumption DEF Ep0Packet
<1>3. /\ \A e \in Chan : chs[e] = channels[e] \/ e = c
      /\ ~Ep0Packet(chs[c], d)
      /\ EventFree(d, channels) => EventFree(d, chs)
  BY OtherAnswered
<1>4. CASE Ep0Packet(p, d)
  <2>1. ~Silent(d)
    BY <1>4 DEF Silent
  <2>2. ASSUME NEW q \in Packet, Alone(d, q)
        PROVE  q = p /\ Clear(d, chs)
    BY <1>1, <1>4, <2>2, ChannelAnswered
  <2> QED
    BY <1>3, <1>4, <2>1, <2>2 DEF Answers
<1>5. CASE ~Ep0Packet(p, d)
  <2>1. EventPacket(p, d)
    BY <1>1, <1>5 DEF Ep0Packet, EventPacket
  <2>2. ~NoEvents(d)
    BY <2>1 DEF NoEvents
  <2>3. KeepsEp0(d, chs)
    BY <1>2, <1>3, <1>5 DEF KeepsEp0
  <2> QED
    BY <1>5, <2>2, <2>3 DEF Answers
<1> QED
  BY <1>4, <1>5

LEMMA DeviceRefusalAnswers ==
    ASSUME refused \in Packet, NEW d, refused.dev = d,
           Silent(d) \/ \E q \in Packet : Alone(d, q)
    PROVE  Answers(d, refused, channels)
<1>1. CASE Ep0Packet(refused, d)
  <2>1. ~Silent(d)
    BY <1>1 DEF Silent
  <2>2. ASSUME NEW q \in Packet, Alone(d, q)
        PROVE  q = refused /\ Clear(d, channels)
    BY <1>1, <2>2, RefusalAnswered
  <2> QED
    BY <1>1, <2>1, <2>2 DEF Answers
<1>2. CASE ~Ep0Packet(refused, d)
  <2>1. EventPacket(refused, d)
    BY <1>2 DEF Ep0Packet, EventPacket
  <2>2. ~NoEvents(d) /\ KeepsEp0(d, channels)
    BY <1>2, <2>1 DEF NoEvents, KeepsEp0
  <2> QED
    BY <1>2, <2>2 DEF Answers
<1> QED
  BY <1>1, <1>2

LEMMA PortInvCases ==
    ASSUME PortsInv, NEW b \in Buses
    PROVE  \/ dpstate[b] = "RUN" /\ Up(Root(b))
           \/ dpstate[b] = "DISCONN" /\ Down(Root(b))
           \/ dpstate[b] = "DEVRST" /\ Flushing(Root(b))
BY DEF PortsInv, PortInv, TypeOK, BusTypeOK, PollState

\* Root devices are of that kind.
LEMMA SilentOrAlone ==
    ASSUME PortsInv, NEW b \in Buses
    PROVE  Silent(Root(b)) \/ \E p \in Packet : Alone(Root(b), p)
BY PortInvCases DEF Up, Down, Flushing

LEMMA CompletionAnswers ==
    ASSUME PortsInv, NEW c \in Chan, Answerable(c), NEW b \in Buses,
           channels[c].dev = Root(b), NEW left \in {NoPacket, Halting}
    PROVE  /\ Released(c, left) \in [Chan -> Carried]
           /\ TakenFrom(Root(b), Released(c, left))
           /\ Answers(Root(b), channels[c], Released(c, left))
<1>1. TypeOK /\ channels[c] \in Packet
  BY DEF PortsInv, Answerable
<1>2. TakenFrom(Root(b), Released(c, left))
  BY <1>1 DEF TakenFrom, Of, Released, TypeOK, BusTypeOK
<1> QED
  BY <1>1, <1>2, ReleasedTyped, SilentOrAlone, DeviceAnswers

LEMMA RefusalAnswers ==
    ASSUME PortsInv, refused \in Packet, NEW b \in Buses, refused.dev = Root(b)
    PROVE  /\ channels \in [Chan -> Carried]
           /\ TakenFrom(Root(b), channels) /\ Of(refused, Root(b))
           /\ Answers(Root(b), refused, channels)
<1>1. channels \in [Chan -> Carried] /\ TakenFrom(Root(b), channels) /\ Of(refused, Root(b))
  BY DEF PortsInv, TypeOK, BusTypeOK, Carried, TakenFrom, Of
<1> QED
  BY <1>1, SilentOrAlone, DeviceRefusalAnswers

\* Nobody answers with success at the address -1.
LEMMA Unanswered ==
    ASSUME NEW p, NEW r \in Responses(p), p.address = -1
    PROVE  r \notin {"OK", "ERRSIZ"}
BY DEF Responses, ReadResponses, WriteResponses, Answered

LEMMA CompletionIsCallback ==
    ASSUME IInv, NEW c \in Chan, Completion(c)
    PROVE  SomeCallback
<1> DEFINE p == channels[c]
<1>1. PICK r \in Responses(p), left \in {NoPacket, Halting} :
         PacketCallback(p, r, Released(c, left))
  BY DEF Completion
<1>2. /\ p \in Packet /\ refused = NoPacket /\ dpstate' = dpstate
      /\ r \in Status /\ Answerable(c)
  BY <1>1, ResponsesTyped DEF Completion, Answerable
<1>3. p.address = -1 => r # "OK"
  BY <1>1, Unanswered
<1>4. PICK b \in Buses : p.dev = Root(b)
  BY <1>2 DEF IInv, RootPackets, Chan
<1>5. /\ Released(c, left) \in [Chan -> Carried]
      /\ TakenFrom(Root(b), Released(c, left))
      /\ Answers(Root(b), p, Released(c, left))
  BY <1>2, <1>4, CompletionAnswers, InvPorts
<1> QED
  BY <1>1, <1>2, <1>3, <1>4, <1>5 DEF CallbackOf, SomeCallback

LEMMA RefusalIsCallback ==
    ASSUME IInv, Refusal
    PROVE  SomeCallback
<1>1. /\ refused \in Packet /\ dpstate' = dpstate
      /\ PacketCallback(refused, "EFATAL", channels)
      /\ "EFATAL" \in Status
  BY DEF Refusal, IInv, TypeOK, BusTypeOK, Status
<1>2. PICK b \in Buses : refused.dev = Root(b)
  BY <1>1 DEF IInv, RootPackets
<1>3. /\ channels \in [Chan -> Carried]
      /\ TakenFrom(Root(b), channels) /\ Of(refused, Root(b))
      /\ Answers(Root(b), refused, channels)
  BY <1>1, <1>2, RefusalAnswers, InvPorts
<1> QED
  BY <1>1, <1>2, <1>3 DEF CallbackOf, SomeCallback

\* The port is reset: everything that was outstanding is forgotten.
LEMMA ResetStep ==
    ASSUME PortsInv, NEW b \in Buses, Reset(b)
    PROVE  OwnChannels' /\ \A a \in Buses : PortInv(a)'
<1> DEFINE d == Root(b)
<1>1. /\ refused = NoPacket /\ refused' = NoPacket
      /\ dpstate[b] = "DISCONN" /\ dpstate' = [dpstate EXCEPT ![b] = "DEVRST"]
      /\ dpstate \in [Buses -> PollState]
      /\ UNCHANGED coreVars
  BY DEF Reset, PortReset, PortsInv, TypeOK, BusTypeOK
<1>2. PICK stopping \in SUBSET Busy(b) : channels' = Flushed(b, stopping)
  BY DEF Reset, PortReset
<1>3. \A c \in Chan : IF c[1] = b THEN channels'[c] \in {NoPacket, Halting}
                      ELSE channels'[c] = channels[c]
  BY <1>2 DEF Flushed
<1>4. OwnChannels'
  BY <1>1, <1>3, BusAssumption DEF OwnChannels, PortsInv, Root
<1>5. \A c \in Chan : Of(channels[c], d) \/ Of(channels'[c], d) => c[1] = b
  BY <1>4 DEF Of, OwnChannels, PortsInv, Root
<1>6. Silent(d)' /\ NoEvents(d)'
  BY <1>1, <1>3, <1>5, BusAssumption DEF Silent, NoEvents, Ep0Packet, EventPacket, Of
<1>7. address[d] = -1 /\ drv[d] = "NULL"
  BY <1>1 DEF PortsInv, PortInv, Down
<1>8. PortInv(b)'
  BY <1>1, <1>6, <1>7 DEF PortInv, Flushing, coreVars, Root
<1>9. ASSUME NEW a \in Buses \ {b}
      PROVE  PortInv(a)'
  <2>1. PacketsKept(Root(a))
    <3>1. \A c \in Chan : Of(channels[c], Root(a)) \/ Of(channels'[c], Root(a)) => c[1] = a
      BY <1>4 DEF Of, OwnChannels, PortsInv, Root
    <3> QED
      BY <1>1, <1>3, <3>1 DEF PacketsKept
  <2> QED
    BY <1>1, <2>1, PortKept DEF PortsInv, coreVars
<1> QED
  BY <1>4, <1>8, <1>9

\* A root port comes up: its channels are all free, its pipe idle.
LEMMA ConnectedStep ==
    ASSUME PortsInv, NEW b \in Buses, Connected(b)
    PROVE  OwnChannels' /\ \A a \in Buses : PortInv(a)'
<1> DEFINE d == Root(b)
<1>0. CoreTypeOK /\ d \in Device /\ channels \in [Chan -> Carried]
  BY RootIsDevice DEF PortsInv, TypeOK, BusTypeOK, CoreTypeOK, Carried
<1>1. /\ refused = NoPacket /\ dpstate[b] = "DEVRST"
      /\ dpstate' = [dpstate EXCEPT ![b] = "RUN"]
      /\ dpstate \in [Buses -> PollState]
      /\ drv' = drv
      /\ EnumerationStart(d, 1, PipeIdle(d), channels)
  BY DEF Connected, PortEnabled, PortsInv, TypeOK, BusTypeOK
<1>2. /\ CoreTypeOK' /\ OthersKept(d) /\ Submits(d, channels)
      /\ address_temporary' = 1
  BY <1>0, ConnectedTyped
<1>3. Clear(d, channels) /\ EventFree(d, channels) /\ drv[d] = "NULL"
  BY <1>1 DEF PortsInv, PortInv, Flushing, Silent, NoEvents, Clear, EventFree
<1>4. /\ address'[d] = 0 /\ estate'[d] = "SET_ADDRESS"
      /\ DeviceControl(d, "device_enumerate", "NODATA", PipeIdle(d), channels)
  BY <1>0, <1>1 DEF EnumerationStart, CoreTypeOK
<1>5. PICK q \in Packet : q = NewPacket(d, "SETUP", "control_state_machine")
  BY <1>0, <1>2, NewPacketTyped DEF Kind, Callback, CoreTypeOK
<1>6. /\ PipeIdle(d) \in [Device -> Control] /\ PipeIdle(d)[d].state = "NONE"
  BY <1>0, PipeIdleTyped DEF IdleControl
<1>7. /\ Issue(q, channels)
      /\ control'[d] = [state |-> "SETUP", callback |-> "device_enumerate",
                        request |-> "NODATA"]
      /\ Ep0Packet(q, d) /\ q.callback = "control_state_machine" /\ q.kind = "SETUP"
  BY <1>0, <1>4, <1>5, <1>6 DEF DeviceControl, Ep0Packet, NewPacket
<1>8. Alone(d, q)' /\ NoEvents(d)'
  BY <1>0, <1>3, <1>7, PacketSubmitted
<1>9. PipePacket(d, q)'
  BY <1>4, <1>7 DEF PipePacket, StateKind, Enumerating, Raw, RawKind
<1>10. Up(d)'
  BY <1>1, <1>2, <1>3, <1>4, <1>8, <1>9 DEF Up
<1>11. PortInv(b)'
  BY <1>1, <1>10 DEF PortInv, Root
<1>12. TakenFrom(d, channels)
  BY DEF TakenFrom
<1> QED
  BY <1>0, <1>1, <1>2, <1>11, <1>12, OnePortStep

\* A root port goes down; what is outstanding may stay so.
LEMMA DisconnectedStep ==
    ASSUME PortsInv, NEW b \in Buses, Disconnected(b)
    PROVE  OwnChannels' /\ \A a \in Buses : PortInv(a)'
<1> DEFINE d == Root(b)
<1>0. CoreTypeOK /\ d \in Device /\ d[1] = b
  BY RootIsDevice DEF PortsInv, TypeOK, CoreTypeOK
<1>1. /\ refused = NoPacket /\ refused' = NoPacket
      /\ dpstate' = [dpstate EXCEPT ![b] = "DISCONN"]
      /\ dpstate \in [Buses -> PollState]
      /\ control' = PipeIdle(d)
      /\ UNCHANGED <<enumeration_run, address_temporary, estate>>
  BY DEF Disconnected, PortGone, PortsInv, TypeOK, BusTypeOK
<1>2. /\ address' = [e \in Device |-> IF e \in {x \in Device : x[1] = b} THEN -1 ELSE address[e]]
      /\ drv' = [e \in Device |-> IF e \in {x \in Device : x[1] = b} THEN "NULL" ELSE drv[e]]
  BY DEF Disconnected, DeviceRemove
<1>3. \A c \in Chan : \/ channels'[c] = channels[c]
                      \/ c[1] = b /\ channels'[c] \in {NoPacket, Halting}
  BY DEF Disconnected, PortGone, Flushed
<1>4. OwnChannels'
  BY <1>1, <1>3, BusAssumption DEF OwnChannels, PortsInv, Root
<1>5. \A c \in Chan : ~Ep0Packet(channels'[c], d) \/ channels'[c] = channels[c]
  BY <1>3, BusAssumption DEF Ep0Packet
<1>6. ~Ep0Packet(refused, d) /\ ~Ep0Packet(refused', d)
  BY <1>1, BusAssumption DEF Ep0Packet
<1>7. address'[d] = -1 /\ drv'[d] = "NULL" /\ control'[d].state = "NONE"
  BY <1>0, <1>1, <1>2, PipeIdleTyped DEF IdleControl
<1>8. Down(d)'
  <2>1. CASE Silent(d)
    BY <1>5, <1>6, <1>7, <2>1 DEF Down, Silent
  <2>2. CASE ~Silent(d)
    <3>1. PICK p \in Packet : Alone(d, p) /\ (p.callback = "device_enumerate" => Raw(estate[d]))
      BY <1>1, <2>2
         DEF PortsInv, PortInv, Up, Down, Flushing, PipePacket, RawPacket, Late, PollState
    <3>2. Late(d, p)'
      BY <1>1, <1>7, <3>1 DEF Late, Alone, Ep0Packet, Packet, Callback
    <3>3. PICK c \in Chan : /\ channels[c] = p
                            /\ \A e \in Chan \ {c} : ~Ep0Packet(channels[e], d)
      BY <1>1, <1>6, <3>1 DEF Alone
    <3>4. CASE channels'[c] = channels[c]
      <4>1. \A e \in Chan \ {c} : ~Ep0Packet(channels'[e], d)
        BY <1>5, <3>3
      <4>2. Alone(d, p)'
        BY <1>6, <3>1, <3>3, <3>4, <4>1 DEF Alone, Ep0Packet
      <4> QED
        BY <1>7, <3>2, <4>2 DEF Down
    <3>5. CASE channels'[c] # channels[c]
      <4>1. \A e \in Chan : ~Ep0Packet(channels'[e], d)
        BY <1>5, <3>3, <3>5
      <4>2. Silent(d)'
        BY <1>6, <4>1 DEF Silent, Ep0Packet
      <4> QED
        BY <1>7, <4>2 DEF Down
    <3> QED
      BY <3>4, <3>5
  <2> QED
    BY <2>1, <2>2
<1>9. PortInv(b)'
  BY <1>1, <1>8 DEF PortInv, Root
<1>10. ASSUME NEW a \in Buses \ {b}
       PROVE  PortInv(a)'
  <2>1. PacketsKept(Root(a))
    <3>1. \A c \in Chan : Of(channels[c], Root(a)) \/ Of(channels'[c], Root(a)) => c[1] = a
      BY <1>4 DEF Of, OwnChannels, PortsInv, Root
    <3> QED
      BY <1>1, <1>3, <3>1 DEF PacketsKept
  <2>2. Root(a) \in Device \ {d} /\ Root(a)[1] # b
    BY RootIsDevice DEF Root
  <2>3. control'[Root(a)] = control[Root(a)]
    BY <1>0, <1>1, <2>2, PipeIdleTyped
  <2>4. address'[Root(a)] = address[Root(a)] /\ drv'[Root(a)] = drv[Root(a)]
    BY <1>2, <2>2
  <2> QED
    BY <1>1, <2>1, <2>3, <2>4, PortKept DEF PortsInv
<1> QED
  BY <1>4, <1>9, <1>10

\* What a driver starts by itself.
LEMMA DriverSubmits ==
    ASSUME CoreTypeOK, NEW d \in Device, DriverTransfer(d) \/ DriverControl(d)
    PROVE  CoreTypeOK' /\ OthersKept(d) /\ Submits(d, channels)
<1>1. CASE DriverTransfer(d)
  BY <1>1, TransfersTyped DEF DriverTransfer, coreVars, OthersKept, CoreTypeOK
<1>2. CASE DriverControl(d)
  BY <1>2, DriverEventTyped DEF DriverControl, DriverEvent, CoreTypeOK
<1> QED
  BY <1>1, <1>2

LEMMA DriverStep ==
    ASSUME PortsInv, NEW b \in Buses, DriverTransfer(Root(b)) \/ DriverControl(Root(b))
    PROVE  OwnChannels' /\ \A a \in Buses : PortInv(a)'
<1> DEFINE d == Root(b)
<1>0. /\ CoreTypeOK /\ d \in Device /\ channels \in [Chan -> Carried]
      /\ TakenFrom(d, channels)
  BY RootIsDevice DEF PortsInv, TypeOK, BusTypeOK, CoreTypeOK, Carried, TakenFrom
<1>1. /\ refused = NoPacket /\ drv[d] = "READY" /\ dpstate' = dpstate
      /\ UNCHANGED <<enumeration_run, address_temporary, address, estate, drv>>
  BY DEF DriverTransfer, DriverControl, coreVars
<1>2. dpstate[b] = "RUN" /\ Up(d)
  BY <1>1 DEF PortsInv, PortInv, Down, Flushing, TypeOK, BusTypeOK, PollState
<1>3. ~Enumerating(d) /\ ~Ep0Packet(refused, d) /\ KeepsEp0(d, channels)
  BY <1>1, <1>2, BusAssumption DEF Up, Ep0Packet, KeepsEp0
<1>4. Up(d)'
  <2>1. CASE DriverTransfer(d)
    BY <1>0, <1>1, <1>2, <1>3, <2>1, TransfersUp DEF DriverTransfer, coreVars
  <2>2. CASE DriverControl(d)
    <3>1. DriverEvent(d, control, channels)
      BY <1>1, <2>2 DEF DriverControl, DriverEvent
    <3> QED
      BY <1>0, <1>1, <1>2, <1>3, <3>1, DriverEventBusyUp
  <2> QED
    BY <2>1, <2>2
<1>5. PortInv(b)'
  BY <1>1, <1>2, <1>4 DEF PortInv, Root
<1> QED
  BY <1>0, <1>1, <1>5, DriverSubmits, OnePortStep

\* Nothing but a channel that halts, or nothing at all.
LEMMA QuietStep ==
    ASSUME PortsInv, UNCHANGED <<dpstate, refused, coreVars>>,
           \A c \in Chan : \/ channels'[c] = channels[c]
                           \/ channels[c] = Halting /\ channels'[c] = NoPacket
    PROVE  OwnChannels' /\ \A a \in Buses : PortInv(a)'
<1>1. OwnChannels'
  BY BusAssumption DEF PortsInv, OwnChannels, Root
<1>2. \A d : PacketsKept(d)
  BY BusAssumption DEF PacketsKept, Of
<1> QED
  BY <1>1, <1>2, PortKept DEF PortsInv, TypeOK, BusTypeOK, coreVars

LEMMA InvInit == Init => IInv
<1> SUFFICES ASSUME Init PROVE IInv
  OBVIOUS
<1>1. /\ refused = NoPacket /\ \A c \in Chan : channels[c] = NoPacket
      /\ \A b \in Buses : dpstate[b] = "DISCONN"
  BY DEF Init, BusInit
<1>2. RootPackets /\ \A d : Silent(d)
  BY <1>1, BusAssumption DEF RootPackets, Silent, Ep0Packet
<1>3. ASSUME NEW b \in Buses
      PROVE  PortInv(b)
  BY <1>1, <1>2, RootIsDevice DEF PortInv, Down, Init, IdleControl
<1> QED
  BY <1>2, <1>3, TypeInit DEF IInv

\* Without a hub, only root devices ever send a packet.
LEMMA RootPacketsStep ==
    ASSUME IInv, [Next]_vars
    PROVE  RootPackets'
<1>0. /\ TypeOK /\ RootPackets /\ CoreTypeOK /\ channels \in [Chan -> Carried]
      /\ \A b \in Buses : TakenFrom(Root(b), channels)
  BY DEF IInv, TypeOK, CoreTypeOK, BusTypeOK, Carried, TakenFrom
<1>1. ASSUME \A c \in Chan : channels'[c] = channels[c] \/ channels'[c] \in {NoPacket, Halting},
             refused' \in {refused, NoPacket}
      PROVE  RootPackets'
  BY <1>0, <1>1, BusAssumption DEF RootPackets, Root
<1>2. ASSUME NEW b \in Buses, Reset(b) \/ Disconnected(b)
      PROVE  RootPackets'
  BY <1>1, <1>2 DEF Reset, PortReset, Disconnected, PortGone, Flushed
<1>3. ASSUME NEW b \in Buses, Connected(b)
      PROVE  RootPackets'
  BY <1>0, <1>3, ConnectedTyped, SubmitsFromRoot
<1>4. ASSUME NEW b \in Buses, DriverTransfer(Root(b)) \/ DriverControl(Root(b))
      PROVE  RootPackets'
  BY <1>0, <1>4, RootIsDevice, DriverSubmits, SubmitsFromRoot
<1>5. CASE SomeCallback
  <2>1. PICK b \in Buses, p \in Packet, r \in Status, chs \in [Chan -> Carried] :
           CallbackOf(b, p, r, chs)
    BY <1>5 DEF SomeCallback
  <2>2. p.dev = Root(b) /\ TakenFrom(Root(b), chs) /\ PacketCallback(p, r, chs)
    BY <2>1 DEF CallbackOf
  <2> QED
    BY <1>0, <2>2, CallbackTyped, SubmitsFromRoot
<1>6. ASSUME NEW c \in Chan, Completion(c)
      PROVE  RootPackets'
  BY <1>5, <1>6, CompletionIsCallback
<1>7. CASE Refusal
  BY <1>5, <1>7, RefusalIsCallback
<1>8. ASSUME NEW c \in Chan, Halted(c)
      PROVE  RootPackets'
  BY <1>0, <1>1, <1>8 DEF Halted, ChannelHalted, TypeOK, BusTypeOK
<1>9. CASE UNCHANGED vars
  BY <1>1, <1>9 DEF vars, busVars
<1> QED
  BY <1>2, <1>3, <1>4, <1>6, <1>7, <1>8, <1>9 DEF Next

LEMMA InvStep == IInv /\ [Next]_vars => IInv'
<1> SUFFICES ASSUME IInv, [Next]_vars
             PROVE  IInv'
  OBVIOUS
<1>0. TypeOK /\ TypeOK'
  BY TypeStep DEF IInv
<1>a. ASSUME \A a \in Buses : PortInv(a)'
      PROVE  IInv'
  BY <1>0, <1>a, RootPacketsStep DEF IInv
<1>1. ASSUME NEW b \in Buses, \/ Reset(b) \/ Connected(b) \/ Disconnected(b)
                              \/ DriverTransfer(Root(b)) \/ DriverControl(Root(b))
      PROVE  IInv'
  BY <1>1, <1>a, ResetStep, ConnectedStep, DisconnectedStep, DriverStep, InvPorts
<1>2. ASSUME NEW c \in Chan, Completion(c)
      PROVE  IInv'
  BY <1>2, <1>a, CompletionIsCallback, CallbackStep, InvPorts
<1>3. ASSUME NEW c \in Chan, Halted(c)
      PROVE  IInv'
  <2>1. /\ UNCHANGED <<dpstate, refused, coreVars>>
        /\ \A e \in Chan : \/ channels'[e] = channels[e]
                           \/ channels[e] = Halting /\ channels'[e] = NoPacket
    BY <1>0, <1>3 DEF Halted, ChannelHalted, TypeOK, BusTypeOK
  <2> QED
    BY <1>a, <2>1, QuietStep, InvPorts
<1>4. CASE Refusal
  BY <1>4, <1>a, RefusalIsCallback, CallbackStep, InvPorts
<1>5. CASE UNCHANGED vars
  BY <1>5, <1>a, QuietStep, InvPorts DEF vars, busVars
<1> QED
  BY <1>1, <1>2, <1>3, <1>4, <1>5 DEF Next

\* The invariant holds in every reachable state.
THEOREM Invariance == Spec => []IInv
<1>1. Init => IInv
  BY InvInit
<1>2. IInv /\ [Next]_vars => IInv'
  BY InvStep
<1> QED
  BY <1>1, <1>2, PTL DEF Spec

-----------------------------------------------------------------------------
(* What the invariant means.                                               *)

LEMMA PortsExclusive == PortsInv => Ep0Exclusive
<1> SUFFICES ASSUME PortsInv, NEW b \in Buses, NEW c \in Chan, Ep0Packet(channels[c], Root(b))
             PROVE  /\ ~Ep0Packet(refused, Root(b))
                    /\ \A e \in Chan : Ep0Packet(channels[e], Root(b)) => e = c
  BY DEF Ep0Exclusive
<1>1. PICK p \in Packet : Alone(Root(b), p)
  BY SilentOrAlone DEF Silent
<1> QED
  BY <1>1 DEF Alone

LEMMA AwaitsIsEp0 ==
    ASSUME NEW d, NEW callback, callback # "event", NEW kind, Awaits(d, callback, kind)
    PROVE  /\ ~Silent(d)
           /\ \A p \in Packet : Alone(d, p) => p.callback = callback /\ p.kind = kind
BY DEF Awaits, Carries, Silent, Alone, Ep0Packet

LEMMA AloneAwaited ==
    ASSUME NEW d, NEW p \in Packet, Alone(d, p)
    PROVE  Awaits(d, p.callback, p.kind)
BY DEF Awaits, Carries, Alone, Ep0Packet

LEMMA PortsPipe == PortsInv => ControlPipeBacked
<1> SUFFICES ASSUME PortsInv, NEW b \in Buses, dpstate[b] = "RUN"
             PROVE  IF control[Root(b)].state = "NONE"
                    THEN \A k \in Kind : ~Awaits(Root(b), "control_state_machine", k)
                    ELSE Awaits(Root(b), "control_state_machine", StateKind(Root(b)))
  BY DEF ControlPipeBacked
<1> DEFINE d == Root(b)
<1>1. Up(d)
  BY DEF PortsInv, PortInv
<1>2. CASE Silent(d) /\ NothingAsked(d)
  BY <1>2, AwaitsIsEp0 DEF NothingAsked
<1>3. CASE \E p \in Packet : Alone(d, p) /\ (PipePacket(d, p) \/ RawPacket(d, p))
  <2>1. PICK p \in Packet : Alone(d, p) /\ (PipePacket(d, p) \/ RawPacket(d, p))
    BY <1>3
  <2>2. CASE PipePacket(d, p)
    BY <2>1, <2>2, AloneAwaited DEF PipePacket
  <2>3. CASE RawPacket(d, p)
    BY <2>1, <2>3, AwaitsIsEp0 DEF RawPacket
  <2> QED
    BY <2>1, <2>2, <2>3
<1> QED
  BY <1>1, <1>2, <1>3 DEF Up

LEMMA PortsEnumeration == PortsInv => EnumerationBacked
<1> DEFINE asked(d) == control[d].state # "NONE"
                         /\ control[d].callback = "device_enumerate"
<1> SUFFICES ASSUME PortsInv, NEW b \in Buses, dpstate[b] = "RUN"
             PROVE  IF ~Enumerating(Root(b))
                    THEN /\ ~asked(Root(b))
                         /\ \A k \in Kind : ~Awaits(Root(b), "device_enumerate", k)
                    ELSE IF estate[Root(b)] \in DOMAIN RawKind
                    THEN /\ control[Root(b)].state = "NONE"
                         /\ \/ HeaderDeadEnd(Root(b))
                            \/ Awaits(Root(b), "device_enumerate", RawKind[estate[Root(b)]])
                    ELSE asked(Root(b))
  BY DEF EnumerationBacked
<1> DEFINE d == Root(b)
<1>1. Up(d)
  BY DEF PortsInv, PortInv
<1>2. CASE Silent(d) /\ NothingAsked(d)
  <2>1. \A k \in Kind : ~Awaits(d, "device_enumerate", k)
    BY <1>2, AwaitsIsEp0
  <2>2. ~Awaits(d, "device_enumerate", "IN")
    BY <2>1 DEF Kind
  <2> QED
    BY <1>2, <2>1, <2>2 DEF NothingAsked, HeaderDeadEnd, RawKind
<1>3. CASE \E p \in Packet : Alone(d, p) /\ (PipePacket(d, p) \/ RawPacket(d, p))
  <2>1. PICK p \in Packet : Alone(d, p) /\ (PipePacket(d, p) \/ RawPacket(d, p))
    BY <1>3
  <2>2. CASE PipePacket(d, p)
    <3>1. \A k \in Kind : ~Awaits(d, "device_enumerate", k)
      BY <2>1, <2>2, AwaitsIsEp0 DEF PipePacket
    <3> QED
      BY <2>2, <3>1 DEF PipePacket, Raw
  <2>3. CASE RawPacket(d, p)
    <3>1. Awaits(d, "device_enumerate", RawKind[estate[d]])
      BY <2>1, <2>3, AloneAwaited DEF RawPacket
    <3>2. Enumerating(d)
      BY <2>3 DEF RawPacket, Raw, RawKind, Enumerating
    <3> QED
      BY <2>3, <3>1, <3>2 DEF RawPacket, Raw
  <2> QED
    BY <2>1, <2>2, <2>3
<1> QED
  BY <1>1, <1>2, <1>3 DEF Up

LEMMA PortsDriver == PortsInv => DriverOnlyWhenSettled
BY PortInvCases DEF DriverOnlyWhenSettled, Up, Down, Flushing

LEMMA PortsCallback == PortsInv => CallbackHasDriver
<1> SUFFICES ASSUME PortsInv, NEW b \in Buses, dpstate[b] = "RUN", drv[Root(b)] # "READY"
             PROVE  /\ \A k \in Kind : ~Awaits(Root(b), "event", k)
                    /\ \/ control[Root(b)].state = "NONE"
                       \/ control[Root(b)].callback # "event"
  BY DEF CallbackHasDriver
<1> DEFINE d == Root(b)
<1>1. Up(d)
  BY DEF PortsInv, PortInv
<1>2. \A k \in Kind : ~Awaits(d, "event", k)
  BY <1>1 DEF Up, NoEvents, EventPacket, Awaits, Carries
<1>3. control[d].state = "NONE" \/ control[d].callback # "event"
  BY <1>1 DEF Up, NothingAsked, PipePacket, RawPacket
<1> QED
  BY <1>2, <1>3

LEMMA InvExclusive == IInv => Ep0Exclusive
BY InvPorts, PortsExclusive

LEMMA InvPipe == IInv => ControlPipeBacked
BY InvPorts, PortsPipe

LEMMA InvEnumeration == IInv => EnumerationBacked
BY InvPorts, PortsEnumeration

LEMMA InvDriver == IInv => DriverOnlyWhenSettled
BY InvPorts, PortsDriver

LEMMA InvCallback == IInv => CallbackHasDriver
BY InvPorts, PortsCallback

\* Endpoint 0 of a root device carries one transfer at a time.
THEOREM ExclusiveEndpoint0 == Spec => []Ep0Exclusive
BY Invariance, InvExclusive, PTL

\* While the port is up a busy control pipe waits for an answer that comes, and
\* an idle one for none.
THEOREM PipeAlwaysBacked == Spec => []ControlPipeBacked
BY Invariance, InvPipe, PTL

\* While the port is up an enumeration waits for the answer of its state, or has
\* come to the dead end of the configuration header.
THEOREM EnumerationAlwaysBacked == Spec => []EnumerationBacked
BY Invariance, InvEnumeration, PTL

\* A driver is bound only between the end of an enumeration and the end of the
\* connection.
THEOREM DriverSettled == Spec => []DriverOnlyWhenSettled
BY Invariance, InvDriver, PTL

\* A driver is called back only while its data is in place.
THEOREM DriverCalledWithData == Spec => []CallbackHasDriver
BY Invariance, InvCallback, PTL

-----------------------------------------------------------------------------
(* UsbhCore implements UsbhPort.                                           *)

phases == [b \in Buses |-> PortPhase(b)]

\* The phase of a port depends on nothing else.
LEMMA PhaseKept ==
    ASSUME NEW b \in Buses,
           (dpstate'[b] = "RUN") <=> (dpstate[b] = "RUN"),
           dpstate[b] = "RUN" =>
              \/ Enumerating(Root(b)) /\ Enumerating(Root(b))'
              \/ /\ address'[Root(b)] = address[Root(b)]
                 /\ estate'[Root(b)] = estate[Root(b)]
                 /\ drv'[Root(b)] = drv[Root(b)]
    PROVE  PortPhase(b)' = PortPhase(b)
<1>1. Root(b)' = Root(b)
  BY DEF Root
<1>2. CASE dpstate[b] # "RUN"
  BY <1>2 DEF PortPhase
<1>3. CASE dpstate[b] = "RUN" /\ Enumerating(Root(b)) /\ Enumerating(Root(b))'
  BY <1>1, <1>3 DEF PortPhase, Enumerating
<1>4. CASE dpstate[b] = "RUN" /\ UNCHANGED <<address[Root(b)], estate[Root(b)], drv[Root(b)]>>
  BY <1>1, <1>4 DEF PortPhase, Enumerating
<1> QED
  BY <1>1, <1>2, <1>3, <1>4

LEMMA PhasesDefined == phases \in [Buses -> RootPort!Phase]
BY DEF phases, PortPhase, RootPort!Phase

\* Changing one phase.
LEMMA OnePhase ==
    ASSUME NEW b \in Buses, \A a \in Buses \ {b} : PortPhase(a)' = PortPhase(a)
    PROVE  phases' = [phases EXCEPT ![b] = PortPhase(b)']
BY DEF phases

\* An answer to an enumeration keeps the lock and goes on, or ends both.
LEMMA EnumerateEnds ==
    ASSUME CoreTypeOK, NEW d \in Device, NEW r, NEW ctl, NEW chs,
           DeviceEnumerate(d, r, ctl, chs), estate[d] # "SET_ADDRESS" => address[d] # 0
    PROVE  \/ /\ enumeration_run' = enumeration_run
              /\ Enumerating(d) => Enumerating(d)'
           \/ /\ enumeration_run' = FALSE
              /\ ~Enumerating(d)'
<1> USE DEF CoreTypeOK
<1>a. ASSUME EnumTerminate(d, ctl, chs)
      PROVE  enumeration_run' = FALSE /\ ~Enumerating(d)'
  BY <1>a DEF EnumTerminate, Enumerating
<1>1. CASE SetAddressComplete(d, r, ctl, chs)
  BY <1>1, <1>a DEF SetAddressComplete, EnumRequest, Enumerating
<1>2. CASE DeviceDtReadComplete(d, r, ctl, chs)
  BY <1>2, <1>a DEF DeviceDtReadComplete, EnumRequest, EnumRaw, Enumerating
<1>3. CASE ConfigurationSetupSent(d, r, ctl, chs)
  BY <1>3, <1>a DEF ConfigurationSetupSent, EnumRaw, Enumerating
<1>4. CASE HeaderReadComplete(d, r, ctl, chs)
  BY <1>4, <1>a DEF HeaderReadComplete, EnumRequest, EnumRaw, Enumerating
<1>5. CASE ConfigurationReadComplete(d, r, ctl, chs)
  BY <1>5, <1>a DEF ConfigurationReadComplete, EnumRequest, Enumerating
<1>6. CASE SetConfigurationComplete(d, r, ctl, chs)
  <2>1. CASE r = "OK"
    <3>1. address'[d] # 0 /\ estate'[d] = "SET_ADDRESS" /\ enumeration_run' = FALSE
      BY <1>6, <2>1 DEF SetConfigurationComplete, DeviceRegister
    <3> QED
      BY <3>1 DEF Enumerating
  <2>2. CASE r # "OK"
    BY <1>6, <1>a, <2>2 DEF SetConfigurationComplete
  <2> QED
    BY <2>1, <2>2
<1> QED
  BY <1>1, <1>2, <1>3, <1>4, <1>5, <1>6 DEF DeviceEnumerate

\* While the port is up, only the enumeration itself asks device_enumerate.
LEMMA EnumerateOnlyWhileEnumerating ==
    ASSUME NEW d, Up(d), NEW p \in Packet, Ep0Packet(p, d), NEW chs, Answers(d, p, chs),
           \/ p.callback = "device_enumerate"
           \/ /\ control[d].state # "NONE"
              /\ control[d].callback = "device_enumerate"
    PROVE  Enumerating(d)
<1>1. Alone(d, p) /\ (PipePacket(d, p) \/ RawPacket(d, p))
  BY DEF Up, Answers
<1> QED
  BY <1>1 DEF PipePacket, RawPacket, Raw, RawKind, Enumerating

LEMMA CallbackPhase ==
    ASSUME IInv, NEW b \in Buses, NEW p \in Packet, p.dev = Root(b), NEW r,
           NEW chs, Answers(Root(b), p, chs), dpstate' = dpstate, PacketCallback(p, r, chs)
    PROVE  \/ /\ enumeration_run' = enumeration_run
              /\ PortPhase(b)' = PortPhase(b)
           \/ /\ PortPhase(b) = "absent" /\ PortPhase(b)' = "absent"
              /\ enumeration_run' = FALSE
           \/ /\ PortPhase(b) = "enumerating"
              /\ PortPhase(b)' \in {"bound", "unclaimed", "failed"}
              /\ enumeration_run' = FALSE
<1> DEFINE d == Root(b)
<1>0. CoreTypeOK /\ d \in Device /\ Root(b)' = d
  BY RootIsDevice DEF IInv, TypeOK, CoreTypeOK, Root
<1>1. CASE UNCHANGED <<enumeration_run, address, estate, drv>>
  BY <1>0, <1>1, PhaseKept
<1>2. ASSUME NEW x, NEW ctl, DeviceEnumerate(d, x, ctl, chs),
             dpstate[b] = "RUN" => Enumerating(d)
      PROVE  \/ /\ enumeration_run' = enumeration_run
                /\ PortPhase(b)' = PortPhase(b)
             \/ /\ PortPhase(b) = "absent" /\ PortPhase(b)' = "absent"
                /\ enumeration_run' = FALSE
             \/ /\ PortPhase(b) = "enumerating"
                /\ PortPhase(b)' \in {"bound", "unclaimed", "failed"}
                /\ enumeration_run' = FALSE
  <2>1. CASE dpstate[b] = "RUN"
    <3>1. Up(d) /\ Enumerating(d)
      BY <1>2, <2>1 DEF IInv, PortInv
    <3>2. PortPhase(b) = "enumerating"
      BY <2>1, <3>1 DEF PortPhase
    <3>3. \/ enumeration_run' = enumeration_run /\ Enumerating(d)'
          \/ enumeration_run' = FALSE /\ ~Enumerating(d)'
      BY <1>0, <1>2, <3>1, EnumerateEnds DEF Up
    <3>4. CASE enumeration_run' = enumeration_run /\ Enumerating(d)'
      BY <2>1, <3>1, <3>4, PhaseKept
    <3>5. CASE enumeration_run' = FALSE /\ ~Enumerating(d)'
      <4>1. ~Enumerating(Root(b))'
        BY <1>0, <3>5 DEF Enumerating
      <4>2. PortPhase(b)' \in {"bound", "unclaimed", "failed"}
        BY <2>1, <4>1 DEF PortPhase
      <4> QED
        BY <3>2, <3>5, <4>2
    <3> QED
      BY <3>3, <3>4, <3>5
  <2>2. CASE dpstate[b] # "RUN"
    <3>1. PortPhase(b) = "absent" /\ PortPhase(b)' = "absent"
      BY <2>2 DEF PortPhase
    <3>2. enumeration_run' = enumeration_run \/ enumeration_run' = FALSE
      BY <1>0, <1>2, EnumerateReleasesLock DEF EndsReleaseLock, EnumTerminate, DeviceEnumerate,
         SetAddressComplete, DeviceDtReadComplete, ConfigurationSetupSent, HeaderReadComplete,
         ConfigurationReadComplete, SetConfigurationComplete, EnumRequest, EnumRaw
    <3> QED
      BY <3>1, <3>2
  <2> QED
    BY <2>1, <2>2
<1>3. ASSUME p.callback # "event",
             \/ p.callback = "device_enumerate"
             \/ control[d].state # "NONE" /\ control[d].callback = "device_enumerate",
             dpstate[b] = "RUN"
      PROVE  Enumerating(d)
  BY <1>3, EnumerateOnlyWhileEnumerating DEF IInv, PortInv, Ep0Packet
<1>4. CASE p.callback = "device_enumerate" /\ DeviceEnumerate(d, r, control, chs)
  BY <1>2, <1>3, <1>4
<1>5. CASE /\ p.callback = "control_state_machine" /\ ControlEnds(d, r)
           /\ control[d].callback = "device_enumerate"
           /\ DeviceEnumerate(d, ControlResult(d, r), PipeIdle(d), chs)
  <2>1. control[d].state # "NONE"
    BY <1>5 DEF ControlEnds
  <2> QED
    BY <1>2, <1>3, <1>5, <2>1
<1> QED
  BY <1>1, <1>4, <1>5
     DEF PacketCallback, CoreCallback, ControlAdvance, ControlIgnored, coreVars, DriverEvent

PortStutters == phases' = phases /\ enumeration_run' = enumeration_run

\* Each step of the core is a step of one port, or none.
LEMMA RefinedCallback ==
    ASSUME IInv, SomeCallback
    PROVE  RootPort!Next \/ PortStutters
<1>0. PICK b \in Buses, p \in Packet, r \in Status, chs \in [Chan -> Carried] :
         CallbackOf(b, p, r, chs)
  BY DEF SomeCallback
<1>1. ASSUME NEW a \in Buses \ {b}
      PROVE  PortPhase(a)' = PortPhase(a)
  <2>1. OthersKept(Root(b))
    BY <1>0, CallbackTyped DEF CallbackOf, IInv, TypeOK, CoreTypeOK
  <2>2. Root(a) \in Device \ {Root(b)}
    BY RootIsDevice DEF Root
  <2> QED
    BY <1>0, <2>1, <2>2, PhaseKept DEF CallbackOf, OthersKept
<1>2. phases' = [phases EXCEPT ![b] = PortPhase(b)'] /\ phases[b] = PortPhase(b)
  BY <1>1, OnePhase DEF phases
<1>3. CASE enumeration_run' = enumeration_run /\ PortPhase(b)' = PortPhase(b)
  BY <1>2, <1>3, PhasesDefined DEF PortStutters
<1>4. CASE /\ PortPhase(b) = "absent" /\ PortPhase(b)' = "absent"
           /\ enumeration_run' = FALSE
  <2>1. RootPort!LateEnd(b)
    BY <1>2, <1>4, PhasesDefined DEF RootPort!LateEnd, phases
  <2> QED
    BY <2>1 DEF RootPort!Next
<1>5. CASE /\ PortPhase(b) = "enumerating"
           /\ PortPhase(b)' \in {"bound", "unclaimed", "failed"}
           /\ enumeration_run' = FALSE
  <2>1. RootPort!Settle(b)
    BY <1>2, <1>5 DEF RootPort!Settle, phases
  <2> QED
    BY <2>1 DEF RootPort!Next
<1> QED
  BY <1>0, <1>3, <1>4, <1>5, CallbackPhase DEF CallbackOf

LEMMA RefinedStep == IInv /\ IInv' /\ [Next]_vars => RootPort!Next \/ PortStutters
<1> SUFFICES ASSUME IInv, IInv', [Next]_vars
             PROVE  RootPort!Next \/ PortStutters
  OBVIOUS
<1>0. /\ dpstate \in [Buses -> PollState]
      /\ CoreTypeOK
  BY DEF IInv, TypeOK, BusTypeOK, CoreTypeOK
<1>a. ASSUME \A a \in Buses : PortPhase(a)' = PortPhase(a), enumeration_run' = enumeration_run
      PROVE  PortStutters
  BY <1>a DEF PortStutters, phases
<1>1. ASSUME NEW b \in Buses, Reset(b)
      PROVE  PortStutters
  <2>1. /\ dpstate[b] = "DISCONN" /\ dpstate' = [dpstate EXCEPT ![b] = "DEVRST"]
        /\ UNCHANGED coreVars
    BY <1>1 DEF Reset, PortReset
  <2>2. \A a \in Buses : (dpstate'[a] = "RUN") <=> (dpstate[a] = "RUN")
    BY <1>0, <2>1
  <2>3. \A a \in Buses : PortPhase(a)' = PortPhase(a)
    BY <2>1, <2>2, PhaseKept DEF coreVars
  <2> QED
    BY <1>a, <2>1, <2>3 DEF coreVars
<1>2. ASSUME NEW b \in Buses, Connected(b)
      PROVE  RootPort!Attach(b)
  <2>1. /\ dpstate[b] = "DEVRST" /\ dpstate' = [dpstate EXCEPT ![b] = "RUN"]
        /\ enumeration_run' = TRUE /\ address' = [address EXCEPT ![Root(b)] = 0]
    BY <1>2 DEF Connected, PortEnabled, EnumerationStart
  <2>2. OthersKept(Root(b))
    BY <1>0, <1>2, ConnectedTyped
  <2>3. ASSUME NEW a \in Buses \ {b}
        PROVE  PortPhase(a)' = PortPhase(a)
    <3>1. Root(a) \in Device \ {Root(b)}
      BY RootIsDevice DEF Root
    <3> QED
      BY <1>0, <2>1, <2>2, <3>1, PhaseKept DEF OthersKept
  <2>4. PortPhase(b) = "absent" /\ PortPhase(b)' = "enumerating"
    BY <1>0, <2>1, RootIsDevice DEF PortPhase, Enumerating, Root, CoreTypeOK
  <2> QED
    BY <2>1, <2>3, <2>4, OnePhase DEF RootPort!Attach, phases
<1>3. ASSUME NEW b \in Buses, Disconnected(b)
      PROVE  RootPort!Detach(b)
  <2>1. /\ dpstate' = [dpstate EXCEPT ![b] = "DISCONN"]
        /\ UNCHANGED <<enumeration_run, estate>>
        /\ address' = [d \in Device |-> IF d \in {x \in Device : x[1] = b}
                                        THEN -1 ELSE address[d]]
        /\ drv' = [d \in Device |-> IF d \in {x \in Device : x[1] = b}
                                    THEN "NULL" ELSE drv[d]]
    BY <1>3 DEF Disconnected, PortGone, DeviceRemove
  <2>2. ASSUME NEW a \in Buses \ {b}
        PROVE  PortPhase(a)' = PortPhase(a)
    <3>1. Root(a) \in Device /\ Root(a)[1] # b
      BY RootIsDevice
    <3> QED
      BY <1>0, <2>1, <3>1, PhaseKept
  <2>3. PortPhase(b)' = "absent"
    BY <1>0, <2>1 DEF PortPhase
  <2> QED
    BY <2>1, <2>2, <2>3, OnePhase DEF RootPort!Detach, phases
<1>4. ASSUME UNCHANGED <<dpstate, enumeration_run, address, estate, drv>>
      PROVE  PortStutters
  BY <1>a, <1>4, PhaseKept
<1>5. ASSUME NEW b \in Buses, DriverTransfer(Root(b)) \/ DriverControl(Root(b))
      PROVE  PortStutters
  BY <1>4, <1>5 DEF DriverTransfer, DriverControl, coreVars
<1>6. ASSUME NEW c \in Chan, Completion(c)
      PROVE  RootPort!Next \/ PortStutters
  BY <1>6, CompletionIsCallback, RefinedCallback
<1>7. ASSUME NEW c \in Chan, Halted(c)
      PROVE  PortStutters
  BY <1>4, <1>7 DEF Halted, ChannelHalted, coreVars
<1>8. CASE Refusal
  BY <1>8, RefusalIsCallback, RefinedCallback
<1>9. CASE UNCHANGED vars
  BY <1>4, <1>9 DEF vars, busVars, coreVars
<1> QED
  BY <1>1, <1>2, <1>3, <1>5, <1>6, <1>7, <1>8, <1>9 DEF Next, RootPort!Next

\* The core implements UsbhPort, whatever the number of buses, slots and channels.
THEOREM Refinement == Spec => ImplementsPort
<1>1. Init => RootPort!Init
  BY DEF Init, BusInit, RootPort!Init, PortPhase
<1>2. IInv /\ IInv' /\ [Next]_vars => [RootPort!Next]_<<phases, enumeration_run>>
  BY RefinedStep DEF PortStutters
<1> QED
  BY <1>1, <1>2, Invariance, PTL DEF Spec, ImplementsPort, RootPort!Spec, phases

\* With one bus, the ports of UsbhPort keep the lock while they enumerate.
LEMMA HeldStep ==
    ASSUME IInv, IInv', LockHeld, [Next]_vars
    PROVE  LockHeld'
<1> SUFFICES ASSUME NEW b \in Buses, Buses = {b},
                    dpstate'[b] = "RUN", Enumerating(Root(b))'
             PROVE  enumeration_run'
  BY DEF LockHeld, Root
<1>1. phases'[b] = "enumerating"
  BY DEF phases, PortPhase
<1>2. phases[b] = "enumerating" => enumeration_run
  BY DEF phases, PortPhase, LockHeld
<1>3. CASE PortStutters
  BY <1>1, <1>2, <1>3 DEF PortStutters
<1>4. CASE RootPort!Next
  BY <1>1, <1>2, <1>4, PhasesDefined
     DEF RootPort!Next, RootPort!Attach, RootPort!Settle, RootPort!Detach, RootPort!LateEnd,
         phases
<1> QED
  BY <1>3, <1>4, RefinedStep

\* With one bus, an enumeration in progress always holds the lock.
THEOREM LockAlwaysHeld == Spec => []LockHeld
<1>1. Init => LockHeld
  BY DEF Init, BusInit, LockHeld
<1>2. IInv /\ IInv' /\ LockHeld /\ [Next]_vars => LockHeld'
  BY HeldStep
<1> QED
  BY <1>1, <1>2, Invariance, PTL DEF Spec

-----------------------------------------------------------------------------
(* The core and the low-level drivers meet in BusSpec: what UsbhLld is     *)
(* shown to implement is what the core asks of a bus.                      *)

LEMMA SubmitsCalls ==
    ASSUME NEW d, NEW chs, Submits(d, chs)
    PROVE  Calls(chs)
BY DEF Submits, Calls

LEMMA BusStep == TypeOK /\ [Next]_vars => [BusNext]_busVars
<1> SUFFICES ASSUME TypeOK, [Next]_vars
             PROVE  [BusNext]_busVars
  OBVIOUS
<1>a. CoreTypeOK /\ channels \in [Chan -> Carried]
  BY DEF TypeOK, BusTypeOK, CoreTypeOK, Carried
<1>1. ASSUME NEW b \in Buses, Reset(b) \/ Disconnected(b)
      PROVE  BusNext
  BY <1>1 DEF Reset, Disconnected, BusNext
<1>2. ASSUME NEW b \in Buses, Connected(b)
      PROVE  BusNext
  <2>1. Submits(Root(b), channels)
    BY <1>2, <1>a, ConnectedTyped
  <2> QED
    BY <1>2, <2>1, SubmitsCalls DEF Connected, BusNext
<1>3. ASSUME NEW b \in Buses, DriverTransfer(Root(b)) \/ DriverControl(Root(b))
      PROVE  Issues \/ UNCHANGED busVars
  <2>0. refused = NoPacket /\ dpstate' = dpstate /\ Root(b) \in Device
    BY <1>3, RootIsDevice DEF DriverTransfer, DriverControl
  <2>1. Submits(Root(b), channels)
    BY <1>3, <1>a, <2>0, DriverSubmits
  <2> QED
    BY <2>0, <2>1 DEF Submits, NoIssue, Issues, busVars
<1>4. ASSUME NEW c \in Chan, Completion(c)
      PROVE  BusNext
  <2>1. PICK r \in Responses(channels[c]), left \in {NoPacket, Halting} :
           PacketCallback(channels[c], r, Released(c, left))
    BY <1>4 DEF Completion
  <2>2. channels[c] \in Packet /\ r \in Status
    BY <1>4, <2>1, ResponsesTyped DEF Completion, Answerable
  <2>3. Calls(Released(c, left))
    BY <1>a, <2>1, <2>2, CallbackTyped, SubmitsCalls
  <2> QED
    BY <1>4, <2>3 DEF Completion, CallsBack, BusNext
<1>5. ASSUME NEW c \in Chan, Halted(c)
      PROVE  BusNext
  BY <1>5 DEF Halted, BusNext
<1>6. CASE Refusal
  <2>1. refused \in Packet /\ "EFATAL" \in Status
    BY <1>6 DEF Refusal, TypeOK, BusTypeOK, Status
  <2>2. Calls(channels)
    BY <1>6, <1>a, <2>1, CallbackTyped, SubmitsCalls DEF Refusal
  <2> QED
    BY <1>6, <2>2 DEF Refusal, Refuses, BusNext
<1>7. CASE UNCHANGED vars
  BY <1>7 DEF vars, busVars
<1> QED
  BY <1>1, <1>2, <1>3, <1>4, <1>5, <1>6, <1>7 DEF Next, BusNext

\* The core needs no more of the low-level drivers than UsbhBus promises, and
\* calls them as UsbhBus says.
THEOREM CoreUsesBus == Spec => BusSpec
<1>1. Init => BusInit
  BY DEF Init
<1>2. TypeOK /\ [Next]_vars => [BusNext]_busVars
  BY BusStep
<1> QED
  BY <1>1, <1>2, TypeCorrect, PTL DEF Spec, BusSpec
=============================================================================
