----------------------------- MODULE UsbhHubProofs -----------------------------
(***************************************************************************)
(* The properties of UsbhHub, for any number of buses, slots, channels and *)
(* ports, on top of the lemmas of the core.                                *)
(***************************************************************************)
EXTENDS UsbhHub, UsbhCoreProofs

-----------------------------------------------------------------------------
(* The inductive invariant.                                                *)

\* The port that a state of the driver is about.
HubWork(h) ==
    /\ h.state = "GET_STATUS_COMPLETE" => h.current_port # Unused
    /\ h.state \in {"PORT_RESET_REQ", "PORT_RESET_COMPLETE", "SLEEP_500_MS"}
          => h.current_port \in PortNum
    /\ h.state = "SLEEP_500_MS" => h.device[h.current_port] # Unused

\* At most one transfer of the driver of d is outstanding.
LoneEvent(d) ==
    /\ EventPacket(refused, d) => \A c \in Chan : ~EventPacket(channels[c], d)
    /\ \A c, e \in Chan : EventPacket(channels[c], d) /\ EventPacket(channels[e], d) => c = e

\* The states in which a request of the hub driver is under way.
RequestState ==
    {"READ_HUB_DESCRIPTOR_COMPLETE", "ENABLE_PORTS", "GET_PORT_STATUS",
     "GET_STATUS_COMPLETE", "PORT_RESET_REQ", "PORT_RESET_COMPLETE"}

\* One thing at a time: a request, the status change endpoint, or neither.
SingleFile(b) ==
    /\ Asked(Root(b)) => hub[b].state \in RequestState
    /\ hub[b].state # "POLL" => NoEvents(Root(b))
    /\ hub[b].state = "POLL" => LoneEvent(Root(b))

\* Packets of endpoint 0 of d have the address -1.
Mute(d) ==
    /\ Ep0Packet(refused, d) => refused.address = -1
    /\ \A c \in Chan : Ep0Packet(channels[c], d) => channels[c].address = -1

\* A hub that lost its address while it was registered never gets an answer, so
\* that its driver does not come as far as its ports.
Unheard(b) ==
    address[Root(b)] < 0 =>
        /\ Mute(Root(b))
        /\ hub[b].state \in {"INITIAL", "READ_HUB_DESCRIPTOR_COMPLETE", "ENABLE_PORTS"}

\* The slot 0 of the bus is never that of a device behind the hub, and a device
\* whose enumeration is to start has an address or lost it.
Ports(b) ==
    /\ \A p \in PortNum : hub[b].device[p] # 0
    /\ hub[b].state = "SLEEP_500_MS" => address[<<b, hub[b].device[hub[b].current_port]>>] # 0

DriverInv(b) ==
    /\ HubWork(hub[b])
    /\ Ports(b)
    /\ drv[Root(b)] # "UNREADY"
    /\ IF drv[Root(b)] = "NULL" THEN hub[b].state = "NONE"
       ELSE SingleFile(b) /\ Unheard(b)

DriversInv ==
    /\ TypeOK /\ hub \in [Buses -> HubState]
    /\ OwnChannels
    /\ \A b \in Buses : PortInv(b) /\ DriverInv(b)

HInv == DriversInv /\ port \in [Buses -> [PortNum -> PortState]]

LEMMA DriversPorts == DriversInv => PortsInv /\ CoreTypeOK /\ BusTypeOK
BY DEF DriversInv, PortsInv, TypeOK, CoreTypeOK

-----------------------------------------------------------------------------
(* The driver data.                                                        *)

LEMMA RestTyped ==
    ASSUME hub \in [Buses -> HubState], NEW b \in Buses, NEW h \in HubState,
           NEW ctl, NEW chs, Rest(b, h, ctl, chs)
    PROVE  /\ hub' \in [Buses -> HubState] /\ hub'[b] = h
           /\ \A a \in Buses \ {b} : hub'[a] = hub[a]
           /\ control' = ctl /\ NoIssue(chs)
BY DEF Rest

LEMMA AskTyped ==
    ASSUME hub \in [Buses -> HubState], NEW b \in Buses, NEW h \in HubState,
           NEW state \in RequestState, NEW request \in HubRequest,
           NEW wIndex \in 0 .. ports_num,
           NEW ctl, NEW chs, Ask(b, h, state, request, wIndex, ctl, chs)
    PROVE  /\ hub' \in [Buses -> HubState]
           /\ hub'[b].state = state
           /\ hub'[b].current_port = h.current_port
           /\ hub'[b].device = h.device
           /\ \A a \in Buses \ {b} : hub'[a] = hub[a]
           /\ \E asked \in Request : DeviceControl(Root(b), "event", asked, ctl, chs)
<1> DEFINE g == [h EXCEPT !.state = state, !.request = request, !.wIndex = wIndex]
<1>1. g \in HubState
  BY DEF HubState, RequestState, EventState
<1>2. g.state = state /\ g.current_port = h.current_port /\ g.device = h.device
  BY DEF HubState
<1>3. hub' = [hub EXCEPT ![b] = g]
  BY DEF Ask
<1>4. \E asked \in Request : DeviceControl(Root(b), "event", asked, ctl, chs)
  BY DEF Ask, Request
<1> QED
  BY <1>1, <1>2, <1>3, <1>4

LEMMA NothingPluggedTyped == NothingPlugged \in PortState
BY DEF NothingPlugged, PortState, PortStage

LEMMA IdleTyped ==
    ASSUME NEW h \in HubState
    PROVE  /\ Idle(h) \in HubState /\ Idle(h).state = "POLL_REQ"
           /\ Idle(h).current_port = h.current_port
           /\ Idle(h).device = h.device
<1>1. NothingPlugged \in PortState /\ 0 \in 0 .. ports_num
  BY NothingPluggedTyped, HubAssumption
<1> QED
  BY <1>1 DEF Idle, HubState, EventState, HubRequest

-----------------------------------------------------------------------------
(* An event of the driver.                                                 *)

\* The slots behind a hub that are taken belong to devices, not to the hub.
Sound(b, h) ==
    /\ h \in HubState
    /\ HubWork(h)
    /\ \A p \in PortNum : h.device[p] # 0
    /\ h.state = "SLEEP_500_MS" => address'[<<b, h.device[h.current_port]>>] # 0

\* Nothing of the core changes but what the slots behind the hub in b hold.
BehindHub(b) ==
    /\ UNCHANGED coreFrame
    /\ address' \in [Device -> Address] /\ drv' \in [Device -> Drv]
    /\ \A d \in Device : d[1] # b \/ d = Root(b) =>
          address'[d] = address[d] /\ drv'[d] = drv[d]

\* The driver asks one thing more of the hub, or nothing.
HubSends(b, ctl, chs) ==
    \/ control' = ctl /\ NoIssue(chs)
    \/ /\ hub'[b].state \in RequestState
       /\ \E request \in Request : DeviceControl(Root(b), "event", request, ctl, chs)

EventDone(b, ctl, chs) ==
    /\ hub' \in [Buses -> HubState]
    /\ \A a \in Buses \ {b} : hub'[a] = hub[a]
    /\ HubWork(hub'[b])
    /\ Ports(b)'
    /\ HubSends(b, ctl, chs)
    /\ BehindHub(b)

LEMMA StaysBehind ==
    ASSUME CoreTypeOK, NEW b, UNCHANGED <<coreFrame, address, drv>>
    PROVE  BehindHub(b)
BY DEF BehindHub, CoreTypeOK, coreFrame

LEMMA RestDone ==
    ASSUME hub \in [Buses -> HubState], NEW b \in Buses, NEW h, Sound(b, h),
           BehindHub(b), NEW ctl, NEW chs, Rest(b, h, ctl, chs)
    PROVE  EventDone(b, ctl, chs)
<1>1. /\ hub' \in [Buses -> HubState] /\ hub'[b] = h
      /\ \A a \in Buses \ {b} : hub'[a] = hub[a]
      /\ control' = ctl /\ NoIssue(chs)
  BY RestTyped DEF Sound
<1>2. Ports(b)'
  BY <1>1 DEF Sound, Ports
<1> QED
  BY <1>1, <1>2 DEF EventDone, HubSends, Sound

LEMMA AskDone ==
    ASSUME hub \in [Buses -> HubState], NEW b \in Buses, NEW h \in HubState,
           \A p \in PortNum : h.device[p] # 0,
           NEW state \in RequestState, NEW request \in HubRequest,
           NEW wIndex \in 0 .. ports_num,
           state = "GET_STATUS_COMPLETE" => h.current_port # Unused,
           state \in {"PORT_RESET_REQ", "PORT_RESET_COMPLETE"} => h.current_port \in PortNum,
           BehindHub(b), NEW ctl, NEW chs, Ask(b, h, state, request, wIndex, ctl, chs)
    PROVE  EventDone(b, ctl, chs)
<1>1. /\ hub' \in [Buses -> HubState] /\ hub'[b].state = state
      /\ hub'[b].current_port = h.current_port /\ hub'[b].device = h.device
      /\ \A a \in Buses \ {b} : hub'[a] = hub[a]
      /\ \E asked \in Request : DeviceControl(Root(b), "event", asked, ctl, chs)
  BY AskTyped
<1>2. state # "SLEEP_500_MS"
  BY DEF RequestState
<1>3. Ports(b)'
  BY <1>1, <1>2 DEF Ports
<1>4. HubWork(hub'[b])
  BY <1>1, <1>2 DEF HubWork
<1> QED
  BY <1>1, <1>3, <1>4 DEF EventDone, HubSends

LEMMA IdleSound ==
    ASSUME NEW b, NEW h \in HubState, \A p \in PortNum : h.device[p] # 0
    PROVE  Sound(b, Idle(h))
BY IdleTyped DEF Sound, HubWork

\* What the driver sets beside its state.
LEMMA FieldsTyped ==
    ASSUME NEW h \in HubState
    PROVE  /\ \A i \in 0 .. ports_num :
                 /\ [h EXCEPT !.index = i] \in HubState
                 /\ [h EXCEPT !.index = i].device = h.device
                 /\ [h EXCEPT !.index = i].current_port = h.current_port
                 /\ [h EXCEPT !.index = i].state = h.state
           /\ \A busy \in BOOLEAN :
                 /\ [h EXCEPT !.busy = busy] \in HubState
                 /\ [h EXCEPT !.busy = busy].device = h.device
                 /\ [h EXCEPT !.busy = busy].current_port = h.current_port
                 /\ [h EXCEPT !.busy = busy].state = h.state
           /\ \A p \in {Unused, 0} \cup PortNum :
                 /\ [h EXCEPT !.current_port = p] \in HubState
                 /\ [h EXCEPT !.current_port = p].device = h.device
                 /\ [h EXCEPT !.current_port = p].current_port = p
                 /\ [h EXCEPT !.current_port = p].state = h.state
BY DEF HubState

LEMMA EnablePortsDone ==
    ASSUME hub \in [Buses -> HubState], CoreTypeOK, NEW b \in Buses, NEW h \in HubState,
           \A p \in PortNum : h.device[p] # 0,
           NEW ctl, NEW chs, EnablePorts(b, h, ctl, chs)
    PROVE  EventDone(b, ctl, chs)
<1>1. BehindHub(b)
  BY StaysBehind DEF EnablePorts
<1>2. h.index \in 0 .. ports_num /\ 0 \in 0 .. ports_num /\ ports_num \in Nat
  BY HubAssumption DEF HubState
<1>3. CASE h.index < ports_num
  <2> DEFINE g == [h EXCEPT !.index = h.index + 1]
  <2>1. h.index + 1 \in 0 .. ports_num
    BY <1>2, <1>3
  <2>2. g \in HubState /\ g.device = h.device
    BY <2>1, FieldsTyped
  <2>3. Ask(b, g, "ENABLE_PORTS", "SET_PORT_POWER", h.index + 1, ctl, chs)
    BY <1>3 DEF EnablePorts
  <2>4. "ENABLE_PORTS" \in RequestState /\ "SET_PORT_POWER" \in HubRequest
    BY DEF RequestState, HubRequest
  <2> HIDE DEF g
  <2> QED
    BY <1>1, <2>1, <2>2, <2>3, <2>4, AskDone
<1>4. CASE ~(h.index < ports_num)
  <2> DEFINE g == [h EXCEPT !.index = 0]
  <2>1. g \in HubState /\ g.device = h.device
    BY <1>2, FieldsTyped
  <2>2. Ask(b, g, "GET_PORT_STATUS", "GET_STATUS", 0, ctl, chs)
    BY <1>4 DEF EnablePorts
  <2>3. "GET_PORT_STATUS" \in RequestState /\ "GET_STATUS" \in HubRequest
    BY DEF RequestState, HubRequest
  <2> HIDE DEF g
  <2> QED
    BY <1>1, <1>2, <2>1, <2>2, <2>3, AskDone
<1> QED
  BY <1>3, <1>4

\* Driver data as an event finds it.
Found(b, h) ==
    /\ h \in HubState
    /\ HubWork(h)
    /\ \A p \in PortNum : h.device[p] # 0
    /\ h.state = "SLEEP_500_MS" => address[<<b, h.device[h.current_port]>>] # 0

LEMMA FoundIsSound ==
    ASSUME NEW b, NEW h, Found(b, h), UNCHANGED address
    PROVE  Sound(b, h)
BY DEF Found, Sound

LEMMA DescriptorReadDone ==
    ASSUME hub \in [Buses -> HubState], CoreTypeOK, NEW b \in Buses, NEW h, Found(b, h),
           NEW r, NEW ctl, NEW chs, HubDescriptorRead(b, h, r, ctl, chs)
    PROVE  EventDone(b, ctl, chs)
<1>1. h \in HubState /\ (\A p \in PortNum : h.device[p] # 0) /\ 0 \in 0 .. ports_num
  BY HubAssumption DEF Found
<1>2. CASE EnablePorts(b, [h EXCEPT !.index = 0], ctl, chs)
  <2> DEFINE g == [h EXCEPT !.index = 0]
  <2>1. g \in HubState /\ g.device = h.device
    BY <1>1, FieldsTyped
  <2>2. EnablePorts(b, g, ctl, chs)
    BY <1>2
  <2> HIDE DEF g
  <2> QED
    BY <1>1, <2>1, <2>2, EnablePortsDone
<1>3. CASE /\ UNCHANGED <<coreFrame, address, drv>>
           /\ Ask(b, h, h.state, "GET_DESCRIPTOR", 0, ctl, chs)
  <2>1. h.state = "READ_HUB_DESCRIPTOR_COMPLETE"
    BY DEF HubDescriptorRead
  <2>2. Ask(b, h, "READ_HUB_DESCRIPTOR_COMPLETE", "GET_DESCRIPTOR", 0, ctl, chs)
    BY <1>3, <2>1
  <2>3. "READ_HUB_DESCRIPTOR_COMPLETE" \in RequestState /\ "GET_DESCRIPTOR" \in HubRequest
    BY DEF RequestState, HubRequest
  <2> QED
    BY <1>1, <1>3, <2>2, <2>3, StaysBehind, AskDone
<1>4. CASE UNCHANGED <<coreFrame, address, drv>> /\ Rest(b, h, ctl, chs)
  BY <1>4, StaysBehind, FoundIsSound, RestDone
<1> QED
  BY <1>2, <1>3, <1>4 DEF HubDescriptorRead

LEMMA PortsPoweredDone ==
    ASSUME hub \in [Buses -> HubState], CoreTypeOK, NEW b \in Buses, NEW h, Found(b, h),
           NEW r, NEW ctl, NEW chs, PortsPowered(b, h, r, ctl, chs)
    PROVE  EventDone(b, ctl, chs)
<1>1. CASE EnablePorts(b, h, ctl, chs)
  BY <1>1, EnablePortsDone DEF Found
<1>2. CASE UNCHANGED <<coreFrame, address, drv>> /\ Rest(b, h, ctl, chs)
  BY <1>2, StaysBehind, FoundIsSound, RestDone
<1> QED
  BY <1>1, <1>2 DEF PortsPowered

LEMMA PortStatusReadDone ==
    ASSUME hub \in [Buses -> HubState], CoreTypeOK, NEW b \in Buses, NEW h, Found(b, h),
           NEW r, NEW ctl, NEW chs, PortStatusRead(b, h, r, ctl, chs)
    PROVE  EventDone(b, ctl, chs)
<1>1. /\ h \in HubState /\ (\A p \in PortNum : h.device[p] # 0)
      /\ h.index \in 0 .. ports_num /\ ports_num \in Nat
      /\ h.state = "GET_PORT_STATUS"
      /\ UNCHANGED <<coreFrame, address, drv>> /\ BehindHub(b)
  BY HubAssumption, StaysBehind DEF Found, HubState, PortStatusRead
<1>2. CASE /\ r = "OK" /\ h.index < ports_num
           /\ Ask(b, [h EXCEPT !.index = @ + 1], h.state, "GET_STATUS", h.index + 1, ctl, chs)
  <2> DEFINE g == [h EXCEPT !.index = h.index + 1]
  <2>1. h.index + 1 \in 0 .. ports_num
    BY <1>1, <1>2
  <2>2. g \in HubState /\ g.device = h.device
    BY <1>1, <2>1, FieldsTyped
  <2>3. Ask(b, g, "GET_PORT_STATUS", "GET_STATUS", h.index + 1, ctl, chs)
    BY <1>1, <1>2
  <2>4. "GET_PORT_STATUS" \in RequestState /\ "GET_STATUS" \in HubRequest
    BY DEF RequestState, HubRequest
  <2> HIDE DEF g
  <2> QED
    BY <1>1, <2>1, <2>2, <2>3, <2>4, AskDone
<1>3. CASE Rest(b, [Idle(h) EXCEPT !.busy = FALSE], ctl, chs)
  <2> DEFINE g == [Idle(h) EXCEPT !.busy = FALSE]
  <2>1. /\ Idle(h) \in HubState /\ Idle(h).state = "POLL_REQ"
        /\ Idle(h).device = h.device
    BY <1>1, IdleTyped
  <2>2. g \in HubState /\ g.device = h.device /\ g.state = "POLL_REQ"
    BY <2>1, FieldsTyped
  <2>3. Rest(b, g, ctl, chs)
    BY <1>3
  <2> HIDE DEF g
  <2>4. Sound(b, g)
    BY <1>1, <2>2 DEF Sound, HubWork
  <2> QED
    BY <1>1, <2>3, <2>4, RestDone
<1>4. CASE Rest(b, h, ctl, chs)
  BY <1>1, <1>4, FoundIsSound, RestDone
<1> QED
  BY <1>2, <1>3, <1>4 DEF PortStatusRead

LEMMA StatusChangeDone ==
    ASSUME hub \in [Buses -> HubState], CoreTypeOK, NEW b \in Buses, NEW h, Found(b, h),
           NEW r, NEW ctl, NEW chs, StatusChange(b, h, r, ctl, chs)
    PROVE  EventDone(b, ctl, chs)
<1>1. /\ h \in HubState /\ (\A p \in PortNum : h.device[p] # 0)
      /\ UNCHANGED <<coreFrame, address, drv>> /\ BehindHub(b)
  BY StaysBehind DEF Found, StatusChange
<1>2. CASE Rest(b, Idle(h), ctl, chs)
  BY <1>1, <1>2, IdleSound, RestDone
<1>3. ASSUME NEW p \in {Unused, 0} \cup PortNum, p # Unused,
             Ask(b, [h EXCEPT !.current_port = p], "GET_STATUS_COMPLETE",
                 "GET_STATUS", p, ctl, chs)
      PROVE  EventDone(b, ctl, chs)
  <2> DEFINE g == [h EXCEPT !.current_port = p]
  <2>1. g \in HubState /\ g.device = h.device /\ g.current_port = p
    BY <1>1, FieldsTyped
  <2>2. Ask(b, g, "GET_STATUS_COMPLETE", "GET_STATUS", p, ctl, chs)
    BY <1>3
  <2>3. /\ "GET_STATUS_COMPLETE" \in RequestState /\ "GET_STATUS" \in HubRequest
        /\ p \in 0 .. ports_num
    BY <1>3, HubAssumption DEF RequestState, HubRequest, PortNum
  <2> HIDE DEF g
  <2> QED
    BY <1>1, <1>3, <2>1, <2>2, <2>3, AskDone
<1>4. CASE Rest(b, [Idle(h) EXCEPT !.state = "NONE"], ctl, chs)
  <2> DEFINE g == [Idle(h) EXCEPT !.state = "NONE"]
  <2>1. Idle(h) \in HubState /\ Idle(h).device = h.device
    BY <1>1, IdleTyped
  <2>2. g \in HubState /\ g.device = h.device /\ g.state = "NONE"
    BY <2>1 DEF HubState, EventState
  <2>3. Rest(b, g, ctl, chs)
    BY <1>4
  <2> HIDE DEF g
  <2>4. Sound(b, g)
    BY <1>1, <2>2 DEF Sound, HubWork
  <2> QED
    BY <1>1, <2>3, <2>4, RestDone
<1>5. CASE /\ r = "OK"
           /\ \E p \in {Unused, 0} \cup PortNum :
                 /\ ReportedPort(b, p)
                 /\ IF p = Unused \/ (h.current_port >= 1 /\ h.current_port # p)
                    THEN Rest(b, Idle(h), ctl, chs)
                    ELSE Ask(b, [h EXCEPT !.current_port = p],
                             "GET_STATUS_COMPLETE", "GET_STATUS", p, ctl, chs)
  <2>1. PICK p \in {Unused, 0} \cup PortNum :
           IF p = Unused \/ (h.current_port >= 1 /\ h.current_port # p)
           THEN Rest(b, Idle(h), ctl, chs)
           ELSE Ask(b, [h EXCEPT !.current_port = p],
                    "GET_STATUS_COMPLETE", "GET_STATUS", p, ctl, chs)
    BY <1>5
  <2> QED
    BY <1>2, <1>3, <2>1
<1> QED
  BY <1>2, <1>4, <1>5 DEF StatusChange

LEMMA StatusReadDone ==
    ASSUME hub \in [Buses -> HubState], CoreTypeOK, NEW b \in Buses, NEW h, Found(b, h),
           NEW r, NEW ctl, NEW chs, StatusRead(b, h, r, ctl, chs)
    PROVE  EventDone(b, ctl, chs)
<1> DEFINE p == h.current_port
<1>1. /\ h \in HubState /\ (\A q \in PortNum : h.device[q] # 0)
      /\ h.state = "GET_STATUS_COMPLETE" /\ p # Unused
      /\ UNCHANGED <<coreFrame, address, drv>> /\ BehindHub(b)
  BY StaysBehind DEF Found, StatusRead, HubWork
<1>2. p \in {0} \cup PortNum
  BY <1>1 DEF HubState
<1>3. CASE Rest(b, Idle(h), ctl, chs)
  BY <1>1, <1>3, IdleSound, RestDone
<1>4. CASE Rest(b, h, ctl, chs)
  BY <1>1, <1>4, FoundIsSound, RestDone
<1>5. CASE p # 0 /\ Ask(b, h, "PORT_RESET_REQ", "CLEAR_C_PORT_CONNECTION", p, ctl, chs)
  <2>1. /\ "PORT_RESET_REQ" \in RequestState /\ "CLEAR_C_PORT_CONNECTION" \in HubRequest
        /\ p \in PortNum /\ p \in 0 .. ports_num
    BY <1>2, <1>5, HubAssumption DEF RequestState, HubRequest, PortNum
  <2> QED
    BY <1>1, <1>5, <2>1, AskDone
<1>6. CASE p # 0 /\ Ask(b, h, "PORT_RESET_COMPLETE", "CLEAR_C_PORT_RESET", p, ctl, chs)
  <2>1. /\ "PORT_RESET_COMPLETE" \in RequestState /\ "CLEAR_C_PORT_RESET" \in HubRequest
        /\ p \in PortNum /\ p \in 0 .. ports_num
    BY <1>2, <1>6, HubAssumption DEF RequestState, HubRequest, PortNum
  <2> QED
    BY <1>1, <1>6, <2>1, AskDone
<1> QED
  BY <1>3, <1>4, <1>5, <1>6 DEF StatusRead

\* A device that is unplugged gives up its slot.
LEMMA UnpluggedTyped ==
    ASSUME CoreTypeOK, NEW b \in Buses, NEW s \in Slot \ {0}, UNCHANGED coreFrame,
           DeviceRemove({<<b, s>>})
    PROVE  BehindHub(b)
<1>1. <<b, s>> # Root(b)
  BY DEF Root
<1>2. -1 \in Address /\ "NULL" \in Drv
  BY ZeroOneAddress DEF Drv
<1> QED
  BY <1>1, <1>2 DEF BehindHub, DeviceRemove, CoreTypeOK, coreFrame

LEMMA ConnectionClearedDone ==
    ASSUME hub \in [Buses -> HubState], CoreTypeOK, NEW b \in Buses, NEW h, Found(b, h),
           NEW r, NEW ctl, NEW chs, ConnectionCleared(b, h, r, ctl, chs)
    PROVE  EventDone(b, ctl, chs)
<1> DEFINE p == h.current_port
<1>1. /\ h \in HubState /\ (\A q \in PortNum : h.device[q] # 0)
      /\ p \in PortNum /\ UNCHANGED coreFrame
  BY DEF Found, ConnectionCleared, HubWork
<1>2. h.device \in [PortNum -> Slot \cup {Unused}]
  BY <1>1 DEF HubState
<1>3. CASE /\ UNCHANGED <<address, drv>>
           /\ Ask(b, [h EXCEPT !.busy = TRUE], "GET_PORT_STATUS", "SET_PORT_RESET", p, ctl, chs)
  <2> DEFINE g == [h EXCEPT !.busy = TRUE]
  <2>1. g \in HubState /\ g.device = h.device
    BY <1>1, FieldsTyped
  <2>2. Ask(b, g, "GET_PORT_STATUS", "SET_PORT_RESET", p, ctl, chs)
    BY <1>3
  <2>3. /\ "GET_PORT_STATUS" \in RequestState /\ "SET_PORT_RESET" \in HubRequest
        /\ p \in 0 .. ports_num
    BY <1>1, HubAssumption DEF RequestState, HubRequest, PortNum
  <2> HIDE DEF g
  <2> QED
    BY <1>1, <1>3, <2>1, <2>2, <2>3, StaysBehind, AskDone
<1>4. CASE /\ h.device[p] # Unused
           /\ DeviceRemove({<<b, h.device[p]>>})
           /\ Rest(b, [Idle(h) EXCEPT !.device[p] = Unused, !.busy = FALSE,
                                      !.current_port = Unused], ctl, chs)
  <2> DEFINE g == [Idle(h) EXCEPT !.device[p] = Unused, !.busy = FALSE,
                                  !.current_port = Unused]
  <2>1. /\ Idle(h) \in HubState /\ Idle(h).state = "POLL_REQ"
        /\ Idle(h).device = h.device
    BY <1>1, IdleTyped
  <2>2. /\ g \in HubState /\ g.device = [h.device EXCEPT ![p] = Unused]
        /\ g.state = "POLL_REQ"
    BY <1>2, <2>1 DEF HubState
  <2>3. Rest(b, g, ctl, chs)
    BY <1>4
  <2>4. \A q \in PortNum : g.device[q] # 0
    BY <1>1, <1>2, <2>2 DEF Unused
  <2> HIDE DEF g
  <2>5. Sound(b, g)
    BY <2>2, <2>4 DEF Sound, HubWork
  <2>6. BehindHub(b)
    BY <1>1, <1>2, <1>4, UnpluggedTyped
  <2> QED
    BY <2>3, <2>5, <2>6, RestDone
<1>5. CASE UNCHANGED <<address, drv>> /\ Rest(b, Idle(h), ctl, chs)
  BY <1>1, <1>5, StaysBehind, IdleSound, RestDone
<1> QED
  BY <1>3, <1>4, <1>5 DEF ConnectionCleared

\* A new device gets a slot, and with it an address.
LEMMA PluggedTyped ==
    ASSUME CoreTypeOK, NEW b \in Buses, NEW s \in Slot, FreeSlot(b, s),
           address[Root(b)] >= 0, UNCHANGED <<coreFrame, drv>>,
           address' = [address EXCEPT ![<<b, s>>] = s + 1]
    PROVE  /\ BehindHub(b) /\ s # 0
           /\ address'[<<b, s>>] = s + 1 /\ s + 1 # 0
<1>1. s # 0
  BY RootIsDevice DEF FreeSlot, Root, CoreTypeOK, Address
<1>2. s + 1 \in Address /\ s + 1 # 0
  BY BusAssumption DEF Slot, Address
<1>3. <<b, s>> \in Device /\ <<b, s>> # Root(b)
  BY <1>1 DEF Device, Root
<1>4. /\ address' \in [Device -> Address] /\ address'[<<b, s>>] = s + 1
      /\ \A d \in Device : d[1] # b \/ d = Root(b) => address'[d] = address[d]
  BY <1>2, <1>3 DEF CoreTypeOK
<1> QED
  BY <1>1, <1>2, <1>4 DEF BehindHub, CoreTypeOK, coreFrame

LEMMA ResetClearedDone ==
    ASSUME hub \in [Buses -> HubState], CoreTypeOK, NEW b \in Buses, NEW h, Found(b, h),
           h.state = "PORT_RESET_COMPLETE" => address[Root(b)] >= 0,
           NEW r, NEW ctl, NEW chs, ResetCleared(b, h, r, ctl, chs)
    PROVE  EventDone(b, ctl, chs)
<1> DEFINE p == h.current_port
<1>1. /\ h \in HubState /\ (\A q \in PortNum : h.device[q] # 0)
      /\ p \in PortNum /\ UNCHANGED <<coreFrame, drv>>
      /\ address[Root(b)] >= 0
  BY DEF Found, ResetCleared, HubWork
<1>2. h.device \in [PortNum -> Slot \cup {Unused}]
  BY <1>1 DEF HubState
<1>3. ASSUME NEW s \in Slot, FreeSlot(b, s), address' = [address EXCEPT ![<<b, s>>] = s + 1],
             Ask(b, [h EXCEPT !.device[p] = s, !.current_port = Unused],
                 "GET_PORT_STATUS", "CLEAR_PORT_ENABLE", p, ctl, chs)
      PROVE  EventDone(b, ctl, chs)
  <2> DEFINE g == [h EXCEPT !.device[p] = s, !.current_port = Unused]
  <2>0. BehindHub(b) /\ s # 0
    BY <1>1, <1>3, PluggedTyped
  <2>1. g \in HubState /\ g.device = [h.device EXCEPT ![p] = s]
    BY <1>1, <1>2 DEF HubState
  <2>2. Ask(b, g, "GET_PORT_STATUS", "CLEAR_PORT_ENABLE", p, ctl, chs)
    BY <1>3
  <2>3. /\ "GET_PORT_STATUS" \in RequestState /\ "CLEAR_PORT_ENABLE" \in HubRequest
        /\ p \in 0 .. ports_num
    BY <1>1, HubAssumption DEF RequestState, HubRequest, PortNum
  <2>4. \A q \in PortNum : g.device[q] # 0
    BY <1>1, <1>2, <2>0, <2>1
  <2> HIDE DEF g
  <2> QED
    BY <2>0, <2>1, <2>2, <2>3, <2>4, AskDone
<1>4. ASSUME NEW s \in Slot, FreeSlot(b, s), address' = [address EXCEPT ![<<b, s>>] = s + 1],
             Rest(b, [h EXCEPT !.device[p] = s, !.state = "SLEEP_500_MS"], ctl, chs)
      PROVE  EventDone(b, ctl, chs)
  <2> DEFINE g == [h EXCEPT !.device[p] = s, !.state = "SLEEP_500_MS"]
  <2>0. BehindHub(b) /\ s # 0 /\ address'[<<b, s>>] # 0
    BY <1>1, <1>4, PluggedTyped
  <2>1. /\ g \in HubState /\ g.device = [h.device EXCEPT ![p] = s]
        /\ g.current_port = p /\ g.state = "SLEEP_500_MS"
    BY <1>1, <1>2 DEF HubState, EventState
  <2>2. Rest(b, g, ctl, chs)
    BY <1>4
  <2>3. (\A q \in PortNum : g.device[q] # 0) /\ g.device[p] = s /\ s # Unused
    BY <1>1, <1>2, <2>0, <2>1, BusAssumption DEF Slot, Unused
  <2> HIDE DEF g
  <2>4. Sound(b, g)
    BY <1>1, <2>0, <2>1, <2>3 DEF Sound, HubWork
  <2> QED
    BY <2>0, <2>2, <2>4, RestDone
<1>5. CASE UNCHANGED address /\ Rest(b, h, ctl, chs)
  BY <1>1, <1>5, StaysBehind, FoundIsSound, RestDone
<1>6. CASE UNCHANGED address /\ Rest(b, Idle(h), ctl, chs)
  BY <1>1, <1>6, StaysBehind, IdleSound, RestDone
<1> QED
  BY <1>3, <1>4, <1>5, <1>6 DEF ResetCleared

\* Whatever the hub answers, the driver does one thing next, about a port it knows.
LEMMA EventCompletes ==
    ASSUME hub \in [Buses -> HubState], CoreTypeOK, NEW b \in Buses, NEW h, Found(b, h),
           h.state = "PORT_RESET_COMPLETE" => address[Root(b)] >= 0,
           NEW r, NEW ctl, NEW chs, HubEvent(b, h, r, ctl, chs)
    PROVE  EventDone(b, ctl, chs)
<1>1. CASE EventIgnored(b, h, ctl, chs)
  BY <1>1, StaysBehind, FoundIsSound, RestDone DEF EventIgnored
<1> QED
  BY <1>1, DescriptorReadDone, PortsPoweredDone, PortStatusReadDone, StatusChangeDone,
     StatusReadDone, ConnectionClearedDone, ResetClearedDone DEF HubEvent

-----------------------------------------------------------------------------
(* What the driver sends keeps the invariant of the root port.             *)

\* A request of the driver that finds the pipe idle.
LEMMA RequestSent ==
    ASSUME CoreTypeOK, NEW d \in Device, address'[d] = address[d],
           NEW ctl \in [Device -> Control], ctl[d].state = "NONE",
           NEW chs \in [Chan -> Carried], Clear(d, chs), EventFree(d, chs),
           NEW request \in Request, DeviceControl(d, "event", request, ctl, chs)
    PROVE  NoEvents(d)' /\ (address[d] < 0 => Mute(d)')
<1>1. address[d] \in Address /\ (address[d] < 0 => address[d] = -1)
  BY BusAssumption DEF CoreTypeOK, Address
<1>2. PICK p \in Packet : p = NewPacket(d, "SETUP", "control_state_machine")
  BY <1>1, NewPacketTyped DEF Kind, Callback
<1>3. Ep0Packet(p, d) /\ p.address = address[d]
  BY <1>2 DEF Ep0Packet, NewPacket
<1>4. Issue(p, chs)
  BY <1>2 DEF DeviceControl
<1>5. NoEvents(d)' /\ Alone(d, p)'
  BY <1>3, <1>4, PacketSubmitted
<1>6. /\ Ep0Packet(refused', d) => refused' = p
      /\ \A c \in Chan : Ep0Packet(channels'[c], d) => channels'[c] = p
  BY <1>5 DEF Alone
<1>7. /\ Ep0Packet(refused', d) => refused'.address = address[d]
      /\ \A c \in Chan : Ep0Packet(channels'[c], d) => channels'[c].address = address[d]
  BY <1>3, <1>6
<1> QED
  BY <1>1, <1>5, <1>7 DEF Mute, Ep0Packet

LEMMA SentUp ==
    ASSUME CoreTypeOK, NEW b \in Buses, Up(Root(b)), drv[Root(b)] = "READY",
           NEW ctl \in [Device -> Control], ctl[Root(b)].state = "NONE",
           NEW chs \in [Chan -> Carried], Clear(Root(b), chs), EventFree(Root(b), chs),
           BehindHub(b), HubSends(b, ctl, chs)
    PROVE  /\ Up(Root(b))' /\ NoEvents(Root(b))'
           /\ address[Root(b)] < 0 => Mute(Root(b))'
           /\ Submits(Root(b), chs)
           /\ control' \in [Device -> Control]
           /\ \A e \in Device \ {Root(b)} : control'[e] = ctl[e]
           /\ Asked(Root(b))' => hub'[b].state \in RequestState
<1> DEFINE d == Root(b)
<1>0. /\ d \in Device /\ address'[d] = address[d] /\ drv'[d] = drv[d]
      /\ address_temporary' = address_temporary /\ estate' = estate
      /\ address_temporary # 0 /\ address'[d] \in Address
  BY RootIsDevice DEF BehindHub, coreFrame, Up
<1> HIDE DEF d
<1>1. CASE control' = ctl /\ NoIssue(chs)
  <2>1. Silent(d)' /\ NoEvents(d)'
    BY <1>1, NothingSubmitted DEF d
  <2>2. Mute(d)'
    BY <2>1 DEF Mute, Silent
  <2>3. control'[d].state = "NONE" /\ ~Asked(d)'
    BY <1>1 DEF Asked, d
  <2>4. ~Enumerating(d)
    BY DEF Up, d
  <2>5. ~Enumerating(d)'
    BY <1>0, <2>4 DEF Enumerating
  <2>6. NothingAsked(d)'
    BY <2>3, <2>5 DEF NothingAsked
  <2>7. Up(d)'
    BY <1>0, <2>1, <2>4, <2>5, <2>6 DEF Up, Enumerating
  <2> QED
    BY <1>1, <2>1, <2>2, <2>3, <2>7 DEF Submits, d
<1>2. CASE /\ hub'[b].state \in RequestState
           /\ \E request \in Request : DeviceControl(d, "event", request, ctl, chs)
  <2>1. PICK request \in Request : DeviceControl(d, "event", request, ctl, chs)
    BY <1>2
  <2>2. Up(d)'
    BY <1>0, <2>1, DriverAsks DEF d
  <2>3. NoEvents(d)' /\ (address[d] < 0 => Mute(d)')
    BY <1>0, <2>1, RequestSent DEF d
  <2>4. /\ control' \in [Device -> Control]
        /\ \A e \in Device \ {d} : control'[e] = ctl[e]
        /\ Submits(d, chs)
    BY <1>0, <2>1, DeviceControlTyped
  <2> QED
    BY <1>2, <2>2, <2>3, <2>4 DEF d
<1> QED
  BY <1>1, <1>2 DEF HubSends, d

\* A driver that asked for nothing finds the pipe idle and endpoint 0 free.
LEMMA NothingAskedIdle ==
    ASSUME CoreTypeOK, NEW d \in Device, Up(d), drv[d] = "READY", ~Asked(d)
    PROVE  control[d].state = "NONE" /\ Silent(d)
<1>1. ~Enumerating(d)
  BY DEF Up
<1>2. ~Raw(estate[d])
  BY <1>1 DEF Raw, RawKind, Enumerating
<1>3. control[d].callback \in {"device_enumerate", "event"}
  BY DEF CoreTypeOK, Control
<1> QED
  BY <1>1, <1>2, <1>3 DEF Up, NothingAsked, PipePacket, RawPacket, Asked

-----------------------------------------------------------------------------
(* Every step keeps the invariant.                                         *)

\* The addresses that an enumeration of a device of b may start with.
AddressesKept(b) ==
    \A s \in Slot \ {0} : address[<<b, s>>] # 0 => address'[<<b, s>>] # 0

\* A driver that is called for nothing.
LEMMA DriverKept ==
    ASSUME NEW b \in Buses, hub \in [Buses -> HubState], DriverInv(b),
           PacketsKept(Root(b)), hub'[b] = hub[b], drv'[Root(b)] = drv[Root(b)],
           drv[Root(b)] # "NULL" => /\ address'[Root(b)] = address[Root(b)]
                                    /\ control'[Root(b)] = control[Root(b)],
           AddressesKept(b)
    PROVE  DriverInv(b)'
<1> DEFINE d == Root(b)
<1>1. HubWork(hub'[b]) /\ drv'[d] # "UNREADY"
  BY DEF DriverInv
<1>2. Ports(b)'
  <2>1. (\A p \in PortNum : hub'[b].device[p] # 0)
    BY DEF DriverInv, Ports
  <2>2. ASSUME hub[b].state = "SLEEP_500_MS"
        PROVE  address'[<<b, hub[b].device[hub[b].current_port]>>] # 0
    <3>1. hub[b].current_port \in PortNum
      BY <2>2 DEF DriverInv, HubWork
    <3>2. hub[b].device[hub[b].current_port] \in Slot \ {0}
      BY <2>2, <3>1 DEF DriverInv, HubWork, Ports, HubState
    <3> QED
      BY <2>2, <3>2 DEF DriverInv, Ports, AddressesKept
  <2> QED
    BY <2>1, <2>2 DEF Ports
<1>3. CASE drv[d] = "NULL"
  BY <1>1, <1>2, <1>3 DEF DriverInv
<1>4. CASE drv[d] # "NULL"
  <2>1. SingleFile(b) /\ Unheard(b)
    BY <1>4 DEF DriverInv
  <2>2. Asked(d)' = Asked(d) /\ address'[d] = address[d]
    BY <1>4 DEF Asked
  <2>3. /\ NoEvents(d) => NoEvents(d)'
        /\ LoneEvent(d) => LoneEvent(d)'
        /\ Mute(d) => Mute(d)'
    <3> HIDE DEF d
    <3> QED
      BY PacketsKeptSame DEF PacketsKept, d, LoneEvent, Mute, EventPacket, Ep0Packet, Of
  <2>4. SingleFile(b)' /\ Unheard(b)'
    BY <2>1, <2>2, <2>3 DEF SingleFile, Unheard
  <2> QED
    BY <1>1, <1>2, <1>4, <2>4 DEF DriverInv
<1> QED
  BY <1>3, <1>4

\* A step about device d, which may submit one packet of d.
LEMMA DeviceStep ==
    ASSUME DriversInv, NEW d \in Device, NEW chs \in [Chan -> Carried],
           TakenFrom(d, chs), refused = NoPacket \/ Of(refused, d), Submits(d, chs),
           CoreTypeOK', dpstate' \in [Buses -> PollState], hub' \in [Buses -> HubState],
           RootsKept(d), address_temporary' = address_temporary \/ address_temporary' # 0,
           \A b \in Buses : Root(b) = d => PortInv(b)',
           \A b \in Buses : \/ DriverInv(b)'
                            \/ Root(b) # d /\ hub'[b] = hub[b] /\ AddressesKept(b)
    PROVE  DriversInv'
<1>1. PortsInv
  BY DriversPorts
<1>2. OwnChannels' /\ \A a \in Buses : PortInv(a)'
  BY <1>1, OneDeviceStep
<1>3. TypeOK'
  BY SubmitsTyped DEF TypeOK, BusTypeOK, CoreTypeOK, Carried
<1>4. \A e \in Device \ {d} : PacketsKept(e)
  BY SubmitsKeepsOthers
<1>5. ASSUME NEW b \in Buses
      PROVE  DriverInv(b)'
  <2>1. CASE Root(b) # d /\ hub'[b] = hub[b] /\ AddressesKept(b)
    BY <1>4, <2>1, RootIsDevice, DriverKept DEF DriversInv, RootsKept
  <2> QED
    BY <2>1
<1> QED
  BY <1>2, <1>3, <1>5 DEF DriversInv

\* A step of a device behind a hub.
LEMMA LeafStep ==
    ASSUME DriversInv, NEW d \in Device, d[2] # 0, NEW chs \in [Chan -> Carried],
           TakenFrom(d, chs), refused = NoPacket \/ Of(refused, d), Submits(d, chs),
           CoreTypeOK', OthersKept(d), dpstate' = dpstate, hub' = hub,
           address_temporary' = address_temporary,
           address[d] # 0 => address'[d] # 0
    PROVE  DriversInv'
<1>1. \A b \in Buses : Root(b) # d
  BY DEF Root
<1>2. RootsKept(d)
  BY <1>1, RootIsDevice DEF RootsKept, OthersKept
<1>3. \A b \in Buses : AddressesKept(b)
  BY DEF AddressesKept, OthersKept, Device
<1>4. dpstate' \in [Buses -> PollState] /\ hub' \in [Buses -> HubState]
  BY DriversPorts DEF DriversInv, BusTypeOK
<1> QED
  BY <1>1, <1>2, <1>3, <1>4, DeviceStep

\* The port of a device with a driver is up.
LEMMA DriverUp ==
    ASSUME DriversInv, NEW b \in Buses, drv[Root(b)] # "NULL"
    PROVE  /\ dpstate[b] = "RUN" /\ Up(Root(b)) /\ drv[Root(b)] = "READY"
           /\ SingleFile(b) /\ Unheard(b) /\ HubWork(hub[b]) /\ Ports(b)
<1>1. dpstate[b] = "RUN" /\ Up(Root(b))
  BY DriversPorts, PortInvCases DEF Down, Flushing
<1>2. drv[Root(b)] \in Drv
  BY RootIsDevice, DriversPorts DEF CoreTypeOK
<1> QED
  BY <1>1, <1>2 DEF DriversInv, DriverInv, Drv

\* The driver of a hub goes on: its last question is answered, or it has none yet.
LEMMA EventStep ==
    ASSUME DriversInv, NEW b \in Buses, drv[Root(b)] # "NULL",
           refused = NoPacket \/ Of(refused, Root(b)),
           NEW ctl \in [Device -> Control], ctl[Root(b)].state = "NONE",
           \A e \in Device \ {Root(b)} : ctl[e] = control[e],
           NEW chs \in [Chan -> Carried], TakenFrom(Root(b), chs),
           Clear(Root(b), chs), EventFree(Root(b), chs),
           dpstate' = dpstate, EventDone(b, ctl, chs),
           address[Root(b)] < 0 =>
              hub'[b].state \in {"INITIAL", "READ_HUB_DESCRIPTOR_COMPLETE", "ENABLE_PORTS"}
    PROVE  DriversInv'
<1> DEFINE d == Root(b)
<1>0. d \in Device /\ CoreTypeOK /\ BusTypeOK /\ \A a \in Buses : Root(a) # d <=> a # b
  BY RootIsDevice, DriversPorts DEF Root
<1>1. dpstate[b] = "RUN" /\ Up(d) /\ drv[d] = "READY"
  BY DriverUp
<1>2. /\ hub' \in [Buses -> HubState] /\ BehindHub(b) /\ HubSends(b, ctl, chs)
      /\ HubWork(hub'[b]) /\ Ports(b)' /\ \A a \in Buses \ {b} : hub'[a] = hub[a]
  BY DEF EventDone
<1>3. /\ Up(d)' /\ NoEvents(d)'
      /\ address[d] < 0 => Mute(d)'
      /\ Submits(d, chs)
      /\ control' \in [Device -> Control]
      /\ \A e \in Device \ {d} : control'[e] = ctl[e]
      /\ Asked(d)' => hub'[b].state \in RequestState
  BY <1>0, <1>1, <1>2, SentUp
<1>4. CoreTypeOK' /\ address_temporary' = address_temporary
  BY <1>0, <1>2, <1>3 DEF CoreTypeOK, BehindHub, coreFrame
<1>5. RootsKept(d)
  <2>1. ASSUME NEW a \in Buses, a # b
        PROVE  /\ address'[Root(a)] = address[Root(a)] /\ drv'[Root(a)] = drv[Root(a)]
               /\ estate'[Root(a)] = estate[Root(a)] /\ control'[Root(a)] = control[Root(a)]
    <3>1. Root(a) \in Device \ {d} /\ Root(a)[1] # b
      BY <2>1, <1>0, RootIsDevice
    <3> QED
      BY <3>1, <1>2, <1>3 DEF BehindHub, coreFrame
  <2> QED
    BY <1>0, <2>1 DEF RootsKept
<1>6. PortInv(b)'
  BY <1>1, <1>3 DEF PortInv
<1>7. DriverInv(b)'
  <2>1. drv'[d] = "READY" /\ address'[d] = address[d]
    BY <1>0, <1>1, <1>2 DEF BehindHub
  <2>2. SingleFile(b)'
    BY <1>3 DEF SingleFile, LoneEvent, NoEvents
  <2>3. Unheard(b)'
    BY <1>3, <2>1 DEF Unheard
  <2> QED
    BY <1>2, <2>1, <2>2, <2>3 DEF DriverInv
<1>8. ASSUME NEW a \in Buses \ {b}
      PROVE  Root(a) # d /\ hub'[a] = hub[a] /\ AddressesKept(a)
  BY <1>0, <1>2 DEF BehindHub, AddressesKept, Device
<1>9. dpstate' \in [Buses -> PollState]
  BY <1>0 DEF BusTypeOK
<1> HIDE DEF d
<1>10. \A a \in Buses : Root(a) = d => PortInv(a)'
  BY <1>0, <1>6
<1>11. \A a \in Buses : DriverInv(a)' \/ (Root(a) # d /\ hub'[a] = hub[a] /\ AddressesKept(a))
  BY <1>7, <1>8
<1> QED
  BY <1>0, <1>2, <1>3, <1>4, <1>5, <1>9, <1>10, <1>11, DeviceStep DEF d

\* Packet p has been answered with r, and chs is left.
Reported(p, r, chs) ==
    /\ TakenFrom(p.dev, chs)
    /\ refused = NoPacket \/ Of(refused, p.dev)
    /\ p.address = -1 => r \notin {"OK", "ERRSIZ"}
    /\ dpstate' = dpstate
    /\ \A b \in Buses : p.dev = Root(b) =>
          /\ Answers(Root(b), p, chs)
          /\ p.callback = "event" /\ LoneEvent(Root(b)) => EventFree(Root(b), chs)

\* A device that has an address does not return to the default one by itself.
LEMMA EnumerateAddress ==
    ASSUME CoreTypeOK, NEW d \in Device, NEW r, NEW ctl, NEW chs,
           DeviceEnumerate(d, r, ctl, chs), address[d] # 0
    PROVE  address'[d] # 0
<1> USE DEF CoreTypeOK
<1>1. CASE EnumTerminate(d, ctl, chs)
  BY <1>1 DEF EnumTerminate
<1>2. CASE address' = address
  BY <1>2
<1>3. CASE SetAddressComplete(d, r, ctl, chs)
  BY <1>1, <1>3 DEF SetAddressComplete, NewAddress
<1>4. CASE SetConfigurationComplete(d, r, ctl, chs)
  BY <1>1, <1>4 DEF SetConfigurationComplete, DeviceRegister
<1> QED
  BY <1>1, <1>2, <1>3, <1>4
     DEF DeviceEnumerate, DeviceDtReadComplete, ConfigurationSetupSent, EnumRaw,
         HeaderReadComplete, ConfigurationReadComplete

LEMMA CallbackAddress ==
    ASSUME CoreTypeOK, NEW p \in Packet, NEW r, NEW chs, CoreCallback(p, r, chs),
           address[p.dev] # 0
    PROVE  address'[p.dev] # 0
<1>1. p.dev \in Device
  BY DEF Packet
<1> QED
  BY <1>1, EnumerateAddress DEF CoreCallback, ControlAdvance, ControlIgnored, coreVars

LEMMA LeafCallback ==
    ASSUME DriversInv, NEW p \in Packet, NEW r \in Status, NEW chs \in [Chan -> Carried],
           Reported(p, r, chs), p.dev[2] # 0, HubPacketCallback(p, r, chs)
    PROVE  DriversInv'
<1> DEFINE d == p.dev
<1>0. d \in Device /\ CoreTypeOK /\ \A b \in Buses : Root(b) \in Device \ {d}
  BY RootIsDevice, DriversPorts DEF Packet, Root
<1>1. ASSUME CoreTypeOK', OthersKept(d), Submits(d, chs), hub' = hub,
             address_temporary' = address_temporary, address[d] # 0 => address'[d] # 0
      PROVE  DriversInv'
  BY <1>0, <1>1, LeafStep DEF Reported
<1>2. CASE HubCoreCallback(p, r, chs)
  <2>1. PacketCallback(p, r, chs) /\ CoreCallback(p, r, chs)
    BY <1>2 DEF HubCoreCallback, PacketCallback
  <2>2. /\ CoreTypeOK' /\ OthersKept(d) /\ Submits(d, chs)
        /\ address_temporary' = address_temporary
    BY <1>0, <2>1, CallbackTyped
  <2>3. \A b \in Buses : drv'[Root(b)] = drv[Root(b)]
    BY <1>0, <2>2 DEF OthersKept
  <2>4. hub' = hub
    BY <1>2, <2>3 DEF HubCoreCallback, DriversInv
  <2> QED
    BY <1>0, <1>1, <2>1, <2>2, <2>4, CallbackAddress
<1>3. CASE LeafEvent(p, chs)
  BY <1>0, <1>1, <1>3 DEF LeafEvent, coreVars, CoreTypeOK, OthersKept, Submits
<1> QED
  BY <1>2, <1>3 DEF HubPacketCallback, Root

\* A callback binds a driver when it ends an enumeration, and asks nothing then.
LEMMA BindingIsLast ==
    ASSUME CoreTypeOK, NEW d \in Device, NEW r, NEW ctl, NEW chs,
           DeviceEnumerate(d, r, ctl, chs)
    PROVE  drv' = drv \/ NoIssue(chs)
BY DEF DeviceEnumerate, SetAddressComplete, DeviceDtReadComplete, ConfigurationSetupSent,
       HeaderReadComplete, ConfigurationReadComplete, SetConfigurationComplete,
       EnumTerminate, EnumRequest, EnumRaw

\* The core answers while a driver is bound: the request of the driver goes on.
LEMMA AdvancesBound ==
    ASSUME DriversInv, NEW b \in Buses, drv[Root(b)] # "NULL",
           NEW p \in Packet, p.dev = Root(b), NEW r \in Status, NEW chs \in [Chan -> Carried],
           Reported(p, r, chs), CoreCallback(p, r, chs), hub'[b] = hub[b]
    PROVE  DriverInv(b)'
<1> DEFINE d == Root(b)
<1>0. d \in Device /\ CoreTypeOK
  BY RootIsDevice, DriversPorts
<1>1. /\ Up(d) /\ drv[d] = "READY" /\ SingleFile(b) /\ Unheard(b) /\ HubWork(hub[b])
      /\ Ports(b) /\ ~Enumerating(d)
  BY DriverUp DEF Up
<1>2. Ep0Packet(p, d)
  BY DEF CoreCallback, Ep0Packet
<1>3. /\ \A q \in Packet : Alone(d, q) => q = p
      /\ ~Silent(d) /\ Clear(d, chs)
      /\ EventFree(d, channels) => EventFree(d, chs)
  BY <1>2 DEF Reported, Answers
<1>4. Alone(d, p) /\ (PipePacket(d, p) \/ RawPacket(d, p))
  BY <1>1, <1>3 DEF Up
<1>5. ~Raw(estate[d])
  BY <1>1 DEF Raw, RawKind, Enumerating
<1>6. PipePacket(d, p) /\ control[d].callback # "device_enumerate"
  BY <1>1, <1>4, <1>5 DEF RawPacket, PipePacket
<1>7. ControlAdvance(d, r, chs) /\ control[d].callback = "event" /\ Asked(d)
  <2>1. control[d].callback \in {"device_enumerate", "event"}
    BY <1>0 DEF CoreTypeOK, Control
  <2> QED
    BY <1>6, <2>1 DEF CoreCallback, ControlIgnored, PipePacket, Asked
<1>8. p.address # -1 /\ ~Mute(d) /\ ~(address[d] < 0)
  <2>1. p.address # -1
    BY <1>7 DEF Reported, ControlAdvance
  <2>2. ~Mute(d)
    BY <1>4, <2>1 DEF Alone, Mute
  <2> QED
    BY <1>1, <2>1, <2>2 DEF Unheard
<1>9. hub[b].state \in RequestState /\ hub[b].state # "POLL" /\ EventFree(d, chs)
  BY <1>1, <1>3, <1>7 DEF SingleFile, NoEvents, EventFree, RequestState
<1>10. NoEvents(d)'
  <2>1. StageKind(d) \in Kind
    BY <1>0 DEF StageKind, NextStage, Kind, CoreTypeOK, Control, Request
  <2>2. PICK q \in Packet : q = NewPacket(d, StageKind(d), "control_state_machine")
    BY <1>0, <1>7, <2>1, NewPacketTyped DEF ControlAdvance, Callback, CoreTypeOK
  <2>3. Ep0Packet(q, d)
    BY <2>2 DEF Ep0Packet, NewPacket
  <2>4. Issue(q, chs)
    BY <1>7, <2>2 DEF ControlAdvance
  <2> QED
    BY <1>9, <2>3, <2>4, PacketSubmitted
<1>11. address' = address /\ drv' = drv
  BY <1>7 DEF ControlAdvance
<1>12. Ports(b)' /\ SingleFile(b)' /\ Unheard(b)' /\ HubWork(hub'[b])
  BY <1>1, <1>8, <1>9, <1>10, <1>11 DEF Ports, SingleFile, Unheard
<1> QED
  BY <1>1, <1>11, <1>12 DEF DriverInv

\* The core answers while no driver is bound, and may bind one now.
LEMMA BindsHub ==
    ASSUME DriversInv, NEW b \in Buses, drv[Root(b)] = "NULL",
           NEW p \in Packet, p.dev = Root(b), NEW r, NEW chs,
           Reported(p, r, chs), CoreCallback(p, r, chs),
           address' \in [Device -> Address], PortInv(b)', OthersKept(Root(b)), drv'[Root(b)] # "UNREADY",
           hub'[b] = IF drv'[Root(b)] # "NULL" THEN HubBound(hub[b]) ELSE hub[b]
    PROVE  DriverInv(b)'
<1> DEFINE d == Root(b)
<1>0. /\ d \in Device /\ CoreTypeOK /\ hub[b] \in HubState
      /\ hub[b].state = "NONE" /\ Ports(b)
      /\ dpstate' = dpstate /\ dpstate[b] \in PollState
  BY RootIsDevice, DriversPorts DEF DriversInv, DriverInv, Reported, BusTypeOK
<1>1. CASE drv'[d] = "NULL"
  BY <1>0, <1>1 DEF DriverInv, HubWork, Ports
<1>2. CASE drv'[d] # "NULL"
  <2>1. dpstate[b] = "RUN" /\ Up(d) /\ Up(d)'
    BY <1>0, <1>2 DEF PortInv, Down, Flushing, PollState, DriversInv
  <2>2. Ep0Packet(p, d)
    BY DEF CoreCallback, Ep0Packet
  <2>3. Clear(d, chs) /\ EventFree(d, chs)
    BY <2>1, <2>2 DEF Reported, Answers, Up, NoEvents, EventFree
  <2>4. NoIssue(chs)
    BY <1>0, <1>2, BindingIsLast
       DEF CoreCallback, ControlAdvance, ControlIgnored, coreVars
  <2>5. Silent(d)' /\ NoEvents(d)'
    BY <2>3, <2>4, NothingSubmitted
  <2>6. control'[d].state = "NONE"
    BY <2>1, <2>5 DEF Up, Alone, Silent, NothingAsked
  <2>7. /\ hub'[b].state = "INITIAL" /\ hub'[b].device = hub[b].device
    BY <1>0, <1>2 DEF HubBound, HubState
  <2>8. SingleFile(b)' /\ Unheard(b)'
    BY <2>5, <2>6, <2>7 DEF SingleFile, Unheard, Asked, Mute, Silent
  <2>9. HubWork(hub'[b]) /\ Ports(b)'
    BY <1>0, <2>7 DEF HubWork, Ports
  <2> QED
    BY <1>2, <2>8, <2>9 DEF DriverInv
<1> QED
  BY <1>1, <1>2

LEMMA RootCoreCallback ==
    ASSUME DriversInv, NEW b \in Buses, NEW p \in Packet, p.dev = Root(b),
           NEW r \in Status, NEW chs \in [Chan -> Carried],
           Reported(p, r, chs), HubCoreCallback(p, r, chs)
    PROVE  DriversInv'
<1> DEFINE d == Root(b)
<1>0. /\ d \in Device /\ CoreTypeOK /\ PortsInv /\ hub \in [Buses -> HubState]
      /\ \A a \in Buses : Root(a) # d <=> a # b
      /\ \A a \in Buses \ {b} : Root(a) \in Device \ {d}
  BY RootIsDevice, DriversPorts DEF Root, DriversInv
<1>1. CoreCallback(p, r, chs) /\ PacketCallback(p, r, chs)
  BY DEF HubCoreCallback, PacketCallback
<1>2. /\ CoreTypeOK' /\ OthersKept(d) /\ Submits(d, chs)
      /\ address_temporary' = address_temporary
  BY <1>0, <1>1, CallbackTyped
<1>3. PortInv(b)'
  <2>1. CallbackOf(b, p, r, chs)
    BY <1>1 DEF Reported, CallbackOf
  <2> QED
    BY <1>0, <2>1, CallbackStep DEF SomeCallback
<1>4. hub' = [a \in Buses |-> IF drv[Root(a)] = "NULL" /\ drv'[Root(a)] # "NULL"
                              THEN HubBound(hub[a]) ELSE hub[a]]
  BY DEF HubCoreCallback
<1>5. hub' \in [Buses -> HubState]
  <2>1. \A a \in Buses : HubBound(hub[a]) \in HubState
    BY <1>0 DEF HubBound, HubState, EventState
  <2> QED
    BY <1>0, <1>4, <2>1
<1>6. DriverInv(b)'
  <2>1. CASE drv[d] # "NULL"
    BY <1>1, <1>4, <2>1, AdvancesBound
  <2>2. CASE drv[d] = "NULL"
    <3>1. /\ address' \in [Device -> Address] /\ drv'[d] # "UNREADY"
          /\ hub'[b] = IF drv'[d] # "NULL" THEN HubBound(hub[b]) ELSE hub[b]
      BY <1>2, <1>4, <2>2 DEF CoreTypeOK, HubCoreCallback, RootIsHub
    <3> QED
      BY <1>1, <1>2, <1>3, <2>2, <3>1, BindsHub
  <2> QED
    BY <2>1, <2>2
<1>7. ASSUME NEW a \in Buses \ {b}
      PROVE  Root(a) # d /\ hub'[a] = hub[a] /\ AddressesKept(a)
  <2>1. Root(a) \in Device \ {d}
    BY <1>0
  <2>2. hub'[a] = hub[a]
    BY <1>2, <1>4, <2>1 DEF OthersKept
  <2>3. \A s \in Slot : <<a, s>> \in Device \ {d}
    BY DEF Device, Root
  <2> QED
    BY <1>2, <2>1, <2>2, <2>3 DEF OthersKept, AddressesKept
<1>8. RootsKept(d) /\ dpstate' \in [Buses -> PollState]
  BY <1>0, <1>2, DriversPorts DEF RootsKept, OthersKept, Reported, BusTypeOK
<1> HIDE DEF d
<1>9. \A a \in Buses : Root(a) = d => PortInv(a)'
  BY <1>0, <1>3
<1>10. \A a \in Buses : DriverInv(a)' \/ (Root(a) # d /\ hub'[a] = hub[a] /\ AddressesKept(a))
  BY <1>6, <1>7
<1>11. TakenFrom(d, chs) /\ (refused = NoPacket \/ Of(refused, d))
  BY DEF Reported, d
<1> QED
  BY <1>0, <1>2, <1>5, <1>8, <1>9, <1>10, <1>11, DeviceStep

\* A transfer of a hub that was removed ends.
LEMMA RemovedHubEvent ==
    ASSUME DriversInv, NEW b \in Buses, NEW p \in Packet, p.dev = Root(b),
           NEW r \in Status, NEW chs \in [Chan -> Carried],
           Reported(p, r, chs), LeafEvent(p, chs)
    PROVE  DriversInv'
<1> DEFINE d == Root(b)
<1>0. /\ d \in Device /\ CoreTypeOK /\ PortsInv /\ hub \in [Buses -> HubState]
      /\ \A a \in Buses : Root(a) # d <=> a # b
      /\ dpstate \in [Buses -> PollState]
  BY RootIsDevice, DriversPorts DEF Root, DriversInv, BusTypeOK
<1>1. /\ p.callback = "event" /\ drv[d] = "NULL" /\ NoIssue(chs)
      /\ UNCHANGED <<coreVars, hub>> /\ dpstate' = dpstate
  BY RootIsDevice DEF LeafEvent, Reported
<1>2. PacketCallback(p, r, chs)
  BY <1>1 DEF PacketCallback, DriverEvent, coreVars
<1>3. PortInv(b)'
  <2>1. CallbackOf(b, p, r, chs)
    BY <1>2 DEF Reported, CallbackOf
  <2> QED
    BY <1>0, <2>1, CallbackStep DEF SomeCallback
<1>4. CoreTypeOK' /\ Submits(d, chs) /\ RootsKept(d) /\ \A a \in Buses : AddressesKept(a)
  BY <1>0, <1>1 DEF coreVars, CoreTypeOK, Submits, RootsKept, AddressesKept
<1>5. DriverInv(b)'
  BY <1>1 DEF DriversInv, DriverInv, Ports, coreVars
<1> HIDE DEF d
<1>6. \A a \in Buses : Root(a) = d => PortInv(a)'
  BY <1>0, <1>3
<1>7. \A a \in Buses : DriverInv(a)' \/ (Root(a) # d /\ hub'[a] = hub[a] /\ AddressesKept(a))
  BY <1>0, <1>1, <1>4, <1>5
<1>8. /\ TakenFrom(d, chs) /\ (refused = NoPacket \/ Of(refused, d))
      /\ address_temporary' = address_temporary
      /\ dpstate' \in [Buses -> PollState] /\ hub' \in [Buses -> HubState]
  BY <1>0, <1>1 DEF Reported, d, coreVars
<1> QED
  BY <1>0, <1>4, <1>6, <1>7, <1>8, DeviceStep

\* An answer that is an error does not move a driver that waits for its ports.
LEMMA UnheardStays ==
    ASSUME hub \in [Buses -> HubState], NEW b \in Buses, NEW h \in HubState, NEW r,
           r \notin {"OK", "ERRSIZ"}, NEW ctl, NEW chs, HubEvent(b, h, r, ctl, chs),
           h.state \in {"INITIAL", "READ_HUB_DESCRIPTOR_COMPLETE", "ENABLE_PORTS"}
    PROVE  hub'[b] = h
<1>1. Rest(b, h, ctl, chs)
  BY DEF HubEvent, StatusChange, HubDescriptorRead, PortsPowered, PortStatusRead,
         StatusRead, ConnectionCleared, ResetCleared, EventIgnored
<1> QED
  BY <1>1, RestTyped

LEMMA LatchedFound ==
    ASSUME DriversInv, port \in [Buses -> [PortNum -> PortState]], NEW b \in Buses,
           drv[Root(b)] # "NULL", NEW p, p.dev = Root(b), NEW r
    PROVE  /\ Found(b, hub[b]) /\ hub[b] \in HubState
           /\ Found(b, Latched(p, r)) /\ Latched(p, r) \in HubState
           /\ Latched(p, r).state = hub[b].state
<1>0. hub[b] \in HubState /\ HubWork(hub[b]) /\ Ports(b) /\ p.dev[1] = b
  BY DriverUp, RootIsDevice DEF DriversInv
<1>1. Found(b, hub[b])
  BY <1>0 DEF Found, Ports
<1>2. CASE hub[b].wIndex = 0
  BY <1>0, <1>1, <1>2 DEF Latched
<1>3. CASE hub[b].wIndex # 0
  <2>1. port[b][hub[b].wIndex] \in PortState
    BY <1>0, <1>3, HubAssumption DEF HubState, PortNum
  <2> DEFINE g == [hub[b] EXCEPT !.status = port[b][hub[b].wIndex]]
  <2>2. /\ g \in HubState /\ g.state = hub[b].state /\ g.device = hub[b].device
        /\ g.current_port = hub[b].current_port
    BY <1>0, <2>1 DEF HubState
  <2>3. Latched(p, r) = g \/ Latched(p, r) = hub[b]
    BY <1>0 DEF Latched
  <2> HIDE DEF g
  <2>4. Found(b, g)
    BY <1>1, <2>2 DEF Found, HubWork
  <2> QED
    BY <1>0, <1>1, <2>2, <2>3, <2>4
<1> QED
  BY <1>2, <1>3

LEMMA HubDriverCallback ==
    ASSUME DriversInv, port \in [Buses -> [PortNum -> PortState]],
           NEW b \in Buses, drv[Root(b)] # "NULL",
           NEW p \in Packet, p.dev = Root(b), NEW r \in Status, NEW chs \in [Chan -> Carried],
           Reported(p, r, chs),
           \/ /\ DriverRequestEnds(p, r)
              /\ HubEvent(b, Latched(p, r), ControlResult(p.dev, r), PipeIdle(p.dev), chs)
           \/ /\ p.callback = "event"
              /\ HubEvent(b, hub[b], r, control, chs)
    PROVE  DriversInv'
<1> DEFINE d == Root(b)
<1>0. d \in Device /\ CoreTypeOK /\ hub \in [Buses -> HubState]
  BY RootIsDevice, DriversPorts DEF DriversInv
<1>1. Up(d) /\ drv[d] = "READY" /\ SingleFile(b) /\ Unheard(b)
  BY DriverUp
<1>2. hub[b].state = "PORT_RESET_COMPLETE" => address[d] >= 0
  BY <1>0, <1>1 DEF Unheard, CoreTypeOK, Address
<1>3. CASE /\ DriverRequestEnds(p, r)
           /\ HubEvent(b, Latched(p, r), ControlResult(d, r), PipeIdle(d), chs)
  <2>1. Ep0Packet(p, d) /\ Asked(d)
    BY <1>3 DEF DriverRequestEnds, Ep0Packet, ControlEnds, Asked
  <2>2. /\ \A q \in Packet : Alone(d, q) => q = p
        /\ ~Silent(d) /\ Clear(d, chs)
        /\ EventFree(d, channels) => EventFree(d, chs)
    BY <2>1 DEF Reported, Answers
  <2>3. EventFree(d, chs)
    BY <1>1, <2>1, <2>2 DEF SingleFile, NoEvents, EventFree, RequestState
  <2>4. /\ PipeIdle(d) \in [Device -> Control] /\ PipeIdle(d)[d].state = "NONE"
        /\ \A e \in Device \ {d} : PipeIdle(d)[e] = control[e]
    BY <1>0, PipeIdleTyped DEF IdleControl
  <2> DEFINE h == Latched(p, r)
  <2>5. Found(b, h) /\ h \in HubState /\ h.state = hub[b].state
    BY LatchedFound
  <2> HIDE DEF h
  <2>6. HubEvent(b, h, ControlResult(d, r), PipeIdle(d), chs)
    BY <1>3 DEF h
  <2>7. EventDone(b, PipeIdle(d), chs)
    BY <1>0, <1>2, <2>5, <2>6, EventCompletes
  <2>8. ASSUME address[d] < 0
        PROVE  hub'[b].state \in {"INITIAL", "READ_HUB_DESCRIPTOR_COMPLETE", "ENABLE_PORTS"}
    <3>1. Alone(d, p)
      BY <1>1, <2>2 DEF Up
    <3>2. p.address = -1
      BY <1>1, <2>8, <3>1 DEF Unheard, Mute, Alone
    <3>3. ControlResult(d, r) \notin {"OK", "ERRSIZ"}
      BY <3>2 DEF Reported, ControlResult
    <3>4. h.state \in {"INITIAL", "READ_HUB_DESCRIPTOR_COMPLETE", "ENABLE_PORTS"}
      BY <1>1, <2>5, <2>8 DEF Unheard
    <3> QED
      BY <1>0, <2>5, <2>6, <3>3, <3>4, UnheardStays
  <2> QED
    BY <1>0, <1>1, <2>2, <2>3, <2>4, <2>7, <2>8, EventStep DEF Reported
<1>4. CASE p.callback = "event" /\ HubEvent(b, hub[b], r, control, chs)
  <2>1. KeepsEp0(d, chs) /\ ~NoEvents(d)
    BY <1>4 DEF Reported, Answers, Ep0Packet
  <2>2. hub[b].state = "POLL" /\ ~Asked(d) /\ LoneEvent(d)
    BY <1>1, <2>1 DEF SingleFile, RequestState
  <2>3. control[d].state = "NONE" /\ Silent(d)
    BY <1>0, <1>1, <2>2, NothingAskedIdle
  <2>4. Clear(d, chs) /\ EventFree(d, chs)
    BY <1>4, <2>1, <2>2, <2>3, SilentClears DEF Reported
  <2>5. EventDone(b, control, chs)
    BY <1>0, <1>2, <1>4, LatchedFound, EventCompletes
  <2>6. ~(address[d] < 0)
    BY <1>1, <2>2 DEF Unheard
  <2>7. control \in [Device -> Control]
    BY <1>0 DEF CoreTypeOK
  <2> QED
    BY <1>0, <1>1, <2>3, <2>4, <2>5, <2>6, <2>7, EventStep DEF Reported
<1> QED
  BY <1>3, <1>4

LEMMA HubCallbackStep ==
    ASSUME HInv, NEW p \in Packet, NEW r \in Status, NEW chs \in [Chan -> Carried],
           Reported(p, r, chs), HubPacketCallback(p, r, chs)
    PROVE  DriversInv'
<1>0. DriversInv /\ port \in [Buses -> [PortNum -> PortState]]
  BY DEF HInv
<1>1. CASE p.dev[2] # 0
  BY <1>0, <1>1, LeafCallback
<1>2. CASE p.dev[2] = 0
  <2>1. PICK b \in Buses : p.dev = Root(b) /\ p.dev[1] = b
    BY <1>2 DEF Packet, Device, Root
  <2>2. CASE HubCoreCallback(p, r, chs)
    BY <1>0, <2>1, <2>2, RootCoreCallback
  <2>3. CASE LeafEvent(p, chs)
    BY <1>0, <2>1, <2>3, RemovedHubEvent
  <2>4. CASE /\ drv[p.dev] # "NULL"
             /\ \/ /\ DriverRequestEnds(p, r)
                   /\ HubEvent(b, Latched(p, r), ControlResult(p.dev, r), PipeIdle(p.dev), chs)
                \/ /\ p.callback = "event"
                   /\ HubEvent(b, hub[b], r, control, chs)
    BY <1>0, <2>1, <2>4, HubDriverCallback
  <2> QED
    BY <2>1, <2>2, <2>3, <2>4 DEF HubPacketCallback
<1>3. p.dev[2] \in Slot
  BY DEF Packet, Device
<1> QED
  BY <1>1, <1>2

\* What the answered channel leaves of the transfers of a driver.
LEMMA LoneEventAnswered ==
    ASSUME TypeOK, NEW d, NEW c \in Chan, NEW left \in {NoPacket, Halting},
           EventPacket(channels[c], d), LoneEvent(d)
    PROVE  EventFree(d, Released(c, left))
BY OtherAnswered DEF LoneEvent, EventFree

LEMMA HubCompletionReports ==
    ASSUME HInv, NEW c \in Chan, Answerable(c), dpstate' = dpstate,
           NEW r \in Responses(channels[c]), NEW left \in {NoPacket, Halting}
    PROVE  /\ channels[c] \in Packet /\ r \in Status
           /\ Released(c, left) \in [Chan -> Carried]
           /\ Reported(channels[c], r, Released(c, left))
<1> DEFINE p == channels[c]
<1>0. TypeOK /\ PortsInv
  BY DriversPorts DEF HInv, DriversInv
<1>1. /\ p \in Packet /\ refused = NoPacket /\ r \in Status
      /\ Released(c, left) \in [Chan -> Carried]
  BY <1>0, ResponsesTyped, ReleasedTyped DEF Answerable
<1>2. p.address = -1 => r \notin {"OK", "ERRSIZ"}
  BY Unanswered
<1>3. TakenFrom(p.dev, Released(c, left))
  BY <1>0, <1>1 DEF TakenFrom, Of, Released, TypeOK, BusTypeOK
<1>4. ASSUME NEW b \in Buses, p.dev = Root(b)
      PROVE  /\ Answers(Root(b), p, Released(c, left))
             /\ p.callback = "event" /\ LoneEvent(Root(b)) => EventFree(Root(b), Released(c, left))
  BY <1>0, <1>1, <1>4, CompletionAnswers, LoneEventAnswered DEF EventPacket
<1> QED
  BY <1>1, <1>2, <1>3, <1>4 DEF Reported

LEMMA HubRefusalReports ==
    ASSUME HInv, refused # NoPacket, dpstate' = dpstate
    PROVE  /\ refused \in Packet /\ "EFATAL" \in Status /\ channels \in [Chan -> Carried]
           /\ Reported(refused, "EFATAL", channels)
<1>0. TypeOK /\ PortsInv
  BY DriversPorts DEF HInv, DriversInv
<1>1. /\ refused \in Packet /\ "EFATAL" \in Status /\ channels \in [Chan -> Carried]
      /\ Of(refused, refused.dev) /\ TakenFrom(refused.dev, channels)
  BY <1>0 DEF TypeOK, BusTypeOK, Status, Carried, Of, TakenFrom
<1>2. ASSUME NEW b \in Buses, refused.dev = Root(b)
      PROVE  /\ Answers(Root(b), refused, channels)
             /\ refused.callback = "event" /\ LoneEvent(Root(b)) => EventFree(Root(b), channels)
  BY <1>0, <1>1, <1>2, RefusalAnswers DEF LoneEvent, EventFree, EventPacket
<1> QED
  BY <1>1, <1>2 DEF Reported

\* The ports of a hub.
LEMMA OnePortTyped ==
    ASSUME port \in [Buses -> [PortNum -> PortState]], NEW b \in Buses, NEW p \in PortNum,
           NEW s \in PortState, port' = [port EXCEPT ![b][p] = s]
    PROVE  port' \in [Buses -> [PortNum -> PortState]]
OBVIOUS

LEMMA EffectTyped ==
    ASSUME HInv, NEW b \in Buses, hub[b].wIndex # 0, Effect(b)
    PROVE  port' \in [Buses -> [PortNum -> PortState]]
<1> DEFINE q == hub[b].wIndex
           now == port[b][q]
<1>1. q \in PortNum /\ port \in [Buses -> [PortNum -> PortState]]
  BY HubAssumption DEF HInv, DriversInv, HubState, PortNum
<1>2. now \in PortState
  BY <1>1
<1> HIDE DEF q
<1>3. /\ \A stc \in {{}, {"C_PORT_CONNECTION"}} :
            [now EXCEPT !.stage = "on", !.stc = stc] \in PortState
      /\ \A stage \in PortStage : [now EXCEPT !.stage = stage] \in PortState
      /\ \A change : [now EXCEPT !.stc = @ \ {change}] \in PortState
  <2> HIDE DEF now
  <2>1. {"C_PORT_CONNECTION"} \subseteq PortChange
    BY DEF PortChange
  <2>2. "on" \in PortStage
    BY DEF PortStage
  <2>3. now.stc \in SUBSET PortChange
    BY <1>2 DEF PortState
  <2>4. \A change : now.stc \ {change} \in SUBSET PortChange
    BY <2>3
  <2> QED
    BY <1>2, <2>1, <2>2, <2>4 DEF PortState
<1>4. PICK s : port' = [port EXCEPT ![b][q] = s]
             /\ \/ s = now
                \/ s = [now EXCEPT !.stage = "on",
                        !.stc = IF now.speed # "none" THEN {"C_PORT_CONNECTION"} ELSE {}]
                \/ s = [now EXCEPT !.stage = "resetting"]
                \/ s = [now EXCEPT !.stc = @ \ {"C_PORT_CONNECTION"}]
                \/ s = [now EXCEPT !.stc = @ \ {"C_PORT_RESET"}]
                \/ s = [now EXCEPT !.stage = "on"]
  BY DEF Effect, q
<1>5. s \in PortState
  BY <1>2, <1>3, <1>4 DEF PortStage
<1> QED
  BY <1>1, <1>4, <1>5, OnePortTyped

LEMMA PortsAfterTyped ==
    ASSUME HInv, NEW p \in Packet, NEW r, PortsAfter(p, r)
    PROVE  port' \in [Buses -> [PortNum -> PortState]]
<1>1. p.dev[1] \in Buses
  BY DEF Packet, Device
<1> QED
  BY <1>1, EffectTyped DEF PortsAfter, HInv

\* What happens at the ports of a hub does not reach the driver at once.
LEMMA PortChangeTyped ==
    ASSUME HInv, NEW b \in Buses, NEW p \in PortNum,
           \/ \E s \in Speeds : Plug(b, p, s)
           \/ Unplug(b, p) \/ PortResetDone(b, p) \/ PortFault(b, p)
    PROVE  port' \in [Buses -> [PortNum -> PortState]]
<1> DEFINE now == port[b][p]
<1>1. port \in [Buses -> [PortNum -> PortState]] /\ now \in PortState
  BY DEF HInv
<1> HIDE DEF now
<1>2. now.stc \in SUBSET PortChange /\ now.stage \in PortStage
  BY <1>1 DEF PortState
<1>3. /\ {} \in SUBSET PortChange
      /\ \A change \in PortChange : now.stc \cup {change} \in SUBSET PortChange
      /\ {"C_PORT_CONNECTION", "C_PORT_RESET"} \subseteq PortChange /\ Faults \subseteq PortChange
      /\ {"on", "enabled"} \subseteq PortStage
  BY <1>2 DEF PortChange, PortStage
<1>4. CASE \E s \in Speeds : Plug(b, p, s)
  <2>1. PICK s \in Speeds : Plug(b, p, s)
    BY <1>4
  <2> DEFINE next == [now EXCEPT !.speed = s,
                                 !.stc = IF now.stage = "off" THEN {}
                                         ELSE @ \cup {"C_PORT_CONNECTION"}]
  <2>2. next \in PortState
    BY <1>1, <1>3 DEF PortState
  <2>3. port' = [port EXCEPT ![b][p] = next]
    BY <1>1, <2>1 DEF Plug, now
  <2> HIDE DEF next
  <2> QED
    BY <1>1, <2>2, <2>3, OnePortTyped
<1>5. CASE Unplug(b, p)
  <2> DEFINE next == [speed |-> "none",
                      stage |-> IF now.stage = "enabled" THEN "on" ELSE now.stage,
                      stc |-> IF now.stage = "off" THEN {}
                              ELSE now.stc \cup {"C_PORT_CONNECTION"}]
  <2>1. next \in PortState
    BY <1>2, <1>3 DEF PortState
  <2>2. port' = [port EXCEPT ![b][p] = next]
    BY <1>1, <1>5 DEF Unplug, now
  <2> HIDE DEF next
  <2> QED
    BY <1>1, <2>1, <2>2, OnePortTyped
<1>6. CASE PortResetDone(b, p)
  <2> DEFINE next == [now EXCEPT !.stage = IF now.speed = "none" THEN "on" ELSE "enabled",
                                 !.stc = @ \cup {"C_PORT_RESET"}]
  <2>1. next \in PortState
    BY <1>1, <1>3 DEF PortState
  <2>2. port' = [port EXCEPT ![b][p] = next]
    BY <1>1, <1>6 DEF PortResetDone, now
  <2> HIDE DEF next
  <2> QED
    BY <1>1, <2>1, <2>2, OnePortTyped
<1>7. CASE PortFault(b, p)
  <2>1. PICK f \in Faults : port' = [port EXCEPT ![b][p] =
                                        [@ EXCEPT !.stage = "on", !.stc = port[b][p].stc \cup {f}]]
    BY <1>7 DEF PortFault
  <2> DEFINE next == [now EXCEPT !.stage = "on", !.stc = @ \cup {f}]
  <2>2. next \in PortState
    BY <1>1, <1>3 DEF PortState
  <2>3. port' = [port EXCEPT ![b][p] = next]
    BY <1>1, <2>1 DEF now
  <2> HIDE DEF next
  <2> QED
    BY <1>1, <2>2, <2>3, OnePortTyped
<1> QED
  BY <1>4, <1>5, <1>6, <1>7

\* The first transfer of a driver is the only one.
LEMMA FirstTransfer ==
    ASSUME NEW d, NoEvents(d), channels \in [Chan -> Carried],
           NEW p \in Packet, Issue(p, channels)
    PROVE  LoneEvent(d)'
<1>1. CASE channels' = channels /\ refused' = p
  BY <1>1 DEF NoEvents, LoneEvent, EventPacket
<1>2. CASE \E c \in Chan : channels' = [channels EXCEPT ![c] = p] /\ refused' = NoPacket
  <2>1. PICK c \in Chan : channels' = [channels EXCEPT ![c] = p] /\ refused' = NoPacket
    BY <1>2
  <2>2. \A e \in Chan \ {c} : ~EventPacket(channels'[e], d)
    BY <2>1 DEF NoEvents
  <2>3. ~EventPacket(refused', d)
    BY <2>1, BusAssumption DEF EventPacket
  <2> QED
    BY <2>2, <2>3 DEF LoneEvent
<1> QED
  BY <1>1, <1>2 DEF Issue, FreeChannels

LEMMA PollStatusChangeStep ==
    ASSUME DriversInv, NEW b \in Buses, PollStatusChange(b)
    PROVE  DriversInv'
<1> DEFINE d == Root(b)
<1>0. /\ d \in Device /\ CoreTypeOK /\ PortsInv /\ hub \in [Buses -> HubState]
      /\ \A a \in Buses : Root(a) # d <=> a # b
      /\ dpstate \in [Buses -> PollState] /\ channels \in [Chan -> Carried]
  BY RootIsDevice, DriversPorts DEF Root, DriversInv, BusTypeOK, Carried
<1>1. /\ refused = NoPacket /\ drv[d] = "READY" /\ UNCHANGED <<coreVars, dpstate>>
      /\ hub[b].state = "POLL_REQ" /\ hub' = [hub EXCEPT ![b].state = "POLL"]
      /\ Issue(NewPacket(d, "IN", "event"), channels)
  BY DEF PollStatusChange, Polled
<1>2. DriverTransfer(d)
  BY <1>1 DEF DriverTransfer, Transfers
<1>3. CoreTypeOK' /\ Submits(d, channels)
  BY <1>0, <1>2, DriverSubmits
<1>4. PortInv(b)'
  BY <1>0, <1>2, DriverStep
<1>5. SingleFile(b) /\ Unheard(b) /\ HubWork(hub[b]) /\ Ports(b)
  BY <1>1, DriverUp
<1>6. /\ hub' \in [Buses -> HubState] /\ hub'[b].state = "POLL"
      /\ hub'[b].device = hub[b].device /\ \A a \in Buses \ {b} : hub'[a] = hub[a]
  BY <1>0, <1>1 DEF HubState, EventState
<1>7. LoneEvent(d)'
  <2>1. NoEvents(d)
    BY <1>1, <1>5 DEF SingleFile
  <2>2. PICK p \in Packet : Issue(p, channels)
    BY <1>0, <1>1, NewPacketTyped DEF Kind, Callback, CoreTypeOK, coreVars
  <2> QED
    BY <1>0, <2>1, <2>2, FirstTransfer
<1>8. DriverInv(b)'
  <2>1. ~Asked(d) /\ ~(address[d] < 0)
    BY <1>1, <1>5 DEF SingleFile, Unheard, RequestState
  <2>2. SingleFile(b)' /\ Unheard(b)'
    BY <1>1, <1>6, <1>7, <2>1 DEF SingleFile, Unheard, Asked, coreVars
  <2>3. HubWork(hub'[b]) /\ Ports(b)'
    BY <1>5, <1>6 DEF HubWork, Ports
  <2> QED
    BY <1>1, <2>2, <2>3 DEF DriverInv, coreVars
<1>9. TakenFrom(d, channels) /\ RootsKept(d) /\ \A a \in Buses : AddressesKept(a)
  BY <1>1 DEF coreVars, TakenFrom, RootsKept, AddressesKept
<1> HIDE DEF d
<1>10. \A a \in Buses : Root(a) = d => PortInv(a)'
  BY <1>0, <1>4
<1>11. \A a \in Buses : DriverInv(a)' \/ (Root(a) # d /\ hub'[a] = hub[a] /\ AddressesKept(a))
  BY <1>0, <1>6, <1>8, <1>9
<1>12. address_temporary' = address_temporary /\ dpstate' \in [Buses -> PollState]
  BY <1>0, <1>1 DEF coreVars
<1> QED
  BY <1>0, <1>1, <1>3, <1>6, <1>9, <1>10, <1>11, <1>12, DeviceStep

LEMMA PollInitialStep ==
    ASSUME DriversInv, NEW b \in Buses, PollInitial(b)
    PROVE  DriversInv'
<1> DEFINE d == Root(b)
<1>0. /\ d \in Device /\ CoreTypeOK /\ hub \in [Buses -> HubState]
      /\ channels \in [Chan -> Carried] /\ control \in [Device -> Control]
      /\ hub[b] \in HubState
  BY RootIsDevice, DriversPorts DEF DriversInv, BusTypeOK, Carried, CoreTypeOK
<1>1. refused = NoPacket /\ drv[d] = "READY" /\ dpstate' = dpstate /\ hub[b].state = "INITIAL"
  BY DEF PollInitial, Polled
<1>2. Up(d) /\ SingleFile(b) /\ HubWork(hub[b]) /\ Ports(b)
  BY <1>1, DriverUp
<1>3. ~Asked(d) /\ NoEvents(d) /\ \A p \in PortNum : hub[b].device[p] # 0
  BY <1>1, <1>2 DEF SingleFile, RequestState, Ports
<1>4. control[d].state = "NONE" /\ Silent(d)
  BY <1>0, <1>1, <1>2, <1>3, NothingAskedIdle
<1>5. Clear(d, channels) /\ EventFree(d, channels) /\ TakenFrom(d, channels)
  BY <1>3, <1>4 DEF Silent, Clear, NoEvents, EventFree, TakenFrom
<1>6. CASE /\ UNCHANGED <<coreFrame, address, drv>>
           /\ Ask(b, hub[b], "READ_HUB_DESCRIPTOR_COMPLETE", "GET_DESCRIPTOR", 0,
                  control, channels)
  <2>1. /\ "READ_HUB_DESCRIPTOR_COMPLETE" \in RequestState
        /\ "GET_DESCRIPTOR" \in HubRequest /\ 0 \in 0 .. ports_num
    BY HubAssumption DEF RequestState, HubRequest
  <2>2. EventDone(b, control, channels)
    <3>1. BehindHub(b)
      BY <1>0, <1>6, StaysBehind
    <3> DEFINE h == hub[b]
    <3>2. h \in HubState /\ \A p \in PortNum : h.device[p] # 0
      BY <1>0, <1>3
    <3>3. Ask(b, h, "READ_HUB_DESCRIPTOR_COMPLETE", "GET_DESCRIPTOR", 0, control, channels)
      BY <1>6
    <3> HIDE DEF h
    <3> QED
      BY <1>0, <2>1, <3>1, <3>2, <3>3, AskDone
  <2>3. hub'[b].state = "READ_HUB_DESCRIPTOR_COMPLETE"
    BY <1>0, <1>6, <2>1, AskTyped
  <2> QED
    BY <1>0, <1>1, <1>4, <1>5, <2>2, <2>3, EventStep
<1>7. CASE EnablePorts(b, [hub[b] EXCEPT !.index = 0], control, channels)
  <2> DEFINE g == [hub[b] EXCEPT !.index = 0]
  <2>1. 0 \in 0 .. ports_num /\ ports_num > 0
    BY HubAssumption
  <2>2. g \in HubState /\ g.device = hub[b].device /\ g.index = 0
    BY <1>0, <2>1, FieldsTyped DEF HubState
  <2>3. EnablePorts(b, g, control, channels)
    BY <1>7
  <2> HIDE DEF g
  <2>4. EventDone(b, control, channels)
    <3>1. \A p \in PortNum : g.device[p] # 0
      BY <1>3, <2>2
    <3> QED
      BY <1>0, <2>2, <2>3, <3>1, EnablePortsDone
  <2>5. hub'[b].state = "ENABLE_PORTS"
    <3>1. Ask(b, [g EXCEPT !.index = g.index + 1], "ENABLE_PORTS",
              "SET_PORT_POWER", g.index + 1, control, channels)
      BY <2>1, <2>2, <2>3 DEF EnablePorts
    <3>2. hub'[b].state = [[g EXCEPT !.index = g.index + 1] EXCEPT
                              !.state = "ENABLE_PORTS", !.request = "SET_PORT_POWER",
                              !.wIndex = g.index + 1].state
      BY <1>0, <3>1 DEF Ask
    <3> QED
      BY <2>2, <3>2 DEF HubState
  <2> QED
    BY <1>0, <1>1, <1>4, <1>5, <2>4, <2>5, EventStep
<1> QED
  BY <1>6, <1>7 DEF PollInitial

\* The slot of the device whose enumeration starts is one behind the hub, and
\* the address it is to be given is not the default one.
LEMMA PollStartEnumerationStep ==
    ASSUME DriversInv, NEW b \in Buses, PollStartEnumeration(b)
    PROVE  DriversInv'
<1> DEFINE s == hub[b].device[hub[b].current_port]
           d == <<b, s>>
           h == [Idle(hub[b]) EXCEPT !.busy = FALSE, !.current_port = Unused]
<1>0. /\ CoreTypeOK /\ PortsInv /\ hub \in [Buses -> HubState]
      /\ dpstate \in [Buses -> PollState] /\ channels \in [Chan -> Carried]
      /\ hub[b] \in HubState /\ control \in [Device -> Control]
  BY DriversPorts DEF DriversInv, BusTypeOK, Carried, CoreTypeOK
<1>1. /\ refused = NoPacket /\ drv[Root(b)] = "READY" /\ hub[b].state = "SLEEP_500_MS"
      /\ EnumerationStart(d, address[d], control, channels)
      /\ hub' = [hub EXCEPT ![b] = h] /\ drv' = drv /\ dpstate' = dpstate
  BY DEF PollStartEnumeration, Polled
<1>2. SingleFile(b) /\ Unheard(b) /\ HubWork(hub[b]) /\ Ports(b)
  BY <1>1, DriverUp
<1>3. s \in Slot \ {0} /\ d \in Device /\ address[d] # 0
  <2>1. hub[b].current_port \in PortNum /\ s # Unused
    BY <1>1, <1>2 DEF HubWork
  <2>2. s \in Slot \ {0}
    BY <1>0, <1>2, <2>1 DEF HubState, Ports
  <2> QED
    BY <1>1, <1>2, <2>2 DEF Ports, Device
<1>4. /\ h \in HubState /\ h.state = "POLL_REQ" /\ h.device = hub[b].device
  <2>1. /\ Idle(hub[b]) \in HubState /\ Idle(hub[b]).state = "POLL_REQ"
        /\ Idle(hub[b]).device = hub[b].device
    BY <1>0, IdleTyped
  <2> QED
    BY <2>1 DEF HubState
<1> HIDE DEF s, h
<1>5. \A a \in Buses : Root(a) \in Device \ {d}
  BY <1>3, RootIsDevice DEF Root
<1>6. /\ enumeration_run' = TRUE /\ address_temporary' = address[d]
      /\ address' = [address EXCEPT ![d] = 0]
      /\ estate' = [estate EXCEPT ![d] = "SET_ADDRESS"]
      /\ DeviceControl(d, "device_enumerate", "NODATA", control, channels)
  BY <1>1 DEF EnumerationStart
<1> HIDE DEF d
<1>7. address' \in [Device -> Address] /\ estate' \in [Device -> EnumState]
  BY <1>0, <1>6, ZeroOneAddress DEF CoreTypeOK, EnumState
<1>8. /\ control' \in [Device -> Control] /\ Submits(d, channels)
      /\ \A e \in Device \ {d} : control'[e] = control[e]
  BY <1>0, <1>3, <1>6, <1>7, DeviceControlTyped DEF Request
<1>9. CoreTypeOK' /\ OthersKept(d) /\ address_temporary' # 0
  BY <1>0, <1>1, <1>3, <1>6, <1>7, <1>8 DEF CoreTypeOK, OthersKept
<1>10. TakenFrom(d, channels) /\ RootsKept(d)
  BY <1>1, <1>5, <1>9 DEF TakenFrom, RootsKept, OthersKept
<1>11. PacketsKept(Root(b))
  BY <1>0, <1>1, <1>3, <1>5, <1>8, <1>10, SubmitsKeepsOthers
<1>12. hub' \in [Buses -> HubState] /\ hub'[b] = h /\ \A a \in Buses \ {b} : hub'[a] = hub[a]
  BY <1>0, <1>1, <1>4
<1>13. DriverInv(b)'
  <2>1. /\ address'[Root(b)] = address[Root(b)] /\ control'[Root(b)] = control[Root(b)]
        /\ drv'[Root(b)] = "READY" /\ hub'[b].state = "POLL_REQ"
        /\ hub'[b].device = hub[b].device
    BY <1>1, <1>4, <1>5, <1>6, <1>8, <1>12
  <2>2. ~Asked(Root(b)) /\ NoEvents(Root(b)) /\ ~(address[Root(b)] < 0)
    BY <1>1, <1>2 DEF SingleFile, Unheard, RequestState
  <2>3. ~Asked(Root(b))' /\ NoEvents(Root(b))' /\ ~(address'[Root(b)] < 0)
    BY <1>11, <2>1, <2>2, PacketsKeptSame DEF Asked
  <2>4. SingleFile(b)' /\ Unheard(b)'
    BY <2>1, <2>3 DEF SingleFile, Unheard
  <2>5. HubWork(hub'[b]) /\ Ports(b)'
    BY <1>2, <2>1 DEF HubWork, Ports
  <2> QED
    BY <2>1, <2>4, <2>5 DEF DriverInv
<1>14. ASSUME NEW a \in Buses \ {b}
       PROVE  Root(a) # d /\ hub'[a] = hub[a] /\ AddressesKept(a)
  <2>1. \A t \in Slot : <<a, t>> \in Device \ {d}
    BY DEF d, Device
  <2> QED
    BY <1>5, <1>9, <1>12, <2>1 DEF AddressesKept, OthersKept
<1>15. \A a \in Buses : Root(a) = d => PortInv(a)'
  BY <1>5
<1>16. \A a \in Buses : DriverInv(a)' \/ (Root(a) # d /\ hub'[a] = hub[a] /\ AddressesKept(a))
  BY <1>13, <1>14
<1>17. dpstate' \in [Buses -> PollState]
  BY <1>0, <1>1
<1> QED
  BY <1>0, <1>1, <1>3, <1>8, <1>9, <1>10, <1>12, <1>15, <1>16, <1>17, DeviceStep

LEMMA LeafTransferStep ==
    ASSUME DriversInv, NEW b \in Buses, NEW p \in PortNum, LeafTransfer(b, p)
    PROVE  DriversInv'
<1> DEFINE d == <<b, hub[b].device[p]>>
<1>0. CoreTypeOK /\ hub[b] \in HubState /\ channels \in [Chan -> Carried]
  BY DriversPorts DEF DriversInv, BusTypeOK, Carried
<1>1. hub[b].device[p] \in Slot \ {0}
  BY <1>0 DEF LeafTransfer, HubState, DriversInv, DriverInv, Ports
<1>2. d \in Device /\ d[2] # 0
  BY <1>1 DEF Device
<1>3. DriverTransfer(d) /\ hub' = hub
  BY DEF LeafTransfer, hubVars
<1> HIDE DEF d
<1>4. CoreTypeOK' /\ OthersKept(d) /\ Submits(d, channels)
  BY <1>0, <1>2, <1>3, DriverSubmits
<1>5. /\ refused = NoPacket /\ dpstate' = dpstate /\ address' = address
      /\ address_temporary' = address_temporary /\ TakenFrom(d, channels)
  BY <1>3 DEF DriverTransfer, coreVars, TakenFrom
<1> QED
  BY <1>0, <1>2, <1>3, <1>4, <1>5, LeafStep

\* A root port goes down: the hub in it and what is behind it are removed.
LEMMA HubDisconnectedStep ==
    ASSUME HInv, NEW b \in Buses, HubDisconnected(b)
    PROVE  HInv'
<1> DEFINE D == {d \in Device : d[1] = b}
<1>0. /\ DriversInv /\ TypeOK /\ OwnChannels /\ PortsInv /\ hub \in [Buses -> HubState]
      /\ port \in [Buses -> [PortNum -> PortState]] /\ CoreTypeOK
  BY DriversPorts DEF HInv, DriversInv
<1>1. /\ Disconnected(b) /\ refused' = refused
      /\ hub' = [hub EXCEPT ![b] = IF drv[Root(b)] = "NULL" THEN @ ELSE HubRemoved(@)]
  BY DEF HubDisconnected, Disconnected, PortGone
<1>2. OwnChannels' /\ \A a \in Buses : PortInv(a)'
  BY <1>0, <1>1, DisconnectedStep
<1>3. TypeOK'
  BY <1>0, <1>1, TypeStep DEF Next
<1>4. /\ HubRemoved(hub[b]) \in HubState /\ HubRemoved(hub[b]).state = "NONE"
      /\ HubRemoved(hub[b]).device = NoDevices
  <2>1. hub[b] \in HubState /\ Idle(hub[b]) \in HubState
    BY <1>0, IdleTyped
  <2>2. NoDevices \in [PortNum -> Slot \cup {Unused}] /\ 0 \in 0 .. ports_num
    BY HubAssumption DEF NoDevices
  <2> QED
    BY <2>1, <2>2 DEF HubRemoved, HubState, EventState
<1>5. hub' \in [Buses -> HubState] /\ \A a \in Buses \ {b} : hub'[a] = hub[a]
  BY <1>0, <1>1, <1>4
<1>6. port' \in [Buses -> [PortNum -> PortState]]
  <2>1. \A p \in PortNum : [NothingPlugged EXCEPT !.speed = port[b][p].speed] \in PortState
    BY <1>0, NothingPluggedTyped DEF PortState
  <2>2. [p \in PortNum |-> [NothingPlugged EXCEPT !.speed = port[b][p].speed]]
           \in [PortNum -> PortState]
    BY <2>1
  <2> QED
    BY <1>0, <2>2 DEF HubDisconnected
<1>7. /\ address' = [d \in Device |-> IF d \in D THEN -1 ELSE address[d]]
      /\ drv' = [d \in Device |-> IF d \in D THEN "NULL" ELSE drv[d]]
      /\ control' = PipeIdle(Root(b))
  BY <1>1 DEF Disconnected, DeviceRemove
<1>8. DriverInv(b)'
  <2>1. drv'[Root(b)] = "NULL"
    BY <1>7, RootIsDevice
  <2>2. CASE drv[Root(b)] = "NULL"
    <3>1. hub'[b] = hub[b] /\ hub[b].state = "NONE" /\ Ports(b)
      BY <1>0, <1>1, <2>2 DEF DriversInv, DriverInv
    <3> QED
      BY <2>1, <3>1 DEF DriverInv, HubWork, Ports
  <2>3. CASE drv[Root(b)] # "NULL"
    <3>1. hub'[b].state = "NONE" /\ hub'[b].device = NoDevices
      BY <1>0, <1>1, <1>4, <2>3
    <3>2. \A p \in PortNum : NoDevices[p] # 0
      BY DEF NoDevices, Unused
    <3> QED
      BY <2>1, <3>1, <3>2 DEF DriverInv, HubWork, Ports
  <2> QED
    BY <2>2, <2>3
<1>9. ASSUME NEW a \in Buses \ {b}
      PROVE  DriverInv(a)'
  <2>1. Root(a) \in Device /\ Root(a)[1] = a /\ Root(a) # Root(b) /\ Root(b) \in Device
    BY RootIsDevice
  <2>2. PacketsKept(Root(a))
    <3>1. ASSUME NEW c \in Chan
          PROVE  \/ channels'[c] = channels[c]
                 \/ ~Of(channels[c], Root(a)) /\ ~Of(channels'[c], Root(a))
      <4>1. CASE c[1] # b
        BY <1>1, <4>1 DEF Disconnected, PortGone, Flushed
      <4>2. CASE c[1] = b
        <5>1. channels'[c] = channels[c] \/ channels'[c] \in {NoPacket, Halting}
          BY <1>1, <4>2 DEF Disconnected, PortGone, Flushed
        <5>2. ~Of(channels[c], Root(a))
          BY <1>0, <2>1, <4>2 DEF OwnChannels, Of
        <5> QED
          BY <5>1, <5>2, BusAssumption DEF Of
      <4> QED
        BY <4>1, <4>2
    <3> QED
      BY <1>1, <3>1 DEF PacketsKept
  <2>3. /\ address'[Root(a)] = address[Root(a)] /\ drv'[Root(a)] = drv[Root(a)]
        /\ control'[Root(a)] = control[Root(a)]
    BY <1>0, <1>7, <2>1, PipeIdleTyped
  <2>4. AddressesKept(a)
    BY <1>7 DEF AddressesKept, Device
  <2> QED
    BY <1>0, <1>5, <2>2, <2>3, <2>4, DriverKept DEF DriversInv
<1> QED
  BY <1>2, <1>3, <1>5, <1>6, <1>8, <1>9 DEF HInv, DriversInv

\* A root port comes up, or is reset: no driver is bound then.
LEMMA HubConnectedStep ==
    ASSUME DriversInv, NEW b \in Buses, Connected(b), hub' = hub
    PROVE  DriversInv'
<1> DEFINE d == Root(b)
<1>0. /\ d \in Device /\ CoreTypeOK /\ PortsInv /\ hub \in [Buses -> HubState]
      /\ \A a \in Buses : Root(a) # d <=> a # b
      /\ \A a \in Buses \ {b} : Root(a) \in Device \ {d}
      /\ dpstate \in [Buses -> PollState] /\ channels \in [Chan -> Carried]
  BY RootIsDevice, DriversPorts DEF Root, DriversInv, BusTypeOK, Carried
<1>1. CoreTypeOK' /\ OthersKept(d) /\ Submits(d, channels) /\ address_temporary' = 1
  BY <1>0, ConnectedTyped
<1>2. PortInv(b)'
  BY <1>0, ConnectedStep
<1>3. /\ refused = NoPacket /\ dpstate[b] = "DEVRST" /\ drv' = drv
      /\ dpstate' = [dpstate EXCEPT ![b] = "RUN"]
  BY DEF Connected, PortEnabled
<1>4. drv[d] = "NULL"
  BY <1>3 DEF DriversInv, PortInv, Flushing
<1>5. DriverInv(b)'
  BY <1>3, <1>4 DEF DriversInv, DriverInv, HubWork, Ports
<1>6. \A a \in Buses \ {b} : AddressesKept(a)
  BY <1>1 DEF OthersKept, AddressesKept, Device, Root
<1>7. RootsKept(d) /\ TakenFrom(d, channels) /\ dpstate' \in [Buses -> PollState]
  BY <1>0, <1>1, <1>3 DEF RootsKept, TakenFrom, OthersKept, PollState
<1> HIDE DEF d
<1>8. \A a \in Buses : Root(a) = d => PortInv(a)'
  BY <1>0, <1>2
<1>9. \A a \in Buses : DriverInv(a)' \/ (Root(a) # d /\ hub'[a] = hub[a] /\ AddressesKept(a))
  BY <1>0, <1>5, <1>6
<1> QED
  BY <1>0, <1>1, <1>3, <1>7, <1>8, <1>9, DeviceStep

LEMMA HubResetStep ==
    ASSUME DriversInv, NEW b \in Buses, Reset(b), hub' = hub
    PROVE  DriversInv'
<1>0. PortsInv /\ TypeOK /\ OwnChannels /\ hub \in [Buses -> HubState]
  BY DriversPorts DEF DriversInv
<1>1. OwnChannels' /\ \A a \in Buses : PortInv(a)'
  BY <1>0, ResetStep
<1>2. TypeOK'
  BY <1>0, TypeStep DEF Next
<1>3. /\ UNCHANGED coreVars /\ refused' = refused /\ dpstate[b] = "DISCONN"
      /\ \A c \in Chan : c[1] # b => channels'[c] = channels[c]
      /\ \A c \in Chan : c[1] = b => channels'[c] \in {NoPacket, Halting}
  BY DEF Reset, PortReset, Flushed
<1>4. DriverInv(b)'
  <2>1. drv[Root(b)] = "NULL"
    BY <1>3 DEF DriversInv, PortInv, Down
  <2> QED
    BY <1>3, <2>1 DEF DriversInv, DriverInv, HubWork, Ports, coreVars
<1>5. ASSUME NEW a \in Buses \ {b}
      PROVE  DriverInv(a)'
  <2>1. PacketsKept(Root(a))
    BY <1>0, <1>3, RootIsDevice, BusAssumption DEF PacketsKept, OwnChannels, Of
  <2>2. AddressesKept(a)
    BY <1>3 DEF AddressesKept, coreVars
  <2> QED
    BY <1>3, <2>1, <2>2, DriverKept DEF DriversInv, coreVars
<1> QED
  BY <1>0, <1>1, <1>2, <1>4, <1>5 DEF DriversInv

\* Nothing but a channel that halts, a change at a port of a hub, or nothing.
LEMMA HubQuietStep ==
    ASSUME DriversInv, UNCHANGED <<dpstate, refused, coreVars>>, hub' = hub,
           \A c \in Chan : \/ channels'[c] = channels[c]
                           \/ channels[c] = Halting /\ channels'[c] = NoPacket,
           TypeOK'
    PROVE  DriversInv'
<1>1. OwnChannels' /\ \A a \in Buses : PortInv(a)'
  BY DriversPorts, QuietStep
<1>2. ASSUME NEW a \in Buses
      PROVE  DriverInv(a)'
  <2>1. PacketsKept(Root(a)) /\ AddressesKept(a)
    BY BusAssumption DEF PacketsKept, AddressesKept, Of, coreVars
  <2> QED
    BY <2>1, DriverKept DEF DriversInv, coreVars
<1> QED
  BY <1>1, <1>2 DEF DriversInv

LEMMA HInvInit == HubInit => HInv
<1> SUFFICES ASSUME HubInit PROVE HInv
  OBVIOUS
<1>1. PortsInv /\ TypeOK
  BY InvInit, InvPorts DEF HubInit, PortsInv
<1>2. /\ NoDevices \in [PortNum -> Slot \cup {Unused}] /\ NothingPlugged \in PortState
      /\ 0 \in 0 .. ports_num /\ \A p \in PortNum : NoDevices[p] # 0
  BY NothingPluggedTyped, HubAssumption DEF NoDevices, Unused
<1> DEFINE h == [state |-> "NONE", index |-> 0, busy |-> FALSE,
                 current_port |-> Unused, device |-> NoDevices,
                 request |-> "GET_STATUS", wIndex |-> 0, status |-> NothingPlugged]
<1>3. h \in HubState /\ h.state = "NONE" /\ h.device = NoDevices
  BY <1>2 DEF HubState, EventState, HubRequest
<1>4. hub = [b \in Buses |-> h]
  BY DEF HubInit
<1> HIDE DEF h
<1>5. hub \in [Buses -> HubState] /\ port \in [Buses -> [PortNum -> PortState]]
  BY <1>2, <1>3, <1>4 DEF HubInit
<1>6. ASSUME NEW b \in Buses
      PROVE  DriverInv(b)
  BY <1>2, <1>3, <1>4, RootIsDevice DEF DriverInv, HubWork, Ports, HubInit, Init
<1> QED
  BY <1>1, <1>5, <1>6 DEF HInv, DriversInv, PortsInv

LEMMA HInvStep == HInv /\ [HubNext]_hvars => HInv'
<1> SUFFICES ASSUME HInv, [HubNext]_hvars
             PROVE  HInv'
  OBVIOUS
<1>0. /\ DriversInv /\ TypeOK /\ port \in [Buses -> [PortNum -> PortState]]
  BY DEF HInv, DriversInv
<1>a. ASSUME DriversInv', port' \in [Buses -> [PortNum -> PortState]]
      PROVE  HInv'
  BY <1>a DEF HInv
<1>1. ASSUME NEW b \in Buses, Reset(b) /\ UNCHANGED hubVars
      PROVE  HInv'
  BY <1>0, <1>1, <1>a, HubResetStep DEF hubVars
<1>2. ASSUME NEW b \in Buses, Connected(b) /\ UNCHANGED hubVars
      PROVE  HInv'
  BY <1>0, <1>2, <1>a, HubConnectedStep DEF hubVars
<1>3. ASSUME NEW b \in Buses, HubDisconnected(b)
      PROVE  HInv'
  BY <1>3, HubDisconnectedStep
<1>4. ASSUME NEW b \in Buses, PollStatusChange(b)
      PROVE  HInv'
  BY <1>0, <1>4, <1>a, PollStatusChangeStep DEF PollStatusChange
<1>5. ASSUME NEW b \in Buses, PollInitial(b)
      PROVE  HInv'
  BY <1>0, <1>5, <1>a, PollInitialStep DEF PollInitial
<1>6. ASSUME NEW b \in Buses, PollStartEnumeration(b)
      PROVE  HInv'
  BY <1>0, <1>6, <1>a, PollStartEnumerationStep DEF PollStartEnumeration
<1>7. ASSUME NEW b \in Buses, NEW p \in PortNum,
             \/ \E s \in Speeds : Plug(b, p, s)
             \/ Unplug(b, p) \/ PortResetDone(b, p) \/ PortFault(b, p)
      PROVE  HInv'
  <2>1. UNCHANGED <<busVars, coreVars, hub>>
    BY <1>7 DEF Plug, Unplug, PortResetDone, PortFault
  <2>2. TypeOK'
    BY <1>0, <2>1, TypeStep DEF vars
  <2>3. DriversInv'
    BY <1>0, <2>1, <2>2, HubQuietStep DEF busVars
  <2> QED
    BY <1>7, <1>a, <2>3, PortChangeTyped
<1>8. ASSUME NEW b \in Buses, NEW p \in PortNum, LeafTransfer(b, p)
      PROVE  HInv'
  BY <1>0, <1>8, <1>a, LeafTransferStep DEF LeafTransfer, hubVars
<1>9. ASSUME NEW c \in Chan, HubCompletion(c)
      PROVE  HInv'
  <2>1. PICK r \in Responses(channels[c]), left \in {NoPacket, Halting} :
           /\ HubPacketCallback(channels[c], r, Released(c, left))
           /\ PortsAfter(channels[c], r)
    BY <1>9 DEF HubCompletion
  <2>2. Answerable(c) /\ dpstate' = dpstate
    BY <1>9 DEF HubCompletion
  <2>3. /\ channels[c] \in Packet /\ r \in Status
        /\ Released(c, left) \in [Chan -> Carried]
        /\ Reported(channels[c], r, Released(c, left))
    BY <2>2, HubCompletionReports
  <2>4. DriversInv'
    BY <2>1, <2>3, HubCallbackStep
  <2> QED
    BY <1>a, <2>1, <2>3, <2>4, PortsAfterTyped
<1>10. ASSUME NEW c \in Chan, Halted(c) /\ UNCHANGED hubVars
       PROVE  HInv'
  <2>1. /\ UNCHANGED <<dpstate, refused, coreVars>>
        /\ \A e \in Chan : \/ channels'[e] = channels[e]
                           \/ channels[e] = Halting /\ channels'[e] = NoPacket
    BY <1>0, <1>10 DEF Halted, ChannelHalted, TypeOK, BusTypeOK
  <2>2. TypeOK'
    BY <1>0, <1>10, TypeStep DEF Next
  <2> QED
    BY <1>0, <1>10, <1>a, <2>1, <2>2, HubQuietStep DEF hubVars
<1>11. CASE HubRefusal
  <2>1. /\ refused # NoPacket /\ dpstate' = dpstate /\ port' = port
        /\ HubPacketCallback(refused, "EFATAL", channels)
    BY <1>11 DEF HubRefusal
  <2>2. DriversInv'
    BY <2>1, HubRefusalReports, HubCallbackStep
  <2> QED
    BY <1>0, <1>a, <2>1, <2>2
<1>12. CASE UNCHANGED hvars
  <2>1. TypeOK'
    BY <1>0, <1>12, TypeStep DEF hvars
  <2>2. DriversInv'
    BY <1>0, <1>12, <2>1, HubQuietStep DEF hvars, hubVars, vars, busVars
  <2> QED
    BY <1>0, <1>12, <1>a, <2>2 DEF hvars, hubVars
<1>13. ASSUME NEW b \in Buses,
              \/ Reset(b) /\ UNCHANGED hubVars
              \/ Connected(b) /\ UNCHANGED hubVars
              \/ HubDisconnected(b)
              \/ PollStatusChange(b)
              \/ PollInitial(b)
              \/ PollStartEnumeration(b)
              \/ \E p \in PortNum :
                    \/ \E s \in Speeds : Plug(b, p, s)
                    \/ Unplug(b, p)
                    \/ PortResetDone(b, p)
                    \/ PortFault(b, p)
                    \/ LeafTransfer(b, p)
       PROVE  HInv'
  BY <1>1, <1>2, <1>3, <1>4, <1>5, <1>6, <1>7, <1>8, <1>13
<1> QED
  BY <1>9, <1>10, <1>11, <1>12, <1>13 DEF HubNext

\* The invariant holds in every reachable state.
THEOREM HubInvariance == HubSpec => []HInv
<1> QED
  BY HInvInit, HInvStep, PTL DEF HubSpec

-----------------------------------------------------------------------------
(* What the invariant means.                                               *)

\* The driver data and the ports keep their types, whatever the hub answers.
THEOREM HubTypeCorrect == HubSpec => []HubTypeOK
<1>1. HInv => HubTypeOK
  BY DEF HInv, DriversInv, HubTypeOK
<1> QED
  BY <1>1, HubInvariance, PTL

LEMMA HInvSingleFile == HInv => HubSingleFile
<1> SUFFICES ASSUME HInv, NEW b \in Buses, dpstate[b] = "RUN"
             PROVE  /\ ~(Asked(Root(b)) /\ StatusRequested(b))
                    /\ Asked(Root(b)) => hub[b].state \in RequestState
                    /\ StatusRequested(b) => hub[b].state = "POLL"
  BY DEF HubSingleFile, RequestState
<1> DEFINE d == Root(b)
<1>0. d \in Device /\ CoreTypeOK /\ DriversInv
  BY RootIsDevice, DriversPorts DEF HInv
<1>1. StatusRequested(b) => ~NoEvents(d)
  BY DEF StatusRequested, Awaits, Carries, NoEvents, EventPacket
<1>2. CASE drv[d] # "NULL"
  BY <1>0, <1>1, <1>2, DriverUp DEF SingleFile, RequestState
<1>3. CASE drv[d] = "NULL"
  <2>1. Up(d)
    BY <1>0 DEF DriversInv, PortInv
  <2>2. NoEvents(d)
    BY <1>3, <2>1 DEF Up
  <2>3. ~Asked(d)
    BY <1>0, <1>3, <2>1 DEF Up, NothingAsked, PipePacket, RawPacket, Asked
  <2> QED
    BY <1>1, <2>2, <2>3
<1> QED
  BY <1>2, <1>3

\* A hub driver does one thing at a time, and takes no answer for another.
THEOREM SingleFileAlways == HubSpec => []HubSingleFile
BY HubInvariance, HInvSingleFile, PTL

\* Beside the devices behind it, the hub itself keeps all that the core promises
\* of a root device: one transfer on endpoint 0,
THEOREM HubExclusive == HubSpec => []Ep0Exclusive
<1>1. HInv => Ep0Exclusive
  BY DriversPorts, PortsExclusive DEF HInv
<1> QED
  BY <1>1, HubInvariance, PTL

\* a control pipe that waits for what will come,
THEOREM HubPipeBacked == HubSpec => []ControlPipeBacked
<1>1. HInv => ControlPipeBacked
  BY DriversPorts, PortsPipe DEF HInv
<1> QED
  BY <1>1, HubInvariance, PTL

\* an enumeration that waits for the answer of its state,
THEOREM HubEnumerationBacked == HubSpec => []EnumerationBacked
<1>1. HInv => EnumerationBacked
  BY DriversPorts, PortsEnumeration DEF HInv
<1> QED
  BY <1>1, HubInvariance, PTL

\* and a driver that is bound, and called, between enumeration and removal only.
THEOREM HubDriverSettled == HubSpec => [](DriverOnlyWhenSettled /\ CallbackHasDriver)
<1>1. HInv => DriverOnlyWhenSettled /\ CallbackHasDriver
  BY DriversPorts, PortsDriver, PortsCallback DEF HInv
<1> QED
  BY <1>1, HubInvariance, PTL
=============================================================================
