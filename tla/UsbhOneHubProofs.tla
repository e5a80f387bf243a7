---------------------------- MODULE UsbhOneHubProofs ----------------------------
(***************************************************************************)
(* What UsbhHub promises with one bus: the lock and the default address    *)
(* have one holder at a time, and every other device the address of its    *)
(* slot.                                                                   *)
(***************************************************************************)
EXTENDS UsbhHubProofs

-----------------------------------------------------------------------------
(* The inductive invariant, on top of HInv.                                *)

\* An answer to p goes to the enumeration of d.
Enumerates(d, p) ==
    IF p.callback = "device_enumerate" THEN control[d].state = "NONE"
    ELSE control[d].state # "NONE" /\ control[d].callback = "device_enumerate"

\* The enumeration of d waits for an answer.
Live(d) == \E p \in Packet : Alone(d, p) /\ Enumerates(d, p)

\* The enumeration of d is not over.
Engaged(d) == address[d] = 0 \/ Live(d) \/ (d[2] = 0 /\ Enumerating(d))

\* The lock is held for the enumeration of d.
Holds(d) == enumeration_run /\ address_temporary = d[2] + 1

\* The hub driver looks for a new device, or has found one: the states between
\* the test of the lock and the start of an enumeration.
Looking == {"POLL", "GET_STATUS_COMPLETE", "PORT_RESET_REQ", "PORT_RESET_COMPLETE",
            "SLEEP_500_MS"}

\* The slot of the device whose enumeration is to start.
NextSlot(h) == h.device[h.current_port]

OneDevice(b, d) ==
    /\ address[d] > 0 => address[d] = d[2] + 1
    /\ address[d] = 0 => estate[d] = "SET_ADDRESS"
    /\ dpstate[b] # "RUN" => address[d] = -1
    /\ dpstate[b] = "DEVRST" => Silent(d) /\ NoEvents(d)
    /\ dpstate[b] = "RUN" => /\ Engaged(d) => Holds(d)
                             /\ d # Root(b) => Silent(d) \/ Live(d)

OneHub(b) ==
    /\ hub[b].state \in Looking => ~enumeration_run
    /\ hub[b].state = "SLEEP_500_MS" =>
          address[<<b, NextSlot(hub[b])>>] = NextSlot(hub[b]) + 1
    /\ \A d \in Device : OneDevice(b, d)

-----------------------------------------------------------------------------
(* Where an event takes the driver.                                        *)

LEMMA AskState ==
    ASSUME hub \in [Buses -> HubState], NEW b \in Buses, NEW h \in HubState,
           NEW state, NEW request, NEW wIndex, NEW ctl, NEW chs,
           Ask(b, h, state, request, wIndex, ctl, chs)
    PROVE  hub'[b].state = state
<1>1. [h EXCEPT !.state = state, !.request = request, !.wIndex = wIndex].state = state
  BY DEF HubState
<1> QED
  BY <1>1 DEF Ask

LEMMA RestState ==
    ASSUME hub \in [Buses -> HubState], NEW b \in Buses, NEW h, NEW ctl, NEW chs,
           Rest(b, h, ctl, chs)
    PROVE  hub'[b] = h
BY DEF Rest

LEMMA IdleState ==
    ASSUME NEW h \in HubState, NEW busy, NEW device
    PROVE  /\ Idle(h).state = "POLL_REQ"
           /\ [Idle(h) EXCEPT !.busy = busy].state = "POLL_REQ"
           /\ [Idle(h) EXCEPT !.state = "NONE"].state = "NONE"
BY IdleTyped DEF HubState

LEMMA EnablePortsState ==
    ASSUME hub \in [Buses -> HubState], NEW b \in Buses, NEW h \in HubState,
           NEW ctl, NEW chs, EnablePorts(b, h, ctl, chs)
    PROVE  hub'[b].state \notin Looking
<1>1. h.index \in 0 .. ports_num /\ ports_num \in Nat /\ 0 \in 0 .. ports_num
  BY HubAssumption DEF HubState
<1>2. CASE h.index < ports_num
  <2> DEFINE g == [h EXCEPT !.index = h.index + 1]
  <2>1. g \in HubState
    BY <1>1, <1>2, FieldsTyped
  <2>2. Ask(b, g, "ENABLE_PORTS", "SET_PORT_POWER", h.index + 1, ctl, chs)
    BY <1>2 DEF EnablePorts
  <2> HIDE DEF g
  <2> QED
    BY <2>1, <2>2, AskState DEF Looking
<1>3. CASE ~(h.index < ports_num)
  <2> DEFINE g == [h EXCEPT !.index = 0]
  <2>1. g \in HubState
    BY <1>1, FieldsTyped
  <2>2. Ask(b, g, "GET_PORT_STATUS", "GET_STATUS", 0, ctl, chs)
    BY <1>3 DEF EnablePorts
  <2> HIDE DEF g
  <2> QED
    BY <2>1, <2>2, AskState DEF Looking
<1> QED
  BY <1>2, <1>3

\* The driver comes to look for a device from nowhere but its poll, and has found
\* one only when the slot got its address.
EventMoves(b, h) ==
    \/ hub'[b].state \notin Looking
    \/ h.state \in Looking \ {"SLEEP_500_MS"} /\ hub'[b].state # "SLEEP_500_MS"
    \/ hub'[b] = h /\ address' = address
    \/ /\ h.state = "PORT_RESET_COMPLETE"
       /\ address'[<<b, NextSlot(hub'[b])>>] = NextSlot(hub'[b]) + 1

LEMMA StatusMoves ==
    ASSUME hub \in [Buses -> HubState], NEW b \in Buses, NEW h \in HubState,
           NEW r, NEW ctl, NEW chs,
           StatusChange(b, h, r, ctl, chs) \/ StatusRead(b, h, r, ctl, chs)
    PROVE  EventMoves(b, h)
<1>1. CASE StatusChange(b, h, r, ctl, chs)
  <2>0. h.state = "POLL"
    BY <1>1 DEF StatusChange
  <2>1. ASSUME Rest(b, Idle(h), ctl, chs)
        PROVE  EventMoves(b, h)
    BY <2>1, RestState, IdleState DEF EventMoves, Looking
  <2>2. ASSUME Rest(b, [Idle(h) EXCEPT !.state = "NONE"], ctl, chs)
        PROVE  EventMoves(b, h)
    BY <2>2, RestState, IdleState DEF EventMoves, Looking
  <2>3. ASSUME NEW p \in {Unused, 0} \cup PortNum,
               Ask(b, [h EXCEPT !.current_port = p], "GET_STATUS_COMPLETE",
                   "GET_STATUS", p, ctl, chs)
        PROVE  EventMoves(b, h)
    <3> DEFINE g == [h EXCEPT !.current_port = p]
    <3>1. g \in HubState
      BY FieldsTyped
    <3>2. Ask(b, g, "GET_STATUS_COMPLETE", "GET_STATUS", p, ctl, chs)
      BY <2>3
    <3> HIDE DEF g
    <3> QED
      BY <2>0, <3>1, <3>2, AskState DEF EventMoves, Looking
  <2>4. CASE \E p \in {Unused, 0} \cup PortNum :
                /\ ReportedPort(b, p)
                /\ IF p = Unused \/ (h.current_port >= 1 /\ h.current_port # p)
                   THEN Rest(b, Idle(h), ctl, chs)
                   ELSE Ask(b, [h EXCEPT !.current_port = p],
                            "GET_STATUS_COMPLETE", "GET_STATUS", p, ctl, chs)
    <3>1. PICK p \in {Unused, 0} \cup PortNum :
             IF p = Unused \/ (h.current_port >= 1 /\ h.current_port # p)
             THEN Rest(b, Idle(h), ctl, chs)
             ELSE Ask(b, [h EXCEPT !.current_port = p],
                      "GET_STATUS_COMPLETE", "GET_STATUS", p, ctl, chs)
      BY <2>4
    <3> QED
      BY <2>1, <2>3, <3>1
  <2> QED
    BY <1>1, <2>1, <2>2, <2>4 DEF StatusChange
<1>2. CASE StatusRead(b, h, r, ctl, chs)
  <2>0. h.state = "GET_STATUS_COMPLETE" /\ address' = address
    BY <1>2 DEF StatusRead
  <2>1. CASE Rest(b, Idle(h), ctl, chs)
    BY <2>1, RestState, IdleState DEF EventMoves, Looking
  <2>2. CASE Rest(b, h, ctl, chs)
    BY <2>0, <2>2, RestState DEF EventMoves
  <2>3. ASSUME NEW state \in {"PORT_RESET_REQ", "PORT_RESET_COMPLETE"}, NEW request, NEW p,
               Ask(b, h, state, request, p, ctl, chs)
        PROVE  EventMoves(b, h)
    BY <2>0, <2>3, AskState DEF EventMoves, Looking
  <2> QED
    BY <1>2, <2>1, <2>2, <2>3 DEF StatusRead
<1> QED
  BY <1>1, <1>2

LEMMA ConnectionMoves ==
    ASSUME hub \in [Buses -> HubState], NEW b \in Buses, NEW h \in HubState,
           NEW r, NEW ctl, NEW chs, ConnectionCleared(b, h, r, ctl, chs)
    PROVE  hub'[b].state \notin Looking
<1> DEFINE p == h.current_port
<1>1. CASE Ask(b, [h EXCEPT !.busy = TRUE], "GET_PORT_STATUS", "SET_PORT_RESET", p, ctl, chs)
  <2> DEFINE g == [h EXCEPT !.busy = TRUE]
  <2>1. g \in HubState
    BY FieldsTyped
  <2>2. Ask(b, g, "GET_PORT_STATUS", "SET_PORT_RESET", p, ctl, chs)
    BY <1>1
  <2> HIDE DEF g
  <2> QED
    BY <2>1, <2>2, AskState DEF Looking
<1>2. CASE Rest(b, [Idle(h) EXCEPT !.device[p] = Unused, !.busy = FALSE,
                                   !.current_port = Unused], ctl, chs)
  <2>1. [Idle(h) EXCEPT !.device[p] = Unused, !.busy = FALSE,
                        !.current_port = Unused].state = "POLL_REQ"
    BY IdleTyped DEF HubState
  <2> QED
    BY <1>2, <2>1, RestState DEF Looking
<1>3. CASE Rest(b, Idle(h), ctl, chs)
  BY <1>3, RestState, IdleState DEF Looking
<1> QED
  BY <1>1, <1>2, <1>3 DEF ConnectionCleared

LEMMA ResetMoves ==
    ASSUME hub \in [Buses -> HubState], address \in [Device -> Address],
           NEW b \in Buses, NEW h, Found(b, h),
           NEW r, NEW ctl, NEW chs, ResetCleared(b, h, r, ctl, chs)
    PROVE  EventMoves(b, h)
<1> DEFINE p == h.current_port
<1>1. h \in HubState /\ h.state = "PORT_RESET_COMPLETE" /\ p \in PortNum
  BY DEF Found, HubWork, ResetCleared
<1>2. ASSUME NEW s \in Slot, address' = [address EXCEPT ![<<b, s>>] = s + 1],
             Rest(b, [h EXCEPT !.device[p] = s, !.state = "SLEEP_500_MS"], ctl, chs)
      PROVE  EventMoves(b, h)
  <2> DEFINE g == [h EXCEPT !.device[p] = s, !.state = "SLEEP_500_MS"]
  <2>1. g.device = [h.device EXCEPT ![p] = s] /\ g.current_port = p
    BY <1>1 DEF HubState
  <2>2. h.device \in [PortNum -> Slot \cup {Unused}]
    BY <1>1 DEF HubState
  <2>3. NextSlot(g) = s
    BY <1>1, <2>1, <2>2 DEF NextSlot
  <2>4. hub'[b] = g
    BY <1>2, RestState
  <2>5. address'[<<b, s>>] = s + 1
    BY <1>2 DEF Device
  <2> HIDE DEF g
  <2> QED
    BY <1>1, <2>3, <2>4, <2>5 DEF EventMoves
<1>3. ASSUME NEW s \in Slot,
             Ask(b, [h EXCEPT !.device[p] = s, !.current_port = Unused],
                 "GET_PORT_STATUS", "CLEAR_PORT_ENABLE", p, ctl, chs)
      PROVE  EventMoves(b, h)
  <2> DEFINE g == [h EXCEPT !.device[p] = s, !.current_port = Unused]
  <2>1. g \in HubState
    BY <1>1 DEF HubState
  <2>2. Ask(b, g, "GET_PORT_STATUS", "CLEAR_PORT_ENABLE", p, ctl, chs)
    BY <1>3
  <2> HIDE DEF g
  <2> QED
    BY <2>1, <2>2, AskState DEF EventMoves, Looking
<1>4. CASE Rest(b, h, ctl, chs) /\ address' = address
  BY <1>4, RestState DEF EventMoves
<1>5. CASE Rest(b, Idle(h), ctl, chs)
  BY <1>1, <1>5, RestState, IdleState DEF EventMoves, Looking
<1> QED
  BY <1>2, <1>3, <1>4, <1>5 DEF ResetCleared

LEMMA InitialisationMoves ==
    ASSUME hub \in [Buses -> HubState], NEW b \in Buses, NEW h \in HubState,
           NEW r, NEW ctl, NEW chs,
           \/ HubDescriptorRead(b, h, r, ctl, chs) \/ PortsPowered(b, h, r, ctl, chs)
           \/ PortStatusRead(b, h, r, ctl, chs)
    PROVE  hub'[b].state \notin Looking
<1>0. /\ h.index \in 0 .. ports_num /\ ports_num \in Nat /\ 0 \in 0 .. ports_num
      /\ h.state \in {"READ_HUB_DESCRIPTOR_COMPLETE", "ENABLE_PORTS", "GET_PORT_STATUS"}
  BY HubAssumption DEF HubState, HubDescriptorRead, PortsPowered, PortStatusRead
<1>1. CASE EnablePorts(b, h, ctl, chs)
  BY <1>1, EnablePortsState
<1>2. CASE EnablePorts(b, [h EXCEPT !.index = 0], ctl, chs)
  <2> DEFINE g == [h EXCEPT !.index = 0]
  <2>1. g \in HubState /\ EnablePorts(b, g, ctl, chs)
    BY <1>0, <1>2, FieldsTyped
  <2> HIDE DEF g
  <2> QED
    BY <2>1, EnablePortsState
<1>3. CASE Rest(b, h, ctl, chs)
  BY <1>0, <1>3, RestState DEF Looking
<1>4. CASE Ask(b, h, h.state, "GET_DESCRIPTOR", 0, ctl, chs)
  BY <1>0, <1>4, AskState DEF Looking
<1>5. CASE /\ h.index < ports_num
           /\ Ask(b, [h EXCEPT !.index = @ + 1], h.state, "GET_STATUS", h.index + 1, ctl, chs)
  <2> DEFINE g == [h EXCEPT !.index = h.index + 1]
  <2>1. g \in HubState /\ Ask(b, g, h.state, "GET_STATUS", h.index + 1, ctl, chs)
    BY <1>0, <1>5, FieldsTyped
  <2> HIDE DEF g
  <2> QED
    BY <1>0, <2>1, AskState DEF Looking
<1>6. CASE Rest(b, [Idle(h) EXCEPT !.busy = FALSE], ctl, chs)
  BY <1>6, RestState, IdleState DEF Looking
<1> QED
  BY <1>1, <1>2, <1>3, <1>4, <1>5, <1>6 DEF HubDescriptorRead, PortsPowered, PortStatusRead

LEMMA EventMoved ==
    ASSUME hub \in [Buses -> HubState], address \in [Device -> Address],
           NEW b \in Buses, NEW h, Found(b, h),
           NEW r, NEW ctl, NEW chs, HubEvent(b, h, r, ctl, chs)
    PROVE  /\ EventMoves(b, h)
           /\ \A d \in Device : address'[d] \in {address[d], -1, d[2] + 1}
<1>0. h \in HubState
  BY DEF Found
<1>1. EventMoves(b, h)
  <2>1. CASE EventIgnored(b, h, ctl, chs)
    BY <2>1, RestState DEF EventIgnored, EventMoves
  <2> QED
    BY <1>0, <2>1, StatusMoves, ConnectionMoves, ResetMoves, InitialisationMoves
       DEF HubEvent, EventMoves
<1>2. \/ address' = address
      \/ \E D : address' = [d \in Device |-> IF d \in D THEN -1 ELSE address[d]]
      \/ \E s \in Slot : address' = [address EXCEPT ![<<b, s>>] = s + 1]
  BY DEF HubEvent, StatusChange, HubDescriptorRead, EnablePorts, PortsPowered,
         PortStatusRead, StatusRead, ConnectionCleared, DeviceRemove, ResetCleared, EventIgnored
<1> SUFFICES ASSUME NEW d \in Device
             PROVE  address'[d] \in {address[d], -1, d[2] + 1}
  BY <1>1
<1>3. CASE address' = address
  BY <1>3
<1>4. CASE \E D : address' = [e \in Device |-> IF e \in D THEN -1 ELSE address[e]]
  BY <1>4
<1>5. CASE \E s \in Slot : address' = [address EXCEPT ![<<b, s>>] = s + 1]
  <2>1. PICK s \in Slot : address' = [address EXCEPT ![<<b, s>>] = s + 1]
    BY <1>5
  <2>2. CASE d = <<b, s>>
    <3>1. d[2] = s
      BY <2>2
    <3>2. address'[d] = s + 1
      BY <2>1, <2>2
    <3> QED
      BY <3>1, <3>2
  <2>3. CASE d # <<b, s>>
    BY <2>1, <2>3
  <2> QED
    BY <2>2, <2>3
<1> QED
  BY <1>2, <1>3, <1>4, <1>5

-----------------------------------------------------------------------------
(* What an enumeration may be waiting for.                                 *)

LEMMA AloneIsOne ==
    ASSUME NEW d, NEW p, NEW q, Alone(d, p), Alone(d, q)
    PROVE  p = q /\ ~Silent(d)
BY DEF Alone, Silent

LEMMA LiveIsLoud == \A d : Silent(d) => ~Live(d)
BY AloneIsOne DEF Live

LEMMA LiveIsLoudNext == (\A d : Silent(d) => ~Live(d))'
BY LiveIsLoud, PTL

\* The enumeration of a hub is over when its own record says so.
LEMMA RootEngaged == \A b : Up(Root(b)) => (Engaged(Root(b)) <=> Enumerating(Root(b)))
<1> SUFFICES ASSUME NEW b, Up(Root(b))
             PROVE  Engaged(Root(b)) <=> Enumerating(Root(b))
  OBVIOUS
<1> DEFINE d == Root(b)
<1>1. ASSUME Live(d)
      PROVE  Enumerating(d)
  <2>1. PICK p \in Packet : Alone(d, p) /\ Enumerates(d, p)
    BY <1>1 DEF Live
  <2>2. PipePacket(d, p) \/ RawPacket(d, p)
    BY <2>1, AloneIsOne DEF Up
  <2> QED
    BY <2>1, <2>2 DEF Enumerates, PipePacket, RawPacket, Enumerating, Raw, RawKind
<1>2. address[d] = 0 => Enumerating(d)
  BY DEF Enumerating
<1>3. d[2] = 0
  BY DEF Root
<1> QED
  BY <1>1, <1>2, <1>3 DEF Engaged

LEMMA RootEngagedNext ==
    (\A b : Up(Root(b)) => (Engaged(Root(b)) <=> Enumerating(Root(b))))'
BY RootEngaged, PTL

LEMMA OneBus ==
    ASSUME NEW b, Buses = {b}
    PROVE  /\ b \in Buses /\ Root(b) \in Device
           /\ \A d \in Device : /\ d[1] = b /\ d[2] \in Slot /\ d = <<b, d[2]>>
                                /\ d[2] = 0 <=> d = Root(b)
                                /\ d[2] + 1 # 0
BY RootIsDevice, BusAssumption DEF Device, Slot, Root

\* At most one device holds the lock.
LEMMA OneHolder ==
    ASSUME NEW b, Buses = {b}, NEW d \in Device, NEW e \in Device, Holds(d), Holds(e)
    PROVE  d = e
<1>1. d = <<b, d[2]>> /\ e = <<b, e[2]>> /\ d[2] \in Int /\ e[2] \in Int
  BY OneBus DEF Slot
<1>2. d[2] = e[2]
  BY <1>1 DEF Holds
<1> QED
  BY <1>1, <1>2

LEMMA RootUp ==
    HInv => \A b \in Buses :
               /\ dpstate[b] = "RUN" => Up(Root(b))
               /\ dpstate[b] # "RUN" => drv[Root(b)] = "NULL" /\ hub[b].state \notin Looking
<1> SUFFICES ASSUME HInv, NEW b \in Buses
             PROVE  /\ dpstate[b] = "RUN" => Up(Root(b))
                    /\ dpstate[b] # "RUN" => drv[Root(b)] = "NULL" /\ hub[b].state \notin Looking
  OBVIOUS
<1>1. PortsInv /\ DriverInv(b)
  BY DriversPorts DEF HInv, DriversInv
<1>2. drv[Root(b)] = "NULL" => hub[b].state \notin Looking
  BY <1>1 DEF DriverInv, Looking
<1> QED
  BY <1>1, <1>2, PortInvCases DEF Down, Flushing

LEMMA RootUpNext ==
    (HInv => \A b \in Buses :
                /\ dpstate[b] = "RUN" => Up(Root(b))
                /\ dpstate[b] # "RUN" => drv[Root(b)] = "NULL" /\ hub[b].state \notin Looking)'
BY RootUp, PTL

\* The device keeps its packets, and nothing of its enumeration changes.
Undisturbed(d) ==
    /\ Silent(d) => Silent(d)'
    /\ \A p \in Packet : Alone(d, p) => Alone(d, p)'
    /\ control'[d] = control[d]

\* A device that a step is not about.
LEMMA DeviceKept ==
    ASSUME NEW b, Buses = {b}, HInv, HInv', NEW d \in Device, OneDevice(b, d),
           dpstate[b] = "RUN", dpstate' = dpstate,
           estate'[d] = estate[d], address'[d] \in {address[d], -1, d[2] + 1},
           IF d = Root(b) THEN address'[d] = address[d] ELSE Undisturbed(d),
           Engaged(d) => Holds(d)'
    PROVE  OneDevice(b, d)'
<1>0. d[2] + 1 # 0 /\ (d[2] = 0 <=> d = Root(b))
  BY OneBus
<1>1. Engaged(d)' => Engaged(d)
  <2>1. CASE d = Root(b)
    <3>1. Up(Root(b)) /\ Up(Root(b))'
      BY OneBus, RootUp, RootUpNext
    <3>2. Enumerating(d)' = Enumerating(d)
      BY <2>1 DEF Enumerating
    <3>3. (Engaged(d) <=> Enumerating(d)) /\ (Engaged(d) <=> Enumerating(d))'
      BY <2>1, <3>1, RootEngaged, RootEngagedNext
    <3> QED
      BY <3>2, <3>3
  <2>2. CASE d # Root(b)
    <3>1. Silent(d) => ~Live(d)'
      BY <2>2, LiveIsLoudNext DEF Undisturbed
    <3>2. Silent(d) \/ Live(d)
      BY <2>2 DEF OneDevice
    <3>3. address'[d] = 0 => address[d] = 0
      BY <1>0
    <3> QED
      BY <1>0, <2>2, <3>1, <3>2, <3>3 DEF Engaged
  <2> QED
    BY <2>1, <2>2
<1>2. d # Root(b) => Silent(d)' \/ Live(d)'
  <2>1. ASSUME d # Root(b), Live(d)
        PROVE  Live(d)'
    <3>1. PICK p \in Packet : Alone(d, p) /\ Enumerates(d, p)
      BY <2>1 DEF Live
    <3>2. Alone(d, p)' /\ Enumerates(d, p)'
      BY <2>1, <3>1 DEF Undisturbed, Enumerates
    <3> QED
      BY <3>2 DEF Live
  <2> QED
    BY <2>1 DEF OneDevice, Undisturbed
<1>3. address'[d] > 0 => address'[d] = d[2] + 1
  BY DEF OneDevice
<1>4. address'[d] = 0 => estate'[d] = "SET_ADDRESS"
  BY <1>0 DEF OneDevice
<1> QED
  BY <1>1, <1>2, <1>3, <1>4 DEF OneDevice

-----------------------------------------------------------------------------
(* The steps of the bus and of the ports.                                  *)

\* Nothing but a channel that halts, a change at a port of the hub, or nothing.
LEMMA QuietStays ==
    ASSUME NEW b, Buses = {b}, HInv, HInv', OneHub(b),
           UNCHANGED <<dpstate, refused, coreVars>>, hub' = hub,
           \A c \in Chan : \/ channels'[c] = channels[c]
                           \/ channels[c] = Halting /\ channels'[c] = NoPacket
    PROVE  OneHub(b)'
<1>1. ASSUME NEW d \in Device
      PROVE  OneDevice(b, d)'
  <2>1. PacketsKept(d)
    BY BusAssumption DEF PacketsKept, Of
  <2>2. Undisturbed(d) /\ (NoEvents(d) => NoEvents(d)')
    BY <2>1, PacketsKeptSame DEF Undisturbed, coreVars
  <2>3. OneDevice(b, d)
    BY DEF OneHub
  <2>4. CASE dpstate[b] = "RUN"
    BY <2>2, <2>3, <2>4, DeviceKept DEF coreVars, OneDevice, Holds
  <2>5. CASE dpstate[b] # "RUN"
    BY <2>2, <2>3, <2>5 DEF coreVars, OneDevice, Undisturbed
  <2> QED
    BY <2>4, <2>5
<1> QED
  BY <1>1 DEF OneHub, coreVars, NextSlot

LEMMA ResetStays ==
    ASSUME NEW b, Buses = {b}, HInv, OneHub(b), Reset(b), hub' = hub
    PROVE  OneHub(b)'
<1>1. /\ UNCHANGED coreVars /\ refused = NoPacket /\ refused' = refused
      /\ dpstate[b] = "DISCONN" /\ dpstate' = [dpstate EXCEPT ![b] = "DEVRST"]
      /\ \A c \in Chan : channels'[c] \in {NoPacket, Halting}
  <2>1. \A c \in Chan : c[1] = b
    BY DEF Chan
  <2> QED
    BY <2>1 DEF Reset, PortReset, Flushed
<1>2. dpstate'[b] = "DEVRST"
  BY <1>1, DriversPorts DEF HInv, BusTypeOK
<1>3. ASSUME NEW d \in Device
      PROVE  OneDevice(b, d)'
  <2>1. Silent(d)' /\ NoEvents(d)'
    BY <1>1, BusAssumption DEF Silent, NoEvents, Ep0Packet, EventPacket
  <2>2. address'[d] = -1
    BY <1>1 DEF coreVars, OneHub, OneDevice
  <2> QED
    BY <1>2, <2>1, <2>2 DEF OneDevice
<1>4. hub[b].state \notin Looking
  BY <1>1, RootUp
<1>5. hub'[b].state # "SLEEP_500_MS"
  BY <1>4 DEF Looking
<1> QED
  BY <1>3, <1>4, <1>5 DEF OneHub

LEMMA DisconnectedStays ==
    ASSUME NEW b, Buses = {b}, HInv, HInv', OneHub(b), HubDisconnected(b)
    PROVE  OneHub(b)'
<1>1. /\ dpstate' = [dpstate EXCEPT ![b] = "DISCONN"]
      /\ address' = [d \in Device |-> IF d[1] = b THEN -1 ELSE address[d]]
  BY DEF HubDisconnected, Disconnected, PortGone, DeviceRemove
<1>2. dpstate'[b] = "DISCONN"
  BY <1>1, DriversPorts DEF HInv, BusTypeOK
<1>3. ASSUME NEW d \in Device
      PROVE  OneDevice(b, d)'
  BY <1>1, <1>2, OneBus DEF OneDevice
<1>4. hub'[b].state \notin Looking
  BY <1>2, RootUpNext, OneBus
<1>5. hub'[b].state # "SLEEP_500_MS"
  BY <1>4 DEF Looking
<1> QED
  BY <1>3, <1>4, <1>5 DEF OneHub

\* The devices that a step about device d is not about.
LEMMA OthersStay ==
    ASSUME NEW b, Buses = {b}, HInv, HInv', OneHub(b),
           dpstate[b] = "RUN", dpstate' = dpstate,
           NEW d \in Device, NEW chs \in [Chan -> Carried], TakenFrom(d, chs),
           refused = NoPacket \/ Of(refused, d), Submits(d, chs),
           \A e \in Device \ {d} :
              /\ estate'[e] = estate[e] /\ control'[e] = control[e]
              /\ address'[e] \in {address[e], -1, e[2] + 1}
              /\ e = Root(b) => address'[e] = address[e]
              /\ Engaged(e) => Holds(e)'
    PROVE  \A e \in Device \ {d} : OneDevice(b, e)'
<1>1. ASSUME NEW e \in Device \ {d}
      PROVE  OneDevice(b, e)'
  <2>1. PacketsKept(e)
    BY SubmitsKeepsOthers
  <2>2. Undisturbed(e)
    BY <2>1, PacketsKeptSame DEF Undisturbed
  <2> QED
    BY <2>2, DeviceKept DEF OneHub
<1> QED
  BY <1>1

\* Nobody is being enumerated when the lock is free.
LEMMA FreeLock ==
    ASSUME NEW b, OneHub(b), dpstate[b] = "RUN", ~enumeration_run, NEW d \in Device
    PROVE  ~Engaged(d) /\ (d # Root(b) => Silent(d))
BY DEF OneHub, OneDevice, Holds, Engaged

LEMMA ConnectedStays ==
    ASSUME NEW b, Buses = {b}, HInv, OneHub(b), Connected(b), hub' = hub
    PROVE  OneHub(b)'
<1> DEFINE r == Root(b)
<1>0. /\ CoreTypeOK /\ BusTypeOK /\ b \in Buses /\ r \in Device /\ r[2] = 0
      /\ channels \in [Chan -> Carried]
  BY OneBus, DriversPorts DEF HInv, BusTypeOK, Carried, Root
<1>1. /\ refused = NoPacket /\ dpstate[b] = "DEVRST"
      /\ dpstate' = [dpstate EXCEPT ![b] = "RUN"]
      /\ enumeration_run' = TRUE /\ address_temporary' = 1
      /\ address' = [address EXCEPT ![r] = 0]
      /\ estate' = [estate EXCEPT ![r] = "SET_ADDRESS"]
  BY DEF Connected, PortEnabled, EnumerationStart
<1>2. OthersKept(r) /\ Submits(r, channels)
  BY <1>0, ConnectedTyped
<1>3. TakenFrom(r, channels)
  BY DEF TakenFrom
<1>4. dpstate'[b] = "RUN"
  BY <1>0, <1>1 DEF BusTypeOK
<1>5. ASSUME NEW d \in Device
      PROVE  OneDevice(b, d)'
  <2>1. CASE d = r
    <3>1. address'[d] = 0 /\ estate'[d] = "SET_ADDRESS" /\ Holds(d)'
      BY <1>0, <1>1, <2>1 DEF Holds, CoreTypeOK
    <3> QED
      BY <1>4, <2>1, <3>1 DEF OneDevice
  <2>2. CASE d # r
    <3>1. PacketsKept(d)
      BY <1>0, <1>1, <1>2, <1>3, <2>2, SubmitsKeepsOthers
    <3>2. address[d] = -1 /\ Silent(d)
      BY <1>1 DEF OneHub, OneDevice
    <3>3. address'[d] = -1 /\ Silent(d)' /\ d[2] # 0
      BY <1>2, <2>2, <3>1, <3>2, PacketsKeptSame, OneBus DEF OthersKept
    <3>4. ~Live(d)'
      BY <3>3, LiveIsLoudNext
    <3> QED
      BY <1>4, <3>3, <3>4 DEF OneDevice, Engaged
  <2> QED
    BY <2>1, <2>2
<1>6. hub[b].state \notin Looking
  BY <1>0, <1>1, RootUp
<1>7. hub'[b].state # "SLEEP_500_MS"
  BY <1>6 DEF Looking
<1> QED
  BY <1>5, <1>6, <1>7 DEF OneHub

\* The status change endpoint is read when nobody is being enumerated.
LEMMA PollStatusStays ==
    ASSUME NEW b, Buses = {b}, HInv, HInv', OneHub(b), PollStatusChange(b)
    PROVE  OneHub(b)'
<1> DEFINE r == Root(b)
<1>0. /\ CoreTypeOK /\ b \in Buses /\ r \in Device /\ DriversInv
      /\ channels \in [Chan -> Carried] /\ hub \in [Buses -> HubState]
  BY OneBus, DriversPorts DEF HInv, DriversInv, BusTypeOK, Carried
<1>1. /\ refused = NoPacket /\ drv[r] = "READY" /\ ~enumeration_run
      /\ UNCHANGED <<coreVars, dpstate>>
      /\ hub' = [hub EXCEPT ![b].state = "POLL"]
      /\ Issue(NewPacket(r, "IN", "event"), channels)
  BY DEF PollStatusChange, Polled
<1>2. dpstate[b] = "RUN"
  BY <1>0, <1>1, DriverUp
<1>3. Submits(r, channels) /\ TakenFrom(r, channels)
  <2>1. DriverTransfer(r)
    BY <1>1 DEF DriverTransfer, Transfers
  <2> QED
    BY <1>0, <2>1, DriverSubmits DEF TakenFrom
<1>4. \A d \in Device : ~Engaged(d)
  BY <1>1, <1>2, FreeLock
<1>5. \A d \in Device \ {r} : OneDevice(b, d)'
  BY <1>0, <1>1, <1>2, <1>3, <1>4, OthersStay DEF coreVars
<1>6. OneDevice(b, r)'
  BY <1>0, <1>1, <1>2, <1>4, DeviceKept DEF coreVars, OneHub
<1>7. hub'[b].state = "POLL" /\ ~enumeration_run'
  BY <1>0, <1>1 DEF HubState, coreVars
<1> QED
  BY <1>5, <1>6, <1>7 DEF OneHub

LEMMA PollInitialStays ==
    ASSUME NEW b, Buses = {b}, HInv, HInv', OneHub(b), PollInitial(b)
    PROVE  OneHub(b)'
<1> DEFINE r == Root(b)
<1>0. /\ CoreTypeOK /\ b \in Buses /\ r \in Device /\ DriversInv
      /\ channels \in [Chan -> Carried] /\ hub \in [Buses -> HubState]
      /\ hub[b] \in HubState
  BY OneBus, DriversPorts DEF HInv, DriversInv, BusTypeOK, Carried
<1>1. /\ refused = NoPacket /\ drv[r] = "READY" /\ dpstate' = dpstate
      /\ UNCHANGED <<coreFrame, address>>
  BY DEF PollInitial, Polled, EnablePorts
<1>2. dpstate[b] = "RUN"
  BY <1>0, <1>1, DriverUp
<1>3. /\ \E request \in Request : DeviceControl(r, "event", request, control, channels)
      /\ hub'[b].state \notin Looking
  <2>1. CASE Ask(b, hub[b], "READ_HUB_DESCRIPTOR_COMPLETE", "GET_DESCRIPTOR", 0,
                 control, channels)
    <3>1. hub'[b].state = "READ_HUB_DESCRIPTOR_COMPLETE"
      BY <1>0, <2>1, AskState
    <3> QED
      BY <2>1, <3>1 DEF Ask, Request, Looking
  <2>2. CASE EnablePorts(b, [hub[b] EXCEPT !.index = 0], control, channels)
    <3> DEFINE g == [hub[b] EXCEPT !.index = 0]
    <3>1. g \in HubState
      BY <1>0, HubAssumption, FieldsTyped
    <3>2. EnablePorts(b, g, control, channels)
      BY <2>2
    <3> HIDE DEF g
    <3>3. \E request \in Request : DeviceControl(r, "event", request, control, channels)
      BY <3>2 DEF EnablePorts, Ask, Request
    <3> QED
      BY <1>0, <3>1, <3>2, <3>3, EnablePortsState
  <2> QED
    BY <2>1, <2>2 DEF PollInitial
<1>4. /\ Submits(r, channels) /\ TakenFrom(r, channels)
      /\ \A e \in Device \ {r} : control'[e] = control[e]
  BY <1>0, <1>1, <1>3, DeviceControlTyped DEF CoreTypeOK, TakenFrom
<1>5. \A d \in Device : Engaged(d) => Holds(d)'
  BY <1>1, <1>2 DEF OneHub, OneDevice, Holds, coreFrame
<1>6. \A d \in Device \ {r} : OneDevice(b, d)'
  BY <1>0, <1>1, <1>2, <1>4, <1>5, OthersStay DEF coreFrame
<1>7. OneDevice(b, r)'
  BY <1>0, <1>1, <1>2, <1>5, DeviceKept DEF coreFrame, OneHub
<1>8. hub'[b].state # "SLEEP_500_MS"
  BY <1>3 DEF Looking
<1> QED
  BY <1>3, <1>6, <1>7, <1>8 DEF OneHub

\* The enumeration of a device behind the hub starts when no other one is under way.
LEMMA PollStartStays ==
    ASSUME NEW b, Buses = {b}, HInv, HInv', OneHub(b), PollStartEnumeration(b)
    PROVE  OneHub(b)'
<1> DEFINE h == [Idle(hub[b]) EXCEPT !.busy = FALSE, !.current_port = Unused]
<1>0. /\ CoreTypeOK /\ b \in Buses /\ DriversInv
      /\ channels \in [Chan -> Carried] /\ hub \in [Buses -> HubState]
      /\ hub[b] \in HubState /\ control \in [Device -> Control]
  BY OneBus, DriversPorts DEF HInv, DriversInv, BusTypeOK, Carried, CoreTypeOK
<1>1. /\ refused = NoPacket /\ drv[Root(b)] = "READY" /\ hub[b].state = "SLEEP_500_MS"
      /\ hub' = [hub EXCEPT ![b] = h] /\ drv' = drv /\ dpstate' = dpstate
  BY DEF PollStartEnumeration, Polled
<1>2. dpstate[b] = "RUN" /\ HubWork(hub[b]) /\ Ports(b)
  BY <1>0, <1>1, DriverUp
<1>3. NextSlot(hub[b]) \in Slot \ {0}
  <2>1. hub[b].current_port \in PortNum /\ NextSlot(hub[b]) # Unused
    BY <1>1, <1>2 DEF HubWork, NextSlot
  <2> QED
    BY <1>0, <1>2, <2>1 DEF HubState, Ports, NextSlot
<1>s. PICK s \in Slot \ {0} : s = NextSlot(hub[b])
  BY <1>3
<1>d. PICK d \in Device : d = <<b, s>>
  BY <1>0 DEF Device
<1>e. EnumerationStart(d, address[d], control, channels)
  BY <1>s, <1>d DEF PollStartEnumeration, NextSlot
<1>f. d[2] = s /\ d # Root(b)
  BY <1>s, <1>d DEF Root
<1>4. ~enumeration_run /\ address[d] = s + 1
  BY <1>1, <1>s, <1>d DEF OneHub, Looking
<1>5. hub'[b].state = "POLL_REQ"
  <2>1. h.state = "POLL_REQ"
    BY <1>0, IdleTyped DEF HubState
  <2> HIDE DEF h
  <2> QED
    BY <1>0, <1>1, <2>1
<1> HIDE DEF h
<1>6. /\ enumeration_run' = TRUE /\ address_temporary' = s + 1
      /\ address' = [address EXCEPT ![d] = 0]
      /\ estate' = [estate EXCEPT ![d] = "SET_ADDRESS"]
      /\ DeviceControl(d, "device_enumerate", "NODATA", control, channels)
  BY <1>e, <1>4 DEF EnumerationStart
<1>7. \A e \in Device : ~Engaged(e) /\ (e # Root(b) => Silent(e))
  BY <1>2, <1>4, FreeLock
<1>8. address' \in [Device -> Address] /\ address'[d] = 0 /\ estate'[d] = "SET_ADDRESS"
  BY <1>0, <1>6, ZeroOneAddress DEF CoreTypeOK
<1>9. /\ Submits(d, channels) /\ TakenFrom(d, channels)
      /\ \A e \in Device \ {d} : control'[e] = control[e]
  BY <1>0, <1>6, <1>8, DeviceControlTyped DEF Request, TakenFrom
<1>10. \A e \in Device \ {d} : OneDevice(b, e)'
  <2>1. \A e \in Device \ {d} : address'[e] = address[e] /\ estate'[e] = estate[e]
    BY <1>0, <1>6 DEF CoreTypeOK
  <2> QED
    BY <1>0, <1>1, <1>2, <1>7, <1>9, <2>1, OthersStay
<1>11. Silent(d)' \/ Live(d)'
  <2>0. Silent(d) /\ Clear(d, channels)
    BY <1>f, <1>7 DEF Silent, Clear
  <2>1. CASE control[d].state # "NONE"
    BY <1>6, <2>0, <2>1, NothingSubmitted DEF DeviceControl
  <2>2. CASE control[d].state = "NONE"
    <3>1. PICK p \in Packet : p = NewPacket(d, "SETUP", "control_state_machine")
      BY <1>8, NewPacketTyped DEF Kind, Callback
    <3>2. /\ Ep0Packet(p, d) /\ p.callback = "control_state_machine"
          /\ Issue(p, channels)
          /\ control' = [control EXCEPT ![d] = [state |-> "SETUP", callback |-> "device_enumerate",
                                                request |-> "NODATA"]]
      BY <1>6, <2>2, <3>1 DEF DeviceControl, Ep0Packet, NewPacket
    <3>3. Alone(d, p)'
      BY <1>0, <2>0, <3>2, PacketSubmitted
    <3>4. control'[d].state = "SETUP" /\ control'[d].callback = "device_enumerate"
      BY <1>0, <3>2
    <3>5. Enumerates(d, p)'
      BY <3>2, <3>4 DEF Enumerates
    <3> QED
      BY <3>3, <3>5 DEF Live
  <2> QED
    BY <2>1, <2>2
<1>12. OneDevice(b, d)'
  BY <1>1, <1>2, <1>f, <1>6, <1>8, <1>11 DEF OneDevice, Holds
<1> QED
  BY <1>5, <1>10, <1>12 DEF OneHub, Looking

\* The drivers behind the hub are polled when nobody is being enumerated.
LEMMA LeafTransferStays ==
    ASSUME NEW b, Buses = {b}, HInv, HInv', OneHub(b), NEW q \in PortNum, LeafTransfer(b, q)
    PROVE  OneHub(b)'
<1>0. /\ CoreTypeOK /\ b \in Buses /\ DriversInv /\ hub[b] \in HubState
      /\ channels \in [Chan -> Carried]
  BY OneBus, DriversPorts DEF HInv, DriversInv, BusTypeOK, Carried
<1>1. /\ refused = NoPacket /\ drv[Root(b)] = "READY" /\ ~enumeration_run
      /\ hub' = hub /\ hub[b].device[q] # Unused
  BY DEF LeafTransfer, Polled, hubVars
<1>2. dpstate[b] = "RUN" /\ Ports(b)
  BY <1>0, <1>1, DriverUp
<1>3. hub[b].device[q] \in Slot \ {0}
  BY <1>0, <1>1, <1>2 DEF HubState, Ports
<1>d. PICK d \in Device : d = <<b, hub[b].device[q]>>
  BY <1>0, <1>3 DEF Device
<1>4. d # Root(b) /\ DriverTransfer(d)
  BY <1>d, <1>3 DEF Root, LeafTransfer
<1>5. UNCHANGED <<coreVars, dpstate>> /\ Transfers(d, channels)
  BY <1>4 DEF DriverTransfer
<1>6. Submits(d, channels) /\ TakenFrom(d, channels)
  BY <1>0, <1>1, <1>4, DriverSubmits DEF TakenFrom
<1>7. \A e \in Device : ~Engaged(e) /\ (e # Root(b) => Silent(e))
  BY <1>1, <1>2, FreeLock
<1>8. \A e \in Device \ {d} : OneDevice(b, e)'
  BY <1>0, <1>1, <1>2, <1>4, <1>5, <1>6, <1>7, OthersStay DEF coreVars
<1>9. OneDevice(b, d)'
  <2>1. KeepsEp0(d, channels)
    BY <1>1, BusAssumption DEF KeepsEp0, Ep0Packet
  <2>2. /\ Silent(d) => Silent(d)'
        /\ \A p \in Packet : Alone(d, p) => Alone(d, p)'
    BY <1>0, <1>4, <1>5, <2>1, TransfersKeep DEF coreVars
  <2> QED
    BY <1>2, <1>4, <1>5, <1>7, <2>2, DeviceKept DEF coreVars, Undisturbed, OneHub
<1> QED
  BY <1>1, <1>5, <1>8, <1>9 DEF OneHub, coreVars, NextSlot

-----------------------------------------------------------------------------
(* The callbacks.                                                          *)

\* Where the enumeration of a device goes on one of its answers.
Settled(d) ==
    /\ address'[d] \in {address[d], -1, d[2] + 1} /\ address'[d] # 0
    /\ Silent(d)' \/ Live(d)'
    /\ Holds(d)' \/ (Silent(d)' /\ estate'[d] = "SET_ADDRESS")

LEMMA EnumerateHolder ==
    ASSUME NEW d \in Device, CoreTypeOK, NEW r,
           NEW ctl \in [Device -> Control], ctl[d].state = "NONE",
           NEW chs \in [Chan -> Carried], Clear(d, chs),
           Holds(d), d[2] + 1 # 0, address[d] = 0 => estate[d] = "SET_ADDRESS",
           DeviceEnumerate(d, r, ctl, chs)
    PROVE  Settled(d)
<1> USE DEF CoreTypeOK
<1>a. ASSUME EnumTerminate(d, ctl, chs)
      PROVE  Settled(d)
  <2>1. Silent(d)' /\ address'[d] = -1 /\ estate'[d] = "SET_ADDRESS"
    BY <1>a, EnumTerminated
  <2> QED
    BY <2>1 DEF Settled
<1>b. ASSUME NEW s \in EnumState, NEW request \in Request,
             EnumRequest(d, s, request, ctl, chs),
             address' \in [Device -> Address], address'[d] # 0,
             address'[d] \in {address[d], d[2] + 1}
      PROVE  Settled(d)
  <2>1. PICK p \in Packet : Alone(d, p)' /\ p.callback = "control_state_machine"
    BY <1>b, EnumRequested
  <2>a. control'[d] = [state |-> "SETUP", callback |-> "device_enumerate",
                       request |-> request]
    BY <1>b, EnumRequested
  <2>2. control'[d].state = "SETUP" /\ control'[d].callback = "device_enumerate"
    BY <2>a
  <2>3. Enumerates(d, p)'
    BY <2>1, <2>2 DEF Enumerates
  <2>4. Live(d)'
    BY <2>1, <2>3 DEF Live
  <2>5. Holds(d)'
    BY <1>b DEF EnumRequest, Holds
  <2> QED
    BY <1>b, <2>4, <2>5 DEF Settled
<1>c. ASSUME NEW s \in EnumState, NEW kind \in Kind, EnumRaw(d, s, kind, ctl, chs),
             address[d] # 0
      PROVE  Settled(d)
  <2>1. PICK p \in Packet : Alone(d, p)' /\ p.callback = "device_enumerate"
    BY <1>c, EnumRawAsked
  <2>2. control' = ctl
    BY <1>c, EnumRawAsked
  <2>3. Enumerates(d, p)'
    BY <2>1, <2>2 DEF Enumerates
  <2>4. Live(d)'
    BY <2>1, <2>3 DEF Live
  <2>5. Holds(d)' /\ address' = address
    BY <1>c DEF EnumRaw, Holds
  <2> QED
    BY <1>c, <2>4, <2>5 DEF Settled
<1>d. ASSUME NoIssue(chs), address'[d] \in {address[d], -1}, address[d] # 0,
             Holds(d)' \/ estate'[d] = "SET_ADDRESS"
      PROVE  Settled(d)
  <2>1. Silent(d)'
    BY <1>d, NothingSubmitted
  <2> QED
    BY <1>d, <2>1 DEF Settled
<1>1. CASE SetAddressComplete(d, r, ctl, chs)
  <2>1. CASE r = "OK"
    <3>1. /\ address' = [address EXCEPT ![d] = NewAddress(d)]
          /\ EnumRequest(d, "DEVICE_DT_READ_COMPLETE", "IN", ctl, chs)
      BY <1>1, <2>1 DEF SetAddressComplete
    <3>2. /\ NewAddress(d) \in Address /\ NewAddress(d) # 0
          /\ NewAddress(d) \in {address[d], d[2] + 1}
      BY DEF NewAddress, Holds
    <3> QED
      BY <1>b, <3>1, <3>2 DEF EnumState, Request
  <2>2. CASE r # "OK"
    BY <1>1, <1>a, <2>2 DEF SetAddressComplete
  <2> QED
    BY <2>1, <2>2
<1>2. CASE DeviceDtReadComplete(d, r, ctl, chs)
  <2>1. address[d] # 0
    BY <1>2 DEF DeviceDtReadComplete
  <2>2. CASE EnumRaw(d, "CONFIGURATION_DT_HEADER_READ", "SETUP", ctl, chs)
    BY <1>c, <2>1, <2>2 DEF EnumState, Kind
  <2>3. CASE UNCHANGED address /\ EnumRequest(d, "DEVICE_DT_READ_COMPLETE", "IN", ctl, chs)
    BY <1>b, <2>1, <2>3 DEF EnumState, Request
  <2> QED
    BY <1>2, <1>a, <2>2, <2>3 DEF DeviceDtReadComplete
<1>3. CASE ConfigurationSetupSent(d, r, ctl, chs)
  BY <1>3, <1>a, <1>c DEF ConfigurationSetupSent, EnumState, Kind
<1>4. CASE HeaderReadComplete(d, r, ctl, chs)
  <2>1. address[d] # 0
    BY <1>4 DEF HeaderReadComplete
  <2>2. CASE EnumRaw(d, "CONFIGURATION_DT_READ", "SETUP", ctl, chs)
    BY <1>c, <2>1, <2>2 DEF EnumState, Kind
  <2>3. CASE UNCHANGED address
             /\ EnumRequest(d, "SET_CONFIGURATION_COMPLETE", "NODATA", ctl, chs)
    BY <1>b, <2>1, <2>3 DEF EnumState, Request
  <2>4. CASE /\ NoIssue(chs)
             /\ UNCHANGED <<enumeration_run, address_temporary, address, estate, drv>>
    BY <1>d, <2>1, <2>4 DEF Holds
  <2> QED
    BY <1>4, <1>a, <2>2, <2>3, <2>4 DEF HeaderReadComplete
<1>5. CASE ConfigurationReadComplete(d, r, ctl, chs)
  BY <1>5, <1>a, <1>b DEF ConfigurationReadComplete, EnumState, Request
<1>6. CASE SetConfigurationComplete(d, r, ctl, chs)
  <2>1. CASE r = "OK"
    <3>1. /\ NoIssue(chs) /\ address'[d] \in {address[d], -1} /\ address[d] # 0
          /\ estate'[d] = "SET_ADDRESS"
      BY <1>6, <2>1 DEF SetConfigurationComplete, DeviceRegister
    <3> QED
      BY <1>d, <3>1
  <2>2. CASE r # "OK"
    BY <1>6, <1>a, <2>2 DEF SetConfigurationComplete
  <2> QED
    BY <2>1, <2>2
<1> QED
  BY <1>1, <1>2, <1>3, <1>4, <1>5, <1>6 DEF DeviceEnumerate

\* A device that was removed gets no address from what is left of its enumeration.
LEMMA EnumerateAbsent ==
    ASSUME CoreTypeOK, NEW d \in Device, NEW r, NEW ctl, NEW chs,
           DeviceEnumerate(d, r, ctl, chs), address[d] = -1
    PROVE  address'[d] = -1
<1> USE DEF CoreTypeOK
<1>1. CASE EnumTerminate(d, ctl, chs)
  BY <1>1 DEF EnumTerminate
<1>2. CASE address' = address
  BY <1>2
<1>3. CASE SetAddressComplete(d, r, ctl, chs)
  BY <1>1, <1>3 DEF SetAddressComplete, NewAddress
<1>4. CASE SetConfigurationComplete(d, r, ctl, chs)
  BY <1>1, <1>4 DEF SetConfigurationComplete, DeviceRegister
<1> QED
  BY <1>1, <1>2, <1>3, <1>4
     DEF DeviceEnumerate, DeviceDtReadComplete, ConfigurationSetupSent, EnumRaw,
         HeaderReadComplete, ConfigurationReadComplete

\* An answer that goes to an enumeration goes to the one under way.
LEMMA EndsEngaged ==
    ASSUME NEW b, Buses = {b}, HInv, dpstate[b] = "RUN",
           NEW d \in Device, OneDevice(b, d), NEW p \in Packet, Ep0Packet(p, d),
           \A q \in Packet : Alone(d, q) => q = p, ~Silent(d)
    PROVE  /\ d # Root(b) => Alone(d, p) /\ Enumerates(d, p)
           /\ d = Root(b) => Alone(d, p) /\ (PipePacket(d, p) \/ RawPacket(d, p))
           /\ p.callback = "control_state_machine" => control[d].state # "NONE"
           /\ p.callback = "device_enumerate" => control[d].state = "NONE"
           /\ Enumerates(d, p) => Engaged(d)
<1>1. CASE d # Root(b)
  <2>1. Live(d)
    BY <1>1 DEF OneDevice
  <2>2. Alone(d, p) /\ Enumerates(d, p)
    BY <2>1 DEF Live
  <2> QED
    BY <1>1, <2>1, <2>2 DEF Enumerates, Engaged
<1>2. CASE d = Root(b)
  <2>1. Up(d)
    BY <1>2, RootUp, OneBus
  <2>2. Alone(d, p) /\ (PipePacket(d, p) \/ RawPacket(d, p))
    BY <2>1 DEF Up
  <2>3. Enumerates(d, p) => Engaged(d)
    BY <2>2 DEF Live, Engaged
  <2> QED
    BY <1>2, <2>2, <2>3 DEF PipePacket, RawPacket
<1> QED
  BY <1>1, <1>2

\* A callback of the core while the port is up.
LEMMA CoreCallbackStays ==
    ASSUME NEW b, Buses = {b}, HInv, HInv', OneHub(b), dpstate[b] = "RUN",
           NEW p \in Packet, NEW r \in Status, NEW chs \in [Chan -> Carried],
           Reported(p, r, chs), Answers(p.dev, p, chs), HubCoreCallback(p, r, chs)
    PROVE  OneHub(b)'
<1>d. PICK d \in Device : d = p.dev
  BY DEF Packet
<1>0. /\ CoreTypeOK /\ b \in Buses /\ hub \in [Buses -> HubState] /\ hub[b] \in HubState
      /\ control \in [Device -> Control]
      /\ d[2] + 1 # 0 /\ OneDevice(b, d)
      /\ d[2] = 0 <=> d = Root(b)
  BY OneBus, DriversPorts DEF HInv, DriversInv, CoreTypeOK, OneHub
<1>1. CoreCallback(p, r, chs) /\ PacketCallback(p, r, chs) /\ dpstate' = dpstate
  BY DEF HubCoreCallback, PacketCallback, Reported
<1>2. /\ CoreTypeOK' /\ OthersKept(d) /\ Submits(d, chs)
      /\ address_temporary' = address_temporary
  BY <1>0, <1>1, <1>d, CallbackTyped
<1>3. /\ TakenFrom(d, chs) /\ (refused = NoPacket \/ Of(refused, d))
      /\ Ep0Packet(p, d)
  BY <1>1, <1>d DEF Reported, CoreCallback, Ep0Packet
<1>4. /\ \A q \in Packet : Alone(d, q) => q = p
      /\ ~Silent(d) /\ Clear(d, chs)
  BY <1>3, <1>d DEF Answers
<1>5. /\ d # Root(b) => Alone(d, p) /\ Enumerates(d, p)
      /\ d = Root(b) => Alone(d, p) /\ (PipePacket(d, p) \/ RawPacket(d, p))
      /\ p.callback = "control_state_machine" => control[d].state # "NONE"
      /\ p.callback = "device_enumerate" => control[d].state = "NONE"
      /\ Enumerates(d, p) => Engaged(d)
  BY <1>0, <1>3, <1>4, EndsEngaged
<1>6. CASE ControlAdvance(d, r, chs) /\ p.callback = "control_state_machine"
  <2>1. UNCHANGED <<enumeration_run, address_temporary, address, estate, drv>>
    BY <1>6 DEF ControlAdvance
  <2>2. \A e \in Device : Engaged(e) => Holds(e)'
    BY <2>1 DEF OneHub, OneDevice, Holds
  <2>3. \A e \in Device \ {d} : OneDevice(b, e)'
    BY <1>0, <1>1, <1>2, <1>3, <2>1, <2>2, OthersStay DEF OthersKept
  <2>4. OneDevice(b, d)'
    <3>1. CASE d = Root(b)
      BY <1>0, <1>1, <2>1, <2>2, <3>1, DeviceKept
    <3>2. CASE d # Root(b)
      <4>0. StageKind(d) \in Kind
        BY <1>0 DEF StageKind, NextStage, Kind, Control, Request
      <4>1. PICK q \in Packet : q = NewPacket(d, StageKind(d), "control_state_machine")
        BY <1>2, <4>0, NewPacketTyped DEF CoreTypeOK, Callback
      <4>2. Ep0Packet(q, d) /\ q.callback = "control_state_machine" /\ Issue(q, chs)
        BY <1>6, <4>1 DEF Ep0Packet, NewPacket, ControlAdvance
      <4>3. Alone(d, q)'
        BY <1>4, <4>2, PacketSubmitted
      <4>4. control[d].callback = "device_enumerate"
        BY <1>5, <1>6, <3>2 DEF Enumerates
      <4>5. control'[d].state # "NONE" /\ control'[d].callback = control[d].callback
        BY <1>0, <1>6 DEF ControlAdvance, NextStage, Control
      <4>6. Enumerates(d, q)'
        BY <4>2, <4>4, <4>5 DEF Enumerates
      <4>7. Live(d)' /\ Holds(d)'
        BY <1>5, <2>2, <3>2, <4>3, <4>6 DEF Live, Engaged
      <4> QED
        BY <1>0, <1>1, <2>1, <4>7 DEF OneDevice
    <3> QED
      BY <3>1, <3>2
  <2>5. hub'[b] = hub[b]
    BY <1>0, <2>1 DEF HubCoreCallback
  <2> QED
    BY <2>1, <2>3, <2>4, <2>5 DEF OneHub, NextSlot
<1>7. ASSUME NEW ctl \in [Device -> Control], ctl[d].state = "NONE", NEW result,
             DeviceEnumerate(d, result, ctl, chs), Engaged(d)
      PROVE  OneHub(b)'
  <2>1. Holds(d)
    BY <1>7 DEF OneHub, OneDevice
  <2>2. Settled(d)
    BY <1>0, <1>4, <1>7, <2>1, EnumerateHolder DEF OneDevice
  <2>3. ASSUME NEW e \in Device \ {d}
        PROVE  ~Engaged(e)
    BY <2>1, <2>3, OneHolder DEF OneHub, OneDevice
  <2>4. \A e \in Device \ {d} : OneDevice(b, e)'
    BY <1>0, <1>1, <1>2, <1>3, <2>3, OthersStay DEF OthersKept
  <2>5. Engaged(d)' => Holds(d)'
    <3>1. CASE d = Root(b)
      <4>1. Up(d)'
        BY <1>1, <3>1, RootUpNext, OneBus
      <4>2. Engaged(d)' => Enumerating(d)'
        BY <3>1, <4>1, RootEngagedNext
      <4> QED
        BY <2>2, <4>2 DEF Settled, Enumerating
    <3>2. CASE d # Root(b)
      <4>1. Silent(d)' => ~Live(d)'
        BY LiveIsLoudNext
      <4>2. Silent(d)' => ~Engaged(d)'
        BY <1>0, <2>2, <3>2, <4>1 DEF Settled, Engaged
      <4> QED
        BY <2>2, <4>2 DEF Settled
    <3> QED
      BY <3>1, <3>2
  <2>6. OneDevice(b, d)'
    BY <1>0, <1>1, <2>2, <2>5 DEF Settled, OneDevice
  <2>7. hub[b].state \notin Looking
    BY <2>1 DEF OneHub, Holds
  <2>8. hub'[b].state \notin Looking
    <3>1. CASE hub'[b] = hub[b]
      BY <2>7, <3>1
    <3>2. CASE hub'[b] = HubBound(hub[b])
      BY <1>0, <3>2 DEF HubBound, HubState, Looking
    <3> QED
      BY <1>0, <3>1, <3>2 DEF HubCoreCallback
  <2>9. hub'[b].state # "SLEEP_500_MS"
    BY <2>8 DEF Looking
  <2> QED
    BY <2>4, <2>6, <2>8, <2>9 DEF OneHub
<1>8. CASE /\ p.callback = "control_state_machine"
           /\ control[d].callback = "device_enumerate"
           /\ DeviceEnumerate(d, ControlResult(d, r), PipeIdle(d), chs)
  <2>1. PipeIdle(d) \in [Device -> Control] /\ PipeIdle(d)[d].state = "NONE"
    BY <1>0, PipeIdleTyped DEF IdleControl
  <2>2. Engaged(d)
    BY <1>5, <1>8 DEF Enumerates
  <2> QED
    BY <1>7, <1>8, <2>1, <2>2
<1>9. CASE p.callback = "device_enumerate" /\ DeviceEnumerate(d, r, control, chs)
  <2>1. control[d].state = "NONE" /\ Engaged(d)
    BY <1>5, <1>9 DEF Enumerates
  <2> QED
    BY <1>0, <1>7, <1>9, <2>1
<1> QED
  BY <1>1, <1>5, <1>6, <1>8, <1>9, <1>d DEF CoreCallback, ControlIgnored

\* The end of a transfer that no hub driver hears of.
LEMMA LeafEventStays ==
    ASSUME NEW b, Buses = {b}, HInv, HInv', OneHub(b), dpstate[b] = "RUN",
           NEW p \in Packet, NEW r \in Status, NEW chs \in [Chan -> Carried],
           Reported(p, r, chs), Answers(p.dev, p, chs), LeafEvent(p, chs)
    PROVE  OneHub(b)'
<1>d. PICK d \in Device : d = p.dev
  BY DEF Packet
<1>1. NoIssue(chs) /\ UNCHANGED <<coreVars, hub, dpstate>> /\ ~Ep0Packet(p, d)
  BY DEF LeafEvent, Reported, Ep0Packet
<1>2. TakenFrom(d, chs) /\ (refused = NoPacket \/ Of(refused, d)) /\ KeepsEp0(d, chs)
  BY <1>1, <1>d DEF Reported, Answers
<1>3. Submits(d, chs) /\ Undisturbed(d)
  BY <1>1, <1>2, NothingSubmittedKeeps DEF Submits, Undisturbed, coreVars
<1>4. \A e \in Device : OneDevice(b, e) /\ (Engaged(e) => Holds(e)')
  BY <1>1 DEF OneHub, OneDevice, Holds, coreVars
<1>5. \A e \in Device \ {d} : OneDevice(b, e)'
  BY <1>1, <1>2, <1>3, <1>4, OthersStay DEF coreVars
<1>6. OneDevice(b, d)'
  BY <1>1, <1>3, <1>4, DeviceKept DEF coreVars
<1> QED
  BY <1>1, <1>5, <1>6 DEF OneHub, NextSlot, coreVars

\* The driver of the hub is called back.
LEMMA HubEventStays ==
    ASSUME NEW b, Buses = {b}, HInv, HInv', OneHub(b), dpstate[b] = "RUN",
           drv[Root(b)] # "NULL", NEW p \in Packet, p.dev = Root(b),
           NEW r \in Status, NEW chs \in [Chan -> Carried], Reported(p, r, chs),
           NEW h, Found(b, h), h.state = hub[b].state, NextSlot(h) = NextSlot(hub[b]),
           NEW result, NEW ctl \in [Device -> Control],
           \A e \in Device \ {Root(b)} : ctl[e] = control[e],
           HubEvent(b, h, result, ctl, chs)
    PROVE  OneHub(b)'
<1>d. PICK d \in Device : d = Root(b)
  BY OneBus
<1>0. /\ CoreTypeOK /\ b \in Buses /\ hub \in [Buses -> HubState] /\ DriversInv
      /\ TakenFrom(d, chs) /\ (refused = NoPacket \/ Of(refused, d)) /\ dpstate' = dpstate
      /\ CoreTypeOK'
  BY <1>d, OneBus, DriversPorts
     DEF HInv, DriversInv, TypeOK, CoreTypeOK, Reported
<1>1. hub[b].state = "PORT_RESET_COMPLETE" => address[d] >= 0
  <2>1. Unheard(b)
    BY <1>0, DriverUp
  <2> QED
    BY <1>0, <1>d, <2>1 DEF Unheard, CoreTypeOK, Address
<1>2. EventDone(b, ctl, chs)
  BY <1>0, <1>1, <1>d, EventCompletes
<1>3. /\ UNCHANGED <<enumeration_run, address_temporary, estate>>
      /\ address'[d] = address[d]
  BY <1>2, <1>d DEF EventDone, BehindHub, coreFrame
<1>4. Submits(d, chs) /\ \A e \in Device \ {d} : control'[e] = control[e]
  <2>1. CASE control' = ctl /\ NoIssue(chs)
    BY <1>d, <2>1 DEF Submits
  <2>2. CASE \E request \in Request : DeviceControl(d, "event", request, ctl, chs)
    <3>1. PICK request \in Request : DeviceControl(d, "event", request, ctl, chs)
      BY <2>2
    <3> QED
      BY <1>0, <1>d, <3>1, DeviceControlTyped DEF CoreTypeOK
  <2> QED
    BY <1>2, <1>d, <2>1, <2>2 DEF EventDone, HubSends
<1>5. /\ EventMoves(b, h)
      /\ \A e \in Device : address'[e] \in {address[e], -1, e[2] + 1}
  BY <1>0, EventMoved DEF CoreTypeOK
<1>6. \A e \in Device : OneDevice(b, e) /\ (Engaged(e) => Holds(e)')
  BY <1>3 DEF OneHub, OneDevice, Holds
<1>7. \A e \in Device \ {d} : OneDevice(b, e)'
  BY <1>0, <1>3, <1>4, <1>5, <1>6, <1>d, OthersStay
<1>8. OneDevice(b, d)'
  BY <1>0, <1>3, <1>5, <1>6, <1>d, DeviceKept
<1>9. hub'[b].state \in Looking => ~enumeration_run'
  BY <1>3, <1>5 DEF EventMoves, OneHub, Looking
<1>10. hub'[b].state = "SLEEP_500_MS" =>
          address'[<<b, NextSlot(hub'[b])>>] = NextSlot(hub'[b]) + 1
  BY <1>5 DEF EventMoves, OneHub, Looking
<1> QED
  BY <1>7, <1>8, <1>9, <1>10 DEF OneHub, NextSlot

\* What is left of an enumeration changes nothing while the port is down.
LEMMA AbsentStays ==
    ASSUME NEW b, Buses = {b}, HInv, HInv', OneHub(b), dpstate[b] = "DISCONN",
           NEW p \in Packet, NEW r \in Status, NEW chs \in [Chan -> Carried],
           Reported(p, r, chs), HubPacketCallback(p, r, chs)
    PROVE  OneHub(b)'
<1>0. /\ CoreTypeOK /\ b \in Buses /\ drv[Root(b)] = "NULL" /\ dpstate'[b] = "DISCONN"
      /\ p.dev \in Device /\ p.dev[1] = b
      /\ \A d \in Device : address[d] = -1
  BY OneBus, RootUp, DriversPorts
     DEF HInv, Reported, OneHub, OneDevice, Packet
<1>1. \A d \in Device : address'[d] = -1
  <2>1. CASE LeafEvent(p, chs)
    BY <1>0, <2>1 DEF LeafEvent, coreVars
  <2>2. CASE HubCoreCallback(p, r, chs)
    <3>1. CoreCallback(p, r, chs) /\ PacketCallback(p, r, chs)
      BY <2>2 DEF HubCoreCallback, PacketCallback
    <3>2. OthersKept(p.dev)
      BY <1>0, <3>1, CallbackTyped
    <3>3. address'[p.dev] = -1
      BY <1>0, <3>1, EnumerateAbsent
         DEF CoreCallback, ControlAdvance, ControlIgnored, coreVars
    <3> QED
      BY <1>0, <3>2, <3>3 DEF OthersKept
  <2> QED
    BY <1>0, <2>1, <2>2 DEF HubPacketCallback
<1>2. hub'[b].state \notin Looking
  BY <1>0, RootUpNext
<1>3. hub'[b].state # "SLEEP_500_MS"
  BY <1>2 DEF Looking
<1> QED
  BY <1>0, <1>1, <1>2, <1>3 DEF OneHub, OneDevice

LEMMA HubCallbackStays ==
    ASSUME NEW b, Buses = {b}, HInv, HInv', OneHub(b),
           NEW p \in Packet, NEW r \in Status, NEW chs \in [Chan -> Carried],
           Reported(p, r, chs), dpstate[b] # "DISCONN" => Answers(p.dev, p, chs),
           HubPacketCallback(p, r, chs)
    PROVE  OneHub(b)'
<1>0. p.dev \in Device /\ p.dev[1] = b /\ b \in Buses /\ DriversInv /\ BusTypeOK
  BY OneBus, DriversPorts DEF Packet, HInv
<1>1. CASE dpstate[b] = "DISCONN"
  BY <1>1, AbsentStays
<1>2. CASE dpstate[b] = "DEVRST"
  <2>1. Silent(p.dev) /\ NoEvents(p.dev)
    BY <1>0, <1>2 DEF OneHub, OneDevice
  <2> QED
    BY <1>2, <2>1 DEF Answers
<1>3. CASE dpstate[b] = "RUN"
  <2>1. CASE HubCoreCallback(p, r, chs)
    BY <1>3, <2>1, CoreCallbackStays
  <2>2. CASE LeafEvent(p, chs)
    BY <1>3, <2>2, LeafEventStays
  <2>3. CASE /\ p.dev = Root(b) /\ drv[p.dev] # "NULL"
             /\ DriverRequestEnds(p, r)
             /\ HubEvent(b, Latched(p, r), ControlResult(p.dev, r), PipeIdle(p.dev), chs)
    <3>1. PICK h : h = Latched(p, r)
      OBVIOUS
    <3>2. Found(b, h) /\ h.state = hub[b].state
      BY <1>0, <2>3, <3>1, LatchedFound DEF HInv
    <3>3. NextSlot(h) = NextSlot(hub[b])
      <4>1. hub[b] \in HubState
        BY <1>0 DEF DriversInv
      <4>2. ASSUME NEW status
            PROVE  NextSlot([hub[b] EXCEPT !.status = status]) = NextSlot(hub[b])
        <5> DEFINE g == [hub[b] EXCEPT !.status = status]
        <5>1. g.device = hub[b].device /\ g.current_port = hub[b].current_port
          BY <4>1 DEF HubState
        <5> HIDE DEF g
        <5>2. NextSlot(g) = NextSlot(hub[b])
          BY <5>1 DEF NextSlot
        <5> QED
          BY <5>2 DEF g
      <4> QED
        BY <1>0, <3>1, <4>2 DEF Latched
    <3>4. /\ PipeIdle(p.dev) \in [Device -> Control]
          /\ \A e \in Device \ {Root(b)} : PipeIdle(p.dev)[e] = control[e]
      BY <1>0, <2>3, DriversPorts, PipeIdleTyped DEF CoreTypeOK
    <3> QED
      BY <1>3, <2>3, <3>1, <3>2, <3>3, <3>4, HubEventStays
  <2>4. CASE /\ p.dev = Root(b) /\ drv[p.dev] # "NULL"
             /\ HubEvent(b, hub[b], r, control, chs)
    <3>1. Found(b, hub[b])
      BY <1>0, <2>4, LatchedFound DEF HInv
    <3>2. PICK h : h = hub[b]
      OBVIOUS
    <3>3. control \in [Device -> Control]
      BY <1>0, DriversPorts DEF CoreTypeOK
    <3> QED
      BY <1>3, <2>4, <3>1, <3>2, <3>3, HubEventStays
  <2> QED
    BY <1>0, <2>1, <2>2, <2>3, <2>4 DEF HubPacketCallback
<1> QED
  BY <1>0, <1>1, <1>2, <1>3 DEF BusTypeOK, PollState

LEMMA HubCompletionStays ==
    ASSUME NEW b, Buses = {b}, HInv, HInv', OneHub(b), NEW c \in Chan, HubCompletion(c)
    PROVE  OneHub(b)'
<1>1. PICK r \in Responses(channels[c]), left \in {NoPacket, Halting} :
         HubPacketCallback(channels[c], r, Released(c, left))
  BY DEF HubCompletion
<1>2. Answerable(c) /\ dpstate' = dpstate /\ TypeOK /\ DriversInv
  BY DEF HubCompletion, HInv, DriversInv
<1>3. /\ channels[c] \in Packet /\ r \in Status
      /\ Released(c, left) \in [Chan -> Carried]
      /\ Reported(channels[c], r, Released(c, left))
  BY <1>2, HubCompletionReports
<1>4. dpstate[b] # "DISCONN" => Answers(channels[c].dev, channels[c], Released(c, left))
  <2>1. PICK d \in Device : d = channels[c].dev
    BY <1>3 DEF Packet
  <2>2. ASSUME dpstate[b] # "DISCONN"
        PROVE  Silent(d) \/ \E q \in Packet : Alone(d, q)
    <3>1. OneDevice(b, d) /\ dpstate[b] \in {"DEVRST", "RUN"}
      BY <1>2, <2>2 DEF OneHub, TypeOK, BusTypeOK, PollState
    <3>2. CASE d = Root(b)
      BY <1>2, <3>2, DriversPorts, SilentOrAlone
    <3>3. CASE d # Root(b)
      BY <3>1, <3>3 DEF OneDevice, Live
    <3> QED
      BY <3>2, <3>3
  <2> QED
    BY <1>2, <2>1, <2>2, DeviceAnswers
<1> QED
  BY <1>1, <1>3, <1>4, HubCallbackStays

LEMMA HubRefusalStays ==
    ASSUME NEW b, Buses = {b}, HInv, HInv', OneHub(b), HubRefusal
    PROVE  OneHub(b)'
<1>1. /\ refused # NoPacket /\ dpstate' = dpstate
      /\ HubPacketCallback(refused, "EFATAL", channels)
      /\ TypeOK /\ DriversInv
  BY DEF HubRefusal, HInv, DriversInv
<1>2. /\ refused \in Packet /\ "EFATAL" \in Status /\ channels \in [Chan -> Carried]
      /\ Reported(refused, "EFATAL", channels)
  BY <1>1, HubRefusalReports
<1>3. PICK p \in Packet : p = refused
  BY <1>2
<1>4. dpstate[b] # "DISCONN" => Answers(p.dev, p, channels)
  <2>1. PICK d \in Device : d = p.dev
    BY DEF Packet
  <2>2. ASSUME dpstate[b] # "DISCONN"
        PROVE  Silent(d) \/ \E q \in Packet : Alone(d, q)
    <3>1. OneDevice(b, d) /\ dpstate[b] \in {"DEVRST", "RUN"}
      BY <1>1, <2>2 DEF OneHub, TypeOK, BusTypeOK, PollState
    <3>2. CASE d = Root(b)
      BY <1>1, <3>2, DriversPorts, SilentOrAlone
    <3>3. CASE d # Root(b)
      BY <3>1, <3>3 DEF OneDevice, Live
    <3> QED
      BY <3>2, <3>3
  <2> QED
    BY <1>2, <1>3, <2>1, <2>2, DeviceRefusalAnswers
<1> QED
  BY <1>1, <1>2, <1>3, <1>4, HubCallbackStays

-----------------------------------------------------------------------------
(* The invariant.                                                          *)

LEMMA OneHubInit == ASSUME NEW b, Buses = {b}, HubInit PROVE OneHub(b)
<1>1. b \in Buses
  BY OneBus
<1>2. dpstate[b] = "DISCONN" /\ address = [d \in Device |-> -1] /\ hub[b].state = "NONE"
  BY <1>1 DEF HubInit, Init, BusInit
<1> QED
  BY <1>2 DEF OneHub, OneDevice, Looking

LEMMA OneHubStep ==
    ASSUME NEW b, Buses = {b}, HInv, HInv', OneHub(b), [HubNext]_hvars
    PROVE  OneHub(b)'
<1>0. TypeOK
  BY DEF HInv, DriversInv
<1>1. CASE Reset(b) /\ UNCHANGED hubVars
  BY <1>1, ResetStays DEF hubVars
<1>2. CASE Connected(b) /\ UNCHANGED hubVars
  BY <1>2, ConnectedStays DEF hubVars
<1>3. ASSUME NEW q \in PortNum,
             \/ \E s \in Speeds : Plug(b, q, s)
             \/ Unplug(b, q) \/ PortResetDone(b, q) \/ PortFault(b, q)
      PROVE  OneHub(b)'
  <2>1. UNCHANGED <<busVars, coreVars, hub>>
    BY <1>3 DEF Plug, Unplug, PortResetDone, PortFault
  <2> QED
    BY <2>1, QuietStays DEF busVars
<1>4. ASSUME NEW c \in Chan, Halted(c) /\ UNCHANGED hubVars
      PROVE  OneHub(b)'
  <2>1. /\ UNCHANGED <<dpstate, refused, coreVars>> /\ hub' = hub
        /\ \A e \in Chan : \/ channels'[e] = channels[e]
                           \/ channels[e] = Halting /\ channels'[e] = NoPacket
    BY <1>0, <1>4 DEF Halted, ChannelHalted, TypeOK, BusTypeOK, hubVars
  <2> QED
    BY <2>1, QuietStays
<1>5. CASE UNCHANGED hvars
  BY <1>5, QuietStays DEF hvars, hubVars, vars, busVars
<1>6. ASSUME \/ Reset(b) /\ UNCHANGED hubVars
             \/ Connected(b) /\ UNCHANGED hubVars
             \/ HubDisconnected(b)
             \/ PollStatusChange(b)
             \/ PollInitial(b)
             \/ PollStartEnumeration(b)
             \/ \E q \in PortNum :
                   \/ \E s \in Speeds : Plug(b, q, s)
                   \/ Unplug(b, q)
                   \/ PortResetDone(b, q)
                   \/ PortFault(b, q)
                   \/ LeafTransfer(b, q)
      PROVE  OneHub(b)'
  BY <1>1, <1>2, <1>3, <1>6, DisconnectedStays, PollStatusStays, PollInitialStays,
     PollStartStays, LeafTransferStays
<1>7. ASSUME NEW c \in Chan, HubCompletion(c)
      PROVE  OneHub(b)'
  BY <1>7, HubCompletionStays
<1>8. CASE HubRefusal
  BY <1>8, HubRefusalStays
<1> QED
  BY <1>4, <1>5, <1>6, <1>7, <1>8 DEF HubNext

\* The invariant holds in every reachable state.
THEOREM OneHubInvariance ==
    ASSUME NEW b, Buses = {b}
    PROVE  HubSpec => [](HInv /\ OneHub(b))
<1>1. HubInit => OneHub(b)
  BY OneHubInit
<1>2. HInv /\ HInv' /\ OneHub(b) /\ [HubNext]_hvars => OneHub(b)'
  BY OneHubStep
<1> QED
  BY <1>1, <1>2, HubInvariance, PTL DEF HubSpec

-----------------------------------------------------------------------------
(* What the invariant means.                                               *)

\* With one bus, the poll of the hub driver starts an enumeration without asking
\* for the lock, and finds it free: whoever could take it is kept from it from the
\* test of the lock to the end of the pause.
THEOREM LockFreeAtStart ==
    ASSUME NEW b, Buses = {b}
    PROVE  HubSpec => []StartFindsLockFree
<1>1. ASSUME HInv, OneHub(b)
      PROVE  StartFindsLockFree
  <2>1. HubWork(hub[b])
    BY <1>1, OneBus DEF HInv, DriversInv, DriverInv
  <2> QED
    BY <1>1, <2>1 DEF StartFindsLockFree, HubWork, OneHub, Looking
<1> QED
  BY <1>1, OneHubInvariance, PTL

\* With one bus, one device at most answers to the default address, be it the hub or
\* behind it, and it has the lock.
THEOREM DefaultAddressExclusive ==
    ASSUME NEW b, Buses = {b}
    PROVE  HubSpec => []DefaultAddressLocked
<1>1. ASSUME HInv, OneHub(b)
      PROVE  DefaultAddressLocked
  <2>1. ASSUME dpstate[b] = "RUN", NEW d \in Device, address[d] = 0
        PROVE  Holds(d)
    BY <1>1, <2>1 DEF OneHub, OneDevice, Engaged
  <2> QED
    BY <2>1, OneHolder DEF DefaultAddressLocked, Holds
<1> QED
  BY <1>1, OneHubInvariance, PTL

\* With one bus, address_temporary goes to the device it was meant for: no two
\* devices share an address.
THEOREM AddressesAreOwn ==
    ASSUME NEW b, Buses = {b}
    PROVE  HubSpec => []AddressIsOwnSlot
<1>1. ASSUME HInv, OneHub(b)
      PROVE  AddressIsOwnSlot
  BY <1>1 DEF AddressIsOwnSlot, OneHub, OneDevice
<1> QED
  BY <1>1, OneHubInvariance, PTL

\* With one bus, the hub itself holds the lock as long as it is being enumerated,
\* although devices behind it share the lock.
THEOREM HubHoldsLock ==
    ASSUME NEW b, Buses = {b}
    PROVE  HubSpec => []LockHeld
<1>1. ASSUME HInv, OneHub(b)
      PROVE  LockHeld
  <2>1. ASSUME dpstate[b] = "RUN", Enumerating(Root(b))
        PROVE  enumeration_run
    BY <1>1, <2>1, OneBus, RootUp, RootEngaged DEF OneHub, OneDevice, Holds
  <2> QED
    BY <2>1 DEF LockHeld
<1> QED
  BY <1>1, OneHubInvariance, PTL
=============================================================================
