------------------------------- MODULE UsbhHub --------------------------------
(***************************************************************************)
(* usbh_driver_hub.c on top of usbh_core.c: the device in every root port  *)
(* is a hub, other devices are plugged into its ports.  The hub itself     *)
(* (port power, reset, status changes) is the environment, modelled from   *)
(* what the driver asks of it.                                             *)
(***************************************************************************)
EXTENDS UsbhCore

CONSTANTS
    ports_num,   \* ports of each hub
    Speeds,      \* speeds of the devices that are plugged in
    Faults       \* changes of a port that the driver does not handle

PortNum == 1 .. ports_num
Unused == -1          \* hub->device[port] == 0; also CURRENT_PORT_NONE

ASSUME HubAssumption ==
    /\ ports_num \in Nat \ {0}
    /\ Speeds \subseteq {"full", "low"}
    /\ Faults \subseteq {"C_PORT_ENABLE", "C_PORT_OVERCURRENT"}

VARIABLES
    hub,   \* hub_device[]: the driver data of the hub in each root port
    port   \* the ports of these hubs

hubVars == <<hub, port>>
hvars == <<vars, hubVars>>

EventState ==
    {"NONE", "INITIAL", "POLL_REQ", "POLL", "READ_HUB_DESCRIPTOR_COMPLETE",
     "ENABLE_PORTS", "GET_PORT_STATUS", "PORT_RESET_REQ",
     "PORT_RESET_COMPLETE", "SLEEP_500_MS", "GET_STATUS_COMPLETE"}

\* The setup data of the request under way, from bRequest and wValue.
HubRequest ==
    {"GET_DESCRIPTOR", "GET_STATUS", "SET_PORT_POWER", "SET_PORT_RESET",
     "CLEAR_C_PORT_CONNECTION", "CLEAR_C_PORT_RESET", "CLEAR_PORT_ENABLE"}

PortChange == {"C_PORT_CONNECTION", "C_PORT_RESET"} \cup Faults
PortStage == {"off", "on", "resetting", "enabled"}
PortState == [speed : Speeds \cup {"none"}, stage : PortStage,
              stc : SUBSET PortChange]

\* status is hub_and_port_status of the current port: stc, and what sts says
\* of PORT_ENABLE and PORT_LOWSPEED.
HubState ==
    [state : EventState, index : 0 .. ports_num, busy : BOOLEAN,
     current_port : {Unused, 0} \cup PortNum, device : [PortNum -> Slot \cup {Unused}],
     request : HubRequest, wIndex : 0 .. ports_num, status : PortState]

HubTypeOK ==
    /\ TypeOK
    /\ hub \in [Buses -> HubState]
    /\ port \in [Buses -> [PortNum -> PortState]]

NothingPlugged == [speed |-> "none", stage |-> "off", stc |-> {}]
NoDevices == [p \in PortNum |-> Unused]

HubInit ==
    /\ Init
    /\ hub = [b \in Buses |->
                [state |-> "NONE", index |-> 0, busy |-> FALSE,
                 current_port |-> Unused, device |-> NoDevices,
                 request |-> "GET_STATUS", wIndex |-> 0,
                 status |-> NothingPlugged]]
    /\ port = [b \in Buses |-> [p \in PortNum |-> NothingPlugged]]

-----------------------------------------------------------------------------
(* Requests and state changes of the driver.  h is the driver data at the  *)
(* point of the call.                                                      *)

coreFrame == <<enumeration_run, address_temporary, estate>>

\* The driver data becomes h, and nothing is sent.
Rest(b, h, ctl, chs) ==
    /\ hub' = [hub EXCEPT ![b] = h]
    /\ control' = ctl
    /\ NoIssue(chs)

\* device_control(dev, event, ...) with the state set before.
Ask(b, h, state, request, wIndex, ctl, chs) ==
    /\ hub' = [hub EXCEPT ![b] = [h EXCEPT !.state = state,
                                           !.request = request,
                                           !.wIndex = wIndex]]
    /\ DeviceControl(Root(b), "event",
                     IF request \in {"GET_DESCRIPTOR", "GET_STATUS"}
                     THEN "IN" ELSE "NODATA",
                     ctl, chs)

\* Back to waiting for a status change; the status and the request of the last
\* one are not read again.
Idle(h) == [h EXCEPT !.state = "POLL_REQ", !.status = NothingPlugged,
                     !.request = "GET_STATUS", !.wIndex = 0]

\* Mutant: one port too many.
EnablePortsOneMore(b, h, ctl, chs) ==
    /\ UNCHANGED <<coreFrame, address, drv>>
    /\ IF h.index <= ports_num
       THEN Ask(b, [h EXCEPT !.index = @ + 1], "ENABLE_PORTS",
                "SET_PORT_POWER", h.index, ctl, chs)
       ELSE Ask(b, [h EXCEPT !.index = 0], "GET_PORT_STATUS",
                "GET_STATUS", 0, ctl, chs)

\* EVENT_STATE_ENABLE_PORTS, and EVENT_STATE_INITIAL of poll when the number
\* of ports is already known: power the ports one by one, then ask for the
\* status of the hub.
EnablePorts(b, h, ctl, chs) ==
    /\ UNCHANGED <<coreFrame, address, drv>>
    /\ IF h.index < ports_num
       THEN Ask(b, [h EXCEPT !.index = @ + 1], "ENABLE_PORTS",
                "SET_PORT_POWER", h.index + 1, ctl, chs)
       ELSE Ask(b, [h EXCEPT !.index = 0], "GET_PORT_STATUS",
                "GET_STATUS", 0, ctl, chs)

\* EVENT_STATE_READ_HUB_DESCRIPTOR_COMPLETE: read whole; longer than asked
\* for, so asked for again; or of no use, and then nothing is done any more.
HubDescriptorRead(b, h, r, ctl, chs) ==
    /\ h.state = "READ_HUB_DESCRIPTOR_COMPLETE"
    /\ \/ /\ r \in {"OK", "ERRSIZ"}
          /\ EnablePorts(b, [h EXCEPT !.index = 0], ctl, chs)
       \/ /\ r = "OK"
          /\ UNCHANGED <<coreFrame, address, drv>>
          /\ Ask(b, h, h.state, "GET_DESCRIPTOR", 0, ctl, chs)
       \/ UNCHANGED <<coreFrame, address, drv>> /\ Rest(b, h, ctl, chs)

PortsPowered(b, h, r, ctl, chs) ==
    /\ h.state = "ENABLE_PORTS"
    /\ \/ r = "OK" /\ EnablePorts(b, h, ctl, chs)
       \/ /\ r # "OK"
          /\ UNCHANGED <<coreFrame, address, drv>>
          /\ Rest(b, h, ctl, chs)

\* EVENT_STATE_GET_PORT_STATUS ends the initialisation; the driver also goes
\* through it after a port was told to reset or was disabled, and busy is
\* cleared there.
PortStatusRead(b, h, r, ctl, chs) ==
    /\ h.state = "GET_PORT_STATUS"
    /\ UNCHANGED <<coreFrame, address, drv>>
    /\ \/ /\ r = "OK" /\ h.index < ports_num
          /\ Ask(b, [h EXCEPT !.index = @ + 1], h.state, "GET_STATUS",
                 h.index + 1, ctl, chs)
       \/ /\ r = "OK" /\ h.index = ports_num
          /\ Rest(b, [Idle(h) EXCEPT !.busy = FALSE], ctl, chs)
       \/ r # "OK" /\ Rest(b, h, ctl, chs)

\* The port the status change endpoint points at: the lowest one with a
\* change, 0 for the hub itself, or Unused if there is no change at all.
ReportedPort(b, p) ==
    LET changed == {q \in PortNum : port[b][q].stc # {}}
    IN  \/ p = 0
        \/ p = Unused /\ changed = {}
        \/ p \in changed /\ \A q \in changed : p <= q

\* EVENT_STATE_POLL: the status change endpoint answered.  A port that is
\* being worked on keeps the driver from looking at another one.
StatusChange(b, h, r, ctl, chs) ==
    /\ h.state = "POLL"
    /\ UNCHANGED <<coreFrame, address, drv>>
    /\ \/ /\ r = "OK"
          /\ \E p \in {Unused, 0} \cup PortNum :
                /\ ReportedPort(b, p)
                /\ IF p = Unused \/ (h.current_port >= 1 /\ h.current_port # p)
                   THEN Rest(b, Idle(h), ctl, chs)
                   ELSE Ask(b, [h EXCEPT !.current_port = p],
                            "GET_STATUS_COMPLETE", "GET_STATUS", p, ctl, chs)
       \/ r = "EAGAIN" /\ Rest(b, Idle(h), ctl, chs)
       \/ r \notin {"OK", "EAGAIN"} /\ Rest(b, [Idle(h) EXCEPT !.state = "NONE"], ctl, chs)

\* EVENT_STATE_GET_STATUS_COMPLETE: clear the change that was found, unless a
\* device would have to be enumerated now and cannot be.
StatusRead(b, h, r, ctl, chs) ==
    LET p == h.current_port
        stc == h.status.stc
        cannotEnumerate == h.device[p] = Unused /\ (enumeration_run \/ h.busy)
    IN  /\ h.state = "GET_STATUS_COMPLETE"
        /\ UNCHANGED <<coreFrame, address, drv>>
        /\ \/ (r # "OK" \/ p = 0) /\ Rest(b, Idle(h), ctl, chs)
           \/ /\ r = "OK" /\ p # 0 /\ "C_PORT_CONNECTION" \in stc
              /\ IF cannotEnumerate
                 THEN Rest(b, Idle(h), ctl, chs)
                 ELSE Ask(b, h, "PORT_RESET_REQ", "CLEAR_C_PORT_CONNECTION",
                          p, ctl, chs)
           \/ /\ r = "OK" /\ p # 0 /\ "C_PORT_RESET" \in stc
              /\ "C_PORT_CONNECTION" \notin stc
              /\ Ask(b, h, "PORT_RESET_COMPLETE", "CLEAR_C_PORT_RESET", p, ctl, chs)
           \/ /\ r = "OK" /\ p # 0 /\ stc \subseteq Faults
              /\ Rest(b, h, ctl, chs)

\* Mutant: the device that was unplugged is not removed.
ConnectionClearedOnly(b, h, r, ctl, chs) ==
    LET p == h.current_port
    IN  /\ h.state = "PORT_RESET_REQ"
        /\ UNCHANGED <<coreFrame, address, drv>>
        /\ \/ /\ r = "OK" /\ h.device[p] = Unused
              /\ Ask(b, [h EXCEPT !.busy = TRUE], "GET_PORT_STATUS",
                     "SET_PORT_RESET", p, ctl, chs)
           \/ /\ r # "OK" \/ h.device[p] # Unused
              /\ Rest(b, [Idle(h) EXCEPT !.device[p] = Unused, !.busy = FALSE,
                                         !.current_port = Unused], ctl, chs)

\* EVENT_STATE_PORT_RESET_REQ: the connection change is cleared.  A port
\* without a device gets one and is reset; a port with a device loses it.
ConnectionCleared(b, h, r, ctl, chs) ==
    LET p == h.current_port
    IN  /\ h.state = "PORT_RESET_REQ"
        /\ UNCHANGED coreFrame
        /\ \/ /\ r = "OK" /\ h.device[p] = Unused
              /\ UNCHANGED <<address, drv>>
              /\ Ask(b, [h EXCEPT !.busy = TRUE], "GET_PORT_STATUS",
                     "SET_PORT_RESET", p, ctl, chs)
           \/ /\ r = "OK" /\ h.device[p] # Unused
              /\ DeviceRemove({<<b, h.device[p]>>})
              /\ Rest(b, [Idle(h) EXCEPT !.device[p] = Unused, !.busy = FALSE,
                                         !.current_port = Unused], ctl, chs)
           \/ /\ r # "OK"
              /\ UNCHANGED <<address, drv>>
              /\ Rest(b, Idle(h), ctl, chs)

\* usbh_get_free_device takes the lowest slot of the bus whose address is
\* negative.
FreeSlot(b, s) ==
    /\ address[<<b, s>>] < 0
    /\ \A t \in Slot : address[<<b, t>>] < 0 => s <= t

\* Mutant: the current port is given up before the pause.
ResetClearedForgetsPort(b, h, r, ctl, chs) ==
    LET p == h.current_port
    IN  /\ h.state = "PORT_RESET_COMPLETE"
        /\ UNCHANGED <<coreFrame, drv>>
        /\ \/ /\ r = "OK" /\ h.status.stage = "enabled"
              /\ \E s \in Slot :
                    /\ FreeSlot(b, s)
                    /\ address' = [address EXCEPT ![<<b, s>>] = s + 1]
                    /\ Rest(b, [h EXCEPT !.device[p] = s, !.current_port = Unused,
                                         !.state = "SLEEP_500_MS"], ctl, chs)
           \/ /\ r # "OK" \/ h.status.stage # "enabled"
              /\ UNCHANGED address
              /\ Rest(b, Idle(h), ctl, chs)

\* EVENT_STATE_PORT_RESET_COMPLETE: an enabled port gets a device.  A low
\* speed device keeps its slot but the port is disabled at once.
ResetCleared(b, h, r, ctl, chs) ==
    LET p == h.current_port
        enabled == h.status.stage = "enabled"
    IN  /\ h.state = "PORT_RESET_COMPLETE"
        /\ UNCHANGED <<coreFrame, drv>>
        /\ \/ /\ r = "OK" /\ enabled
              /\ \E s \in Slot :
                    /\ FreeSlot(b, s)
                    /\ address' = [address EXCEPT ![<<b, s>>] = s + 1]
                    /\ IF h.status.speed = "low"
                       THEN Ask(b, [h EXCEPT !.device[p] = s, !.current_port = Unused],
                                "GET_PORT_STATUS", "CLEAR_PORT_ENABLE", p, ctl, chs)
                       ELSE Rest(b, [h EXCEPT !.device[p] = s,
                                              !.state = "SLEEP_500_MS"], ctl, chs)
           \/ /\ r = "OK" /\ enabled
              /\ \A s \in Slot : ~FreeSlot(b, s)
              /\ UNCHANGED address
              /\ Rest(b, h, ctl, chs)
           \/ /\ r # "OK" \/ ~enabled
              /\ UNCHANGED address
              /\ Rest(b, Idle(h), ctl, chs)

\* Callbacks in a state that expects none; also of a hub that was removed.
EventIgnored(b, h, ctl, chs) ==
    /\ h.state \in {"NONE", "INITIAL", "POLL_REQ", "SLEEP_500_MS"}
    /\ UNCHANGED <<coreFrame, address, drv>>
    /\ Rest(b, h, ctl, chs)

\* event() of the hub driver.
HubEvent(b, h, r, ctl, chs) ==
    \/ StatusChange(b, h, r, ctl, chs)
    \/ HubDescriptorRead(b, h, r, ctl, chs)
    \/ PortsPowered(b, h, r, ctl, chs)
    \/ PortStatusRead(b, h, r, ctl, chs)
    \/ StatusRead(b, h, r, ctl, chs)
    \/ ConnectionCleared(b, h, r, ctl, chs)
    \/ ResetCleared(b, h, r, ctl, chs)
    \/ EventIgnored(b, h, ctl, chs)

-----------------------------------------------------------------------------
(* The hub.                                                                *)

\* What a request without data does to the ports once the hub has taken it.
Effect(b) ==
    LET p == hub[b].wIndex
        now == port[b][p]
        plugged == now.speed # "none"
        next == CASE hub[b].request = "SET_PORT_POWER" ->
                       IF now.stage # "off" THEN now
                       ELSE [now EXCEPT !.stage = "on",
                             !.stc = IF plugged THEN {"C_PORT_CONNECTION"} ELSE {}]
                  [] hub[b].request = "SET_PORT_RESET" ->
                       IF plugged /\ now.stage # "off"
                       THEN [now EXCEPT !.stage = "resetting"] ELSE now
                  [] hub[b].request = "CLEAR_C_PORT_CONNECTION" ->
                       [now EXCEPT !.stc = @ \ {"C_PORT_CONNECTION"}]
                  [] hub[b].request = "CLEAR_C_PORT_RESET" ->
                       [now EXCEPT !.stc = @ \ {"C_PORT_RESET"}]
                  [] hub[b].request = "CLEAR_PORT_ENABLE" ->
                       IF now.stage = "enabled" THEN [now EXCEPT !.stage = "on"] ELSE now
                  [] OTHER -> now
    IN  port' = [port EXCEPT ![b][p] = next]

\* The hub acts on a request by the time its status stage is answered; when
\* the stage fails the hub may have acted or not.
PortsAfter(p, r) ==
    LET b == p.dev[1]
        acts == p.dev = Root(b) /\ p.kind = "STATUS" /\ hub[b].wIndex # 0
                  /\ control[p.dev].callback = "event"
    IN  \/ acts /\ Effect(b)
        \/ ~(acts /\ r = "OK") /\ UNCHANGED port

\* The driver data after the data stage: hub_and_port_status[port] as it is now.
Latched(p, r) ==
    LET b == p.dev[1]
        h == hub[b]
    IN  IF p.kind = "IN" /\ r = "OK" /\ h.state = "GET_STATUS_COMPLETE" /\ h.wIndex # 0
        THEN [h EXCEPT !.status = port[b][h.wIndex]] ELSE h

Plug(b, p, s) ==
    /\ refused = NoPacket
    /\ port[b][p].speed = "none"
    /\ port' = [port EXCEPT ![b][p] =
                  [@ EXCEPT !.speed = s,
                            !.stc = IF port[b][p].stage = "off" THEN {}
                                    ELSE port[b][p].stc \cup {"C_PORT_CONNECTION"}]]
    /\ UNCHANGED <<busVars, coreVars, hub>>

Unplug(b, p) ==
    /\ refused = NoPacket
    /\ port[b][p].speed # "none"
    /\ port' = [port EXCEPT ![b][p] =
                  [speed |-> "none",
                   stage |-> IF @.stage = "enabled" THEN "on" ELSE @.stage,
                   stc |-> IF @.stage = "off" THEN {}
                           ELSE @.stc \cup {"C_PORT_CONNECTION"}]]
    /\ UNCHANGED <<busVars, coreVars, hub>>

PortResetDone(b, p) ==
    /\ refused = NoPacket
    /\ port[b][p].stage = "resetting"
    /\ port' = [port EXCEPT ![b][p] =
                  [@ EXCEPT !.stage = IF port[b][p].speed = "none" THEN "on" ELSE "enabled",
                            !.stc = port[b][p].stc \cup {"C_PORT_RESET"}]]
    /\ UNCHANGED <<busVars, coreVars, hub>>

PortFault(b, p) ==
    /\ refused = NoPacket
    /\ port[b][p].stage = "enabled"
    /\ \E f \in Faults \ port[b][p].stc :
          port' = [port EXCEPT ![b][p] = [@ EXCEPT !.stage = "on",
                                                   !.stc = port[b][p].stc \cup {f}]]
    /\ UNCHANGED <<busVars, coreVars, hub>>

-----------------------------------------------------------------------------
(* The poll of the hub driver.                                             *)

\* A root device whose hub driver is bound, so that usbh_poll polls it.
Polled(b) == refused = NoPacket /\ drv[Root(b)] = "READY"

\* Mutant: the state does not say that the endpoint is being read.
PollStatusChangeAgain(b) ==
    /\ Polled(b)
    /\ hub[b].state = "POLL_REQ"
    /\ ~enumeration_run
    /\ UNCHANGED <<coreVars, hubVars, dpstate>>
    /\ Issue(NewPacket(Root(b), "IN", "event"), channels)

\* EVENT_STATE_POLL_REQ: read_ep1, if no device is being enumerated.
PollStatusChange(b) ==
    /\ Polled(b)
    /\ hub[b].state = "POLL_REQ"
    /\ ~enumeration_run
    /\ hub' = [hub EXCEPT ![b].state = "POLL"]
    /\ UNCHANGED <<coreVars, dpstate, port>>
    /\ Issue(NewPacket(Root(b), "IN", "event"), channels)

\* EVENT_STATE_INITIAL: read the hub descriptor, unless the configuration
\* already held it.
PollInitial(b) ==
    /\ Polled(b)
    /\ hub[b].state = "INITIAL"
    /\ UNCHANGED <<dpstate, port>>
    /\ \/ /\ UNCHANGED <<coreFrame, address, drv>>
          /\ Ask(b, hub[b], "READ_HUB_DESCRIPTOR_COMPLETE", "GET_DESCRIPTOR", 0,
                 control, channels)
       \/ EnablePorts(b, [hub[b] EXCEPT !.index = 0], control, channels)

\* EVENT_STATE_SLEEP_500_MS: the pause is over, the new device is enumerated.
\* Nothing is asked of the lock here.
PollStartEnumeration(b) ==
    LET d == <<b, hub[b].device[hub[b].current_port]>>
    IN  /\ Polled(b)
        /\ hub[b].state = "SLEEP_500_MS"
        /\ EnumerationStart(d, address[d], control, channels)
        /\ hub' = [hub EXCEPT ![b] = [Idle(@) EXCEPT !.busy = FALSE,
                                                     !.current_port = Unused]]
        /\ UNCHANGED <<drv, dpstate, port>>

\* The drivers of the devices in the ports are polled through the hub, unless
\* a device is being enumerated.  Bound: one transfer of each at a time.
Transferring(d) ==
    \E c \in Chan : channels[c] \in Packet /\ channels[c].dev = d
                                           /\ channels[c].callback = "event"

LeafTransfer(b, p) ==
    /\ Polled(b)
    /\ ~enumeration_run
    /\ hub[b].device[p] # Unused
    /\ ~Transferring(<<b, hub[b].device[p]>>)
    /\ DriverTransfer(<<b, hub[b].device[p]>>)
    /\ UNCHANGED hubVars

-----------------------------------------------------------------------------
(* The core with hubs in its root ports.                                   *)

\* init and analyze_descriptor of the hub driver, and remove.  What init does
\* not set keeps the value the last hub left.
HubBound(h) == [h EXCEPT !.state = "INITIAL", !.busy = FALSE]
HubRemoved(h) == [Idle(h) EXCEPT !.state = "NONE", !.busy = FALSE,
                                 !.device = NoDevices, !.index = 0]

\* Environment: what is plugged into a root port has the descriptors of a hub.
RootIsHub == \A b \in Buses : drv'[Root(b)] # "UNREADY"

HubCoreCallback(p, r, chs) ==
    /\ CoreCallback(p, r, chs)
    /\ RootIsHub
    /\ hub' = [b \in Buses |-> IF drv[Root(b)] = "NULL" /\ drv'[Root(b)] # "NULL"
                               THEN HubBound(hub[b]) ELSE hub[b]]

\* A transfer of a leaf driver, or of a hub that was removed, has ended.
LeafEvent(p, chs) ==
    /\ p.callback = "event"
    /\ p.dev # Root(p.dev[1]) \/ drv[p.dev] = "NULL"
    /\ NoIssue(chs)
    /\ UNCHANGED <<coreVars, hub>>

HubPacketCallback(p, r, chs) ==
    LET b == p.dev[1]
    IN  \/ HubCoreCallback(p, r, chs)
        \/ LeafEvent(p, chs)
        \/ /\ p.dev = Root(b) /\ drv[p.dev] # "NULL"
           /\ \/ /\ DriverRequestEnds(p, r)
                 /\ HubEvent(b, Latched(p, r), ControlResult(p.dev, r),
                             PipeIdle(p.dev), chs)
              \/ /\ p.callback = "event"
                 /\ HubEvent(b, hub[b], r, control, chs)

HubCompletion(c) ==
    /\ Answerable(c)
    /\ \E r \in Responses(channels[c]), left \in {NoPacket, Halting} :
          /\ HubPacketCallback(channels[c], r, Released(c, left))
          /\ PortsAfter(channels[c], r)
    /\ UNCHANGED dpstate

HubRefusal ==
    /\ refused # NoPacket
    /\ HubPacketCallback(refused, "EFATAL", channels)
    /\ UNCHANGED <<dpstate, port>>

\* The hub loses its power with the root port; the devices in it stay plugged
\* and are found again when the ports are powered.
HubDisconnected(b) ==
    /\ Disconnected(b)
    /\ hub' = [hub EXCEPT ![b] = IF drv[Root(b)] = "NULL" THEN @ ELSE HubRemoved(@)]
    /\ port' = [port EXCEPT ![b] =
                   [p \in PortNum |-> [NothingPlugged EXCEPT !.speed = port[b][p].speed]]]

HubNext ==
    \/ \E b \in Buses :
          \/ Reset(b) /\ UNCHANGED hubVars
          \/ Connected(b) /\ UNCHANGED hubVars
          \/ HubDisconnected(b)
          \/ PollStatusChange(b)
          \/ PollInitial(b)
          \/ PollStartEnumeration(b)
          \/ \E p \in PortNum :
                \/ \E s \in Speeds : Plug(b, p, s)
                \/ Unplug(b, p)
                \/ PortResetDone(b, p)
                \/ PortFault(b, p)
                \/ LeafTransfer(b, p)
    \/ \E c \in Chan : HubCompletion(c) \/ (Halted(c) /\ UNCHANGED hubVars)
    \/ HubRefusal

HubSpec == HubInit /\ [][HubNext]_hvars

\* As in the core: every packet calls back unless its channel is initialised.
HubFairness ==
    /\ \A c \in Chan : WF_hvars(HubCompletion(c))
    /\ WF_hvars(HubRefusal)

HubFairSpec == HubSpec /\ HubFairness

-----------------------------------------------------------------------------
(* Properties.                                                             *)

\* A request of the driver of d is under way.
Asked(d) == control[d].state # "NONE" /\ control[d].callback = "event"
StatusRequested(b) == \E k \in Kind : Awaits(Root(b), "event", k)

\* The hub driver does one thing at a time: it never reads the status change
\* endpoint beside a request, and neither goes on while its state expects
\* nothing, so that no answer is taken for the answer to something else.
HubSingleFile ==
    \A b \in Buses : dpstate[b] = "RUN" =>
        /\ ~(Asked(Root(b)) /\ StatusRequested(b))
        /\ Asked(Root(b)) => hub[b].state \in
              {"READ_HUB_DESCRIPTOR_COMPLETE", "ENABLE_PORTS", "GET_PORT_STATUS",
               "GET_STATUS_COMPLETE", "PORT_RESET_REQ", "PORT_RESET_COMPLETE"}
        /\ StatusRequested(b) => hub[b].state = "POLL"

\* With one bus, the device with address 0 is the only one, and it holds the
\* lock, so that no port is reset beside it.
DefaultAddressLocked ==
    \A b \in Buses : dpstate[b] = "RUN" =>
        \A d \in Device : address[d] = 0 =>
            /\ enumeration_run
            /\ \A e \in Device : address[e] = 0 => e = d

\* With one bus, an assigned address is the one of the slot: no two devices
\* share one.
AddressIsOwnSlot ==
    \A d \in Device : address[d] > 0 => address[d] = d[2] + 1

\* When the pause after a port reset ends, a device waits in the current port
\* and no other device is being enumerated.
StartFindsLockFree ==
    \A b \in Buses : hub[b].state = "SLEEP_500_MS" =>
        /\ ~enumeration_run
        /\ hub[b].current_port \in PortNum
        /\ hub[b].device[hub[b].current_port] # Unused

\* A device behind a hub that has an address and a driver is known to a hub that
\* has a driver: it is still polled, and it is removed when it is unplugged.
LeafReachable ==
    \A b \in Buses, s \in Slot \ {0} :
        drv[<<b, s>>] # "NULL" /\ address[<<b, s>>] > 0 =>
            /\ drv[Root(b)] = "READY"
            /\ \E p \in PortNum : hub[b].device[p] = s

\* Each device has a control pipe that is either idle or waits for an answer
\* that will come.
ChildPipeBacked ==
    \A d \in Device : dpstate[d[1]] = "RUN" /\ control[d].state # "NONE" =>
        Awaits(d, "control_state_machine", StateKind(d))

\* Every enumeration, of a hub or behind one, gives the lock back, unless the
\* root port goes down again and again, it has left a control pipe busy for ever,
\* or a device cuts its descriptors short (for ever, or into the dead end).
LockReleased ==
    \/ []<>(\E b \in Buses : dpstate[b] # "RUN")
    \/ <>[]~ChildPipeBacked
    \/ []<><<\E d \in Device : ShortRetry(d)>>_hvars
    \/ enumeration_run ~> (~enumeration_run \/ \E d \in Device : HeaderDeadEnd(d))

\* A slot of the bus stands for exactly one connected device: no two ports of
\* the hub share one.
NoSharedSlot ==
    \A b \in Buses : \A p, q \in PortNum :
        hub[b].device[p] = hub[b].device[q] /\ hub[b].device[p] # Unused => p = q

\* A device that sits in a port of an idle hub, and that no driver data stands
\* for, is reported by a change: the driver looks at it sooner or later.
NoUnnoticedDevice ==
    \A b \in Buses, p \in PortNum :
        /\ dpstate[b] = "RUN" /\ hub[b].state = "POLL_REQ"
        /\ hub[b].current_port = Unused /\ hub[b].device[p] = Unused
        /\ port[b][p].speed # "none" /\ port[b][p].stage = "on"
        => port[b][p].stc # {}
=============================================================================
