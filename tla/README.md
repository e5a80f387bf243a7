# A TLA+ model of libusbhost

libusbhost is a USB host stack for the STM32F4. This directory holds TLA+ modules that
model its core, its low-level driver, its hub driver and its HID, MIDI and Xbox drivers, the TLC
configurations that check them, and proofs about all of them that TLAPS checks.

## 1. The system

The program has one thread. The main loop (`demo.c`) calls `usbh_poll(time)` for ever;
`usbh_poll` asks every low-level driver to poll its hardware, handles connection and
disconnection of the root port, and polls the driver of the device in the root port. There
are no interrupts in the USB part and no locks: everything that is asynchronous comes from
outside, in the order in which the polls see it. What makes the code hard is that every
operation is cut into callbacks, and that packets, ports and devices change between them.

| component | file | state | operations |
|---|---|---|---|
| core | `usbh_core.c` | `usbh_data.enumeration_run`, `address_temporary`; per device `address`, `state`, `control`, `drv`/`drvdata` | `usbh_poll`, `device_control`, `control_state_machine`, `device_enumerate`, `device_register`, `device_remove`, `device_enumeration_start`, `usbh_get_free_device` |
| low-level driver | `usbh_lld_stm32f4.c` | `dpstate`, `poll_sequence`, `channels[]`, registers | `init`, `read`, `write`, `poll` |
| hub driver | `usbh_driver_hub.c` | `hub_device[]`: `state`, `index`, `busy`, `current_port`, `device[]`, `hub_and_port_status[]` | `event`, `poll`, `init`, `analyze_descriptor`, `remove` |
| HID, AC MIDI, Xbox drivers | `usbh_driver_hid.c`, `usbh_driver_ac_midi.c`, `usbh_driver_gp_xbox.c` | a small state machine per device, double use of one state for "free slot" and "dead" | as the hub driver, and calls of the application (`hid_set_report`, `usbh_midi_write`) |
| USART helpers | `usart_helpers.c` | two FIFOs shared with the interrupt | push, pop |
| demo, tinyprintf | `demo.c`, `tinyprintf.c` | - | main loop, time, logging |

How they interact. The core and the drivers call `usbh_read`/`usbh_write` with a packet and a
callback. The low-level driver puts the packet on a free channel and calls back from a
later `poll`; with no free channel it calls back at once, inside the call, with `EFATAL`. The
core multiplexes the control pipe of each device: `device_control` sends the SETUP stage,
`control_state_machine` the others. `device_enumerate` is both a callback of the
control pipe (address, device descriptor, configuration) and of raw packets on endpoint 0 (the
configuration descriptor). The hub driver takes slots from the core
(`usbh_get_free_device`), starts enumerations and polls the drivers of the devices behind it.
One flag, `enumeration_run`, is the lock that keeps hubs from enumerating two devices at a time;
a connection in a root port takes it without looking.

What is hard: which packet an answer belongs to (pipe shared by driver and enumeration,
answers that outlive the connection, channels that are initialised without an answer, the
refusal inside a call), who gives the lock back, slots that are freed by one party while
another still points at them, changes of hub ports that happen while the driver looks
elsewhere, and retries and dead ends of the enumeration.

## 2. The modules

| module | models | extends / used by |
|---|---|---|
| `UsbhBus` | what the core may assume of a low-level driver | used by `UsbhCore` |
| `UsbhCore` | `usbh_core.c` with generic drivers in the root ports | extends `UsbhBus` |
| `UsbhPort` | the abstract root port: what the core promises | instanced by `UsbhCore` |
| `UsbhHub` | `usbh_driver_hub.c` composed with the core; the hub hardware and the devices behind it are the environment | extends `UsbhCore` |
| `UsbhLld` | `usbh_lld_stm32f4.c` with the registers of the OTG core | instances `UsbhBus`, which it implements |
| `UsbhDrivers` | `usbh_driver_hid.c`, `usbh_driver_ac_midi.c`, `usbh_driver_gp_xbox.c` and the calls of the application | extends `UsbhCore`, which it implements |
| `UsbhCoreProofs` | theorems about `UsbhCore` and their proofs | extends `UsbhCore` |
| `UsbhDriversProofs` | theorems about `UsbhDrivers` and their proofs, for any number of buses | extends `UsbhDrivers`, `UsbhCoreProofs` |
| `UsbhOneBusProofs` | theorems about `UsbhDrivers` on one bus | extends `UsbhDriversProofs` |
| `UsbhLldProofs` | theorems about `UsbhLld` and their proofs | extends `UsbhLld` |
| `UsbhHubProofs` | theorems about `UsbhHub` and their proofs, for any number of buses | extends `UsbhHub`, `UsbhCoreProofs` |
| `UsbhOneHubProofs` | theorems about the lock and the addresses of `UsbhHub` on one bus | extends `UsbhHubProofs` |
| `UsbhReachProofs` | theorem that no device behind a hub is forgotten, on one bus | extends `UsbhOneHubProofs` |
| `MCCore`, `MCHub`, `MCLld`, `MCDrivers` | model checking | |

They form a tower of refinements: `UsbhDrivers` implements `UsbhCore` (proved), `UsbhCore` implements
`UsbhPort` (proved) and, seen from below, takes only steps that `BusSpec` allows (proved);
`UsbhLld` implements `BusSpec` (proved, for a port that does not bounce). `UsbhHub` is a second extension of the core: it
shares its operators, and its proofs share the lemmas about them.

**UsbhBus.** `dpstate[b]` is `DEVICE_POLL_STATE`; `DEVCONN` (wait for 500 ms after a connection)
is part of `DISCONN`, since the core cannot tell them apart. `channels[c]` is what a channel
carries: a packet, `NoPacket`, or `Halting` after `free_channel` had to set CHDIS and CHH is still to
come. `refused` holds the packet whose callback runs inside `usbh_read`/`usbh_write`; while it
is not `NoPacket` nothing else can happen, which is how a call inside a handler is modelled by
two steps. That is sound here because no handler reads or writes, after the call, state that the
callback touches (`hub->current_port` and `hub->busy` in `PollStartEnumeration` are written after
it, but no callback of the device being enumerated reads them). `Responses` lists the statuses a packet can end with,
from the HCINT bits that `poll_run` handles in each direction. `PortReset` is the end of the
500 ms pause: `channels_init` frees every channel of the bus or tells it to stop, and the packets are
forgotten. `PortGone` is DISCINT: channels are initialised if PCSTS is clear, and stay alive
otherwise. `BusSpec` is this bus under a core that submits what it likes: at most one packet in a
step, also from within a callback or at a connection.

**UsbhCore.** A device is `<<bus, slot>>`. `address`, `estate`, `control`, `drv` are the fields of
`usbh_device_t`; `estate` has only the states that outlive a call, since `CONTINUE_WITH` runs
through the others. `drv` is NULL, UNREADY (accepted by `device_register`, whose parsing then
stopped early) or READY. Handlers take `ctl` and `chs`, the control pipes and channels at
the point of the call: `control_state_machine` sets the pipe to NONE before it calls back, and the
channel is released before the callback. `Completion` is one finished channel, `Refusal` the
callback of a refused packet, `Connected`/`Disconnected` the two statuses of the root port. `DriverTransfer`,
`DriverControl` and `DriverEvent` are a driver that does anything a driver may do, without a
bound: it transfers whenever it likes and also from within its callbacks.
Descriptors are reduced to the decisions the code takes on them: whether the device descriptor
or the header came up short, and whether a driver accepts the device.

**UsbhHub.** `hub[b]` is the driver data of the hub in root port `b`, `port[b][p]` the hardware of
its ports: what is plugged in, the stage of the port, the change bits. One action or operator per
`EVENT_STATE` case of `event()` and `poll()`. Leaf devices behind the hub have generic drivers
that only transfer (`LeafTransfer`), one transfer at a time (`Transferring`, a bound); they are enumerated by the same operators as the hub.
`Effect`, `PortsAfter`, `Latched`, `Plug`, `Unplug`, `PortResetDone`, `PortFault` are hardware and are marked external. The
driver data of a hub has as many slots as there are root ports, so that no hub is turned
away for lack of it.

**UsbhLld.** One OTG core. `state`, `poll_sequence`, `dpstate` and `channels` are those of
the code; `hprt` and `discint` are the bits of HPRT and GINTSTS that it looks at, `hc[c]` CHENA, CHDIS,
HCINT and the entries of channel `c` in the RX FIFO. Each poll state is an action (`PollInit`,
`PollDisconn`, ...), which ends in `PortChanges`, the common rest of `poll_run`: empty the RX FIFO, then
look at the port. The loop over the channels is cut at each channel and each bit, because the callbacks and
the hardware go on between them: `ScanChannel` reads HCINT once into `visit`, `PacketEnds`, `ReadNak` and
`ChannelHalted` handle the bits of that copy in the order of the code. `owed` and `report` are history: which
channels have a callback to come, and the last status. The hardware assumed is listed at the top of
the module. Two parameters are switches of the environment: `Bounces` lets a device be back
before the driver has seen it leave, in any poll state; `ResubmitAfterError` lets a callback with an
error submit a packet, which nobody in the repository does except possibly the callback of a MIDI write.
`BusChannel` is the refinement mapping: a channel carries its packet while it is owed, and is
`Halting` until it can be given away. The core submits between two polls only while the port is up, which
is `DriverOnlyWhenSettled` of the core.

**UsbhDrivers.** `data[x]` is an entry of `hid_device`, `midi_device` or `gp_xbox_device`, with the
names of the code's states; INACTIVE (0 for MIDI) means both "free" and "dead". `drvdata` is the
pointer of the device. `Registered` is what `device_register` does to the data: it may
take data and give them back (`tried`), keep data with a driver that is not ready, or name a driver that
found no data. `SetReport` and `MidiWrite` are `hid_set_report` and `usbh_midi_write`, at any
time between two polls; an application that calls them from inside one of its callbacks is
the same as one that calls them in the step that follows, since the drivers do nothing after those callbacks that
the call could meet; the exception is `notify_disconnected` of MIDI, during which the application is assumed not to
write to the device that it is told has gone (`remove` clears the state only after the call). `SetReport` is restricted to a device that is still there (`Present`, see section 6).
`notified` and `overlapped` are history: whom the application knows, and which MIDI device it
wrote to twice at a time. Reports, messages and the lengths of reads are abstracted.

**UsbhPort.** Five phases for each root port and the lock: a device is enumerated once for each
connection, is then bound, unclaimed or failed until the port goes down, and the lock is
taken by each enumeration and given back by whichever ends first - also by a late answer of
an enumeration that is no more. `ImplementsPort` is the refinement mapping.

Some operators, marked "Mutant", are plausible bugs of the definition that follows them. They are
not part of any specification; each property is known to fail when one of them takes the
place of its original.

## 3. What is checked

Every run checks deadlock as well: the program never stops.

| run | instance | properties | states |
|---|---|---|---|
| `core_roots` | 2 buses (symmetric), 1 slot, 2 channels | `TypeOK`, `Ep0Exclusive`, `ControlPipeBacked`, `EnumerationBacked`, `DriverOnlyWhenSettled`, `CallbackHasDriver`, `LockNotLeaked`, `ImplementsPort` | 224 k |
| `hub_one_port` | 1 bus, 1 port, 2 slots, 2 channels, full and low speed, a port that disables itself | `HubTypeOK`, `HubSingleFile`, `LeafReachable` | 326 k |
| `hub_two_ports` | 1 bus, 2 ports, 3 slots, 1 channel, full and low speed, the hub leaves only between enumerations (`LeavesBetweenEnumerations`) | `DefaultAddressLocked`, `AddressIsOwnSlot`, `StartFindsLockFree` | 891 k |
| `hub_live` | 1 bus, 2 ports, 2 slots, 1 channel, fair, the hub leaves at any time | `LockReleased`, `EnumerationEnds`, `LockHeld`, and the three of `hub_two_ports` | 175 k |
| `lld` | 2 channels, a write and a read, reads of 2 packets, fair, no bounces | `LldTypeOK`, `ImplementsBus`, `ReportsAreTrue`, `ChannelComesBack`, `SteadyIsConnected` | 145 k |
| `drivers` | 1 bus, 1 slot, 3 channels, 2 HID, 1 MIDI and 1 Xbox entry, fair | `DriversTypeOK`, `WaitsForItsRead`, `ReportUnderWay`, `WriteCallsBack`, `ActiveDataBound`, `KnownWhileBound`, `ImplementsCore`, `KeepsReading` | 35 k |

Six runs end in a violation, each a trace of a finding (section 6):
`hub_busy_pipe`, `hub_shared_slot`, `hub_replug`, `hub_two_buses`, `lld_bounce`, `drivers_shared`.

What the last two passing runs show. `lld`: `ImplementsBus` is what makes the rest mean something for the
hardware; it covers the bits that are still tested after a callback has given the channel to another
packet, data that re-enable a channel about to be initialised, and a halt that comes
late. `ReportsAreTrue` says that a read that ends with OK was sent whole and one that ends with ERRSIZ was not, whatever NAKs and
pieces there were. `ChannelComesBack` says that no channel is lost, `SteadyIsConnected` that a device
that stays after the debounce is connected for good. `drivers`: `WaitsForItsRead` ties the
driver's state to the read that is outstanding, in both directions and never two, through the
initial delay of MIDI, refusals, errors and re-enumerations; `ReportUnderWay` and
`WriteCallsBack` do the same for what the application asked for; `ActiveDataBound` ties data that are not INACTIVE to
the device they name, so that `poll` and `usbh_midi_write`, which look at the state, work for no device that is gone
(`hid_set_report` does not look at it: that the application asks for no such device is an assumption of `SetReport`);
`KnownWhileBound` ties what the application was told to the driver, both ways: it knows a MIDI device or a
gamepad exactly from the first poll until the port goes down, and a fatal error in between, which makes the data
INACTIVE, does not take it away (its mutant is the `remove` that `usbh_driver_ac_midi.c:174` has commented out); `KeepsReading` says that a driver goes on until its first error.

Bounds. Two buses are enough to have one enumeration disturb another through the lock and
`address_temporary`, the only state they share. Two channels let a driver have a transfer and a request under
way at once; one channel (or two, both taken or halting) gives the refusals. One slot per bus is enough without
hubs; with hubs, one slot for the hub and one per port, or one less to meet the full
table. Two ports are needed for one port to be worked on while another changes. The bound
of one event transfer for each device behind the hub (`Transferring`) is in the guard of `LeafTransfer`; it
keeps the pool from filling with the transfers of one device, which the root drivers of `core_roots`, where there
is no bound, do.
`lld` has two channels, so that one can be given away while another halts or is scanned, and
reads of two packets, the least that come in pieces. `drivers` has one bus: with two, a fatal
error lets two devices share data (`drivers_shared`) and the properties that say "with one bus" are
lost, which are proved for one bus with any number of slots, channels and data; `ActiveDataBound` and `ImplementsCore`
are proved for any number of buses. Three channels hold a read, a report or
write, and a second write, and are all taken by a third. Two HID entries let a new device find the entry of
the last one or another; entries of different drivers do not interact.
`LeavesBetweenEnumerations` (module `MCHub`) keeps `hub_two_ports` small: there the hub is not
unplugged during an enumeration, which `hub_one_port` and `hub_live` let it be. There are no other
bounds: the state space is finite by itself.

Fairness. `FairSpec` of `UsbhCore` and `HubFairSpec` assume weak fairness of each channel's completion
and of the refusal, and nothing of drivers, ports and users. The main loop polls for ever and the refusal runs inside
the call. That a channel completes is a promise of the bus and not of the code: a
device that answers NAK for ever on a control read would be waited for for ever, since
`poll_run` restarts the channel and has no timeout. The liveness properties hold under that promise
only, and name their other exceptions themselves: a descriptor that is cut short again and again, the header dead end, a
root port that goes down for ever again, and a pipe left busy (section 6).
`DriversFairSpec` adds strong fairness of the poll of each driver and of each completion: the main loop
polls for ever, but a packet that is refused inside a call of the application disables both for the length of
that call, which returns (weak fairness of the refusal). `FairSpec` of `UsbhLld` is fair to the
poll as a whole (strongly, since the refusal disables it too), to the refusal, to the end of a port
reset, to channels that were told to stop, and strongly to a device's answers: a device does not answer NAK for
ever. The last is the promise above, here about single transactions; without it a
read of a silent device is waited for for ever.

## 4. What is proved

`UsbhCoreProofs` proves, for every number of buses, slots and channels (assumption `BusAssumption`
only): `TypeCorrect`, `LockNeverLeaked`, `Invariance`, `ExclusiveEndpoint0`, `PipeAlwaysBacked`,
`EnumerationAlwaysBacked`, `DriverSettled`, `DriverCalledWithData`, `Refinement`
(`Spec => ImplementsPort`), `LockAlwaysHeld` and `CoreUsesBus` (`Spec => BusSpec`).
`UsbhDriversProofs` proves, for every number of driver data as well (`DriversAssumption`):
`DriversTypeCorrect`, `DriversWorkForPresent` (`ActiveDataBound`), `DriversRefinement`
(`DriversSpec => ImplementsCore`) and `CoreKeepsUnderDrivers`: what is proved of the core holds with these drivers.

The argument. None of the properties is inductive: each needs to know which packets are in flight.
`IInv` says, for each root port:

- port up (`Up`): endpoint 0 is silent and nothing is asked; or exactly one packet of endpoint 0
  is outstanding, and it is the packet that the stage of the control pipe (`PipePacket`) or the
  raw state of the enumeration (`RawPacket`) waits for. Transfers of a driver are outstanding only
  if it is ready; an enumerating device has no driver.
- port down (`Down`): at most one packet, left over from the connection that ended. Either nobody waits
  for it, or it is a raw read whose enumeration goes on with the address -1, where the next request
  cannot succeed and ends it (`Late`).
- port in reset (`Flushing`): nothing is outstanding, because the channels were initialised.

`EnumerateUp` and `EnumerateDown` follow `device_enumerate` through its cases, `CallbackUp`
and `CallbackDown` add the control pipe and the drivers, `OnePortStep` carries the ports that a
step is not about, and one lemma for each action of `Next` ends in `InvStep`. The invariant was checked
with TLC on two buses first. `Refinement` adds `EnumerateEnds`: an answer keeps both the lock and
the enumeration, or ends both. `LockAlwaysHeld` is then a fact about `UsbhPort` only. `CoreUsesBus`
walks over the handlers and finds in each at most one packet submitted (`SubmitsCalls`), which is the
step of `BusSpec` (`BusStep`).

For the drivers, `ActiveDataBound` is not inductive either: a step at one device must not touch the data
of another, and two devices may point at the same data after a fatal error. `DInv` adds to the types that data
which are not INACTIVE name a device that is bound to them and ready (`Backed`); that a device is bound only
while its port is up is a fact of the core, which comes from `IInv`. `DriversStep` carries both through each step
of the drivers: a poll or a call of the application is a `DriverTransfer`, a `DriverControl` or a
stutter of the generic driver, since by `Backed` the driver that transfers is ready; a callback is its
`DriverEvent`; and a registration binds data only to a device that had none. So `IInv` comes from `InvStep`
of the core, and `DInv` from one lemma for each action. The refinement is the first half of that step.

`UsbhOneBusProofs` proves, for one bus (`Buses = {b}`) and any number of slots, channels and data:
`OneBusInvariance`, `ReadsAwaited` (`WaitsForItsRead`), `ReportsUnderWay` (`ReportUnderWay`), `WritesCallBack`
(`WriteCallsBack`) and `ApplicationKnows` (`KnownWhileBound`). The four properties are about data and packets
of one device, and with one bus only one device has a driver (`OnlyRoot`). The rest of the inductive invariant,
`Served`, says of the device and its data that exactly one read is outstanding in the states that
read and none in the others; that the same holds of the write of MIDI, unless the application wrote twice at a
time; and that the pipe works for the driver exactly while the data say that a descriptor or a
report is under way, and never for both. `Known` says that the application knows the device bound to the root port, and
nobody else, exactly when it was introduced (`Introduced`): the driver is ready and its data have left the first state,
which they enter at registration only, so a fatal error changes neither side. A new driver starts with nothing outstanding, which is the part of `IInv`
that says so of a port that is up without a driver. With two buses the invariant is false, since a fatal
error frees data that are still bound (`drivers_shared`).

`UsbhLldProofs` proves, for any number of channels and lengths of reads: `LldInvariance`, `LldTypeCorrect`,
`ReportsTrue` (`ReportsAreTrue`) and `LldRefinement` (`Spec => ImplementsBus`), under the two hypotheses
`~Bounces` and `~ResubmitAfterError`. The model itself takes both away: with either switch on, TLC finds `ImplementsBus`
and `ReportsAreTrue` violated (`lld_bounce` is the first). `LldInv` says of each channel that it is `Quiet`, so that
nothing but CHH can still come of it, or owes a callback and is `Asked`: its packet is posted, or data for it have
arrived in the FIFO, or it has ended with one bit of HCINT that tells how, and `data_index` and the FIFO add up to
what the hardware has sent. `VisitInv` carries that through the loop of `poll_run`: of the copy of HCINT, either
the packet is still owed or only CHH is left. `FifoInv` keeps the FIFO empty for channels that can be given away,
and `PortInv` ties the poll states to the bits of HPRT. The refinement then maps each cut of the loop to a step
of `BusNext` or to a stutter. Together with `CoreUsesBus` it is the contract of the two layers, proved on both sides.

Hubs, in three steps; all for any number of slots, channels and ports (`BusAssumption`, `HubAssumption`). Each invariant
was checked with TLC first, the last two on the instances of `hub_one_port` and `hub_live`.

`UsbhHubProofs`, for any number of buses: `HubInvariance`, `HubTypeCorrect` (`HubTypeOK`), `SingleFileAlways`
(`HubSingleFile`), and the promises of the core for the hub itself, `HubExclusive`, `HubPipeBacked`,
`HubEnumerationBacked` and `HubDriverSettled`. `HInv` keeps `PortInv` of the core for each root port and adds
`DriverInv` for the hub driver:

- the state is about a port that exists, and in SLEEP_500_MS about one that has a slot (`HubWork`, `Ports`): `event` and
  `poll` use `current_port` and `device[]` many polls after they were set;
- a request is under way only in the states that wait for one, and the status change endpoint is read once, in POLL
  only (`SingleFile`);
- a hub that lost its address while it was registered never gets an answer (`Unheard`). `device_register` calls
  `device_remove`, which takes the address, when a driver gives a device up, and may still bind the hub driver to the
  next descriptor; nothing but the silence of that hub then keeps its driver from handing out slots.

An event of the hub driver touches the core only behind the hub (`BehindHub`) and sends at most one request
(`HubSends`), whatever it decides; `EventCompletes` shows that for each state, and one lemma for each
action of `HubNext` ends in `HInvStep`.

`UsbhOneHubProofs`, for one bus: `OneHubInvariance`, `LockFreeAtStart` (`StartFindsLockFree`), `DefaultAddressExclusive`
(`DefaultAddressLocked`), `AddressesAreOwn` (`AddressIsOwnSlot`) and `HubHoldsLock` (`LockHeld`). `PollStartEnumeration`
takes the lock without testing it, which was done several requests and a pause earlier. `OneHub` says
why this is enough: in all the states between the test and the start (`Looking`) the lock is free, since whoever else could
take it is a root port that connects, and then there is no hub. Of each device it says (`OneDevice`) that an enumeration that
is not over (`Engaged`) holds the lock and `address_temporary` (`Holds`), so that two of them are the same, that its
address is its own, and that a device behind the hub has nothing on endpoint 0 but its enumeration.
`EnumerateHolder` follows `device_enumerate` for the holder, `EnumerateAbsent` for a device removed
meanwhile. With two buses all of this is false (`hub_two_buses`).

`UsbhReachProofs`, for one bus: `ReachInvariance` and `LeavesReachable` (`LeafReachable`). The driver writes a new slot into
`device[current_port]` on C_PORT_RESET without looking at what was there; a device that was there would keep its slot and its
driver, and nobody would poll or remove it. `Orderly` says why the entry is empty: a port with a reset under way, or a
reset change that has not been looked at, has no device, nor has one whose reset is requested or whose status
was read with that bit. A port loses its device only when the driver reads a disconnection, and gets a reset only
after it has read a connection of an empty port; `Matched` ties the answer that it reads to the request it
sent last. `AllKnown` then carries the slots through each callback: a device that is enumerated, or has an address and
a driver, is in `device[]` of a hub whose driver is ready.

Only model-checked: liveness (`LockReleased`, `EnumerationEnds`, `ChannelComesBack`, `SteadyIsConnected`,
`KeepsReading`), which TLAPS cannot prove here. Every safety property of a passing run is proved.

## 5. What is not modelled, and the plan

Not modelled: FRMOR (the driver runs interrupt endpoints as bulk, which raise none), over-current, a voltage drop that disables a port
whose device stays; bytes of descriptors and messages, data toggles, speeds and packet sizes (data); times (a
pause ends at some poll, so a pause that ends early because the time wraps is among the behaviours, one that
ends late is not told apart); `tinyprintf`; the set-up of clocks and pins; build files; `libopencm3`
(an empty submodule). `usart_helpers.c` is the console of the debug log: a FIFO between the
main loop and the USART interrupt, whose interrupt the demo does not enable, and a blocking output. It
carries nothing of the USB stack; its FIFO would be a small module of its own.

Some hazards of the code are in the models but no property catches them, and PROJECT.json says so: a header of a
configuration that never comes whole (`usbh_core.c:507`) and a descriptor that is cut short for ever (`usbh_core.c:452`)
are exceptions that `EnumerationEnds` and `LockReleased` name; a hub whose port changes by anything but a connection or a reset
(`usbh_driver_hub.c:402`) is never polled again, and `HubSingleFile` only holds there; more ports than
`USBH_HUB_MAX_DEVICES` (`usbh_driver_hub.c:227`) are not in the model, since `ports_num` is a constant.

What is left, in order of importance:

1. `UsbhHub`: hubs with more ports than `USBH_HUB_MAX_DEVICES`; a second hub in the driver data that an
   earlier one left; an abstract specification of the lock with devices behind hubs, which one bus implements.
2. The real drivers behind a hub, where `hub_shared_slot` and `drivers_shared` meet.
3. `UsbhRegister`: the walk of `device_register` over the bytes of a configuration, against a
   reference reading of the descriptors.
4. `UsbhTime`: the 32-bit time, its wrap after 6.5 s and the pauses of the code.

## 6. Findings

- `hub_busy_pipe`: a root port that drops and comes back in the middle of a request to a device
  behind the hub leaves the control pipe of that slot busy. Every later request to the slot is
  dropped silently; an enumeration there never ends and never gives back the lock.
- `hub_shared_slot`: an enumeration that fails frees its slot although the hub still points at it.
- `hub_replug`: a device replaced by another before the driver looks is taken for unplugged, and the new
  one is not noticed.
- `hub_two_buses`: `address_temporary` is one variable for all buses.

- `lld_bounce`: a contact that bounces during the debounce leaves DISCINT pending; it is handled
  after the reset, and the device that is attached for good is dropped and never seen again.
- `drivers_shared`: a transfer that fails frees the driver data of a device that is still bound to
  them; the next device of that kind is given the same data.

Seen while modelling, without a finding:

- the header dead end of the enumeration (`usbh_core.c:507`), and a change bit the hub driver does not
  handle, after which it stops (`usbh_driver_hub.c:402`);
- a packet submitted from a callback with an error may be freed by the CHH bit of the same HCINT, and
  is then never called back (`ResubmitAfterError`); only the callback of a MIDI write could submit one;
- while a port is bouncing, entries of the RX FIFO can outlive `channels_init`; the core has nothing
  outstanding then (theorem `Invariance`), so `lld_bounce` is run without packets;
- `hid_is_connected` returns true for an entry that is inactive (`usbh_driver_hid.c:380`), against its
  documentation in `usbh_driver_hid.h`;
- the callback of a MIDI write is told 0 when all was written (`usbh_driver_ac_midi.c:284`), and of two writes at a time
  only the first to finish is reported (`WriteCallsBack` names this case);
- `remove` of a driver whose data were given to a device that does not fit tells the application of
  a disconnection it knows no connection of, and `find_driver` leaves `dev->drv` set to a driver
  that had no data left; the test of `drvdata` in `usbh_poll` makes this harmless;
- `hid_set_report` for a device that was removed uses the slot that it had; if the next device of
  that slot is being enumerated, the request of the enumeration can be dropped and the enumeration never
  ends. `SetReport` leaves this to the application (`Present`).
