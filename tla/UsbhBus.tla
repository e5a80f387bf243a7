------------------------------- MODULE UsbhBus -------------------------------
(***************************************************************************)
(* What the core of libusbhost may assume of a low-level driver: ports     *)
(* that come and go, a pool of channels, and one callback for every packet *)
(* that a channel finishes.  The functions of usbh_lld_stm32f4.c appear    *)
(* here only through the calls and returns the core sees; UsbhLld models   *)
(* the registers behind them and implements BusSpec.                       *)
(*                                                                         *)
(* Hardware assumed: a channel that was told to stop raises CHH and        *)
(* nothing else, no device answers at an address that is negative, and a   *)
(* port that was reset is either enabled or reports DISCINT.               *)
(***************************************************************************)
EXTENDS Integers

CONSTANTS
    Buses,             \* the low-level drivers given to usbh_init
    USBH_MAX_DEVICES,  \* device slots per bus
    num_channels,      \* host channels per bus
    NoPacket,          \* a free channel; nothing refused
    Halting            \* a channel that waits for CHH

Slot == 0 .. USBH_MAX_DEVICES - 1
Device == Buses \X Slot
Chan == Buses \X (0 .. num_channels - 1)

\* usbh_device[0] of a bus is the device in the root port.
Root(b) == <<b, 0>>

Kind == {"SETUP", "OUT", "IN", "STATUS"}
Callback == {"control_state_machine", "device_enumerate", "event"}
Status == {"OK", "ERRSIZ", "EAGAIN", "EFATAL"}
Address == -1 .. USBH_MAX_DEVICES

Packet == [dev : Device, address : Address, kind : Kind, callback : Callback]

ASSUME BusAssumption ==
    /\ USBH_MAX_DEVICES \in Nat \ {0}
    /\ num_channels \in Nat
    /\ NoPacket \notin Packet
    /\ Halting \notin Packet
    /\ NoPacket # Halting

VARIABLES
    dpstate,   \* DEVICE_POLL_STATE of each bus; DEVCONN counts as DISCONN
    channels,  \* what each channel carries
    refused    \* the packet whose EFATAL callback runs inside usbh_read/write

busVars == <<dpstate, channels, refused>>

PollState == {"DISCONN", "DEVRST", "RUN"}

BusTypeOK ==
    /\ dpstate \in [Buses -> PollState]
    /\ channels \in [Chan -> Packet \cup {NoPacket, Halting}]
    /\ refused \in Packet \cup {NoPacket}

BusInit ==
    /\ dpstate = [b \in Buses |-> "DISCONN"]
    /\ channels = [c \in Chan |-> NoPacket]
    /\ refused = NoPacket

-----------------------------------------------------------------------------
(* usbh_read and usbh_write.                                               *)

FreeChannels(b, chs) == {c \in Chan : c[1] = b /\ chs[c] = NoPacket}

\* Mutant: the callback is forgotten when there is no channel.
IssueSilently(p, chs) ==
    LET free == FreeChannels(p.dev[1], chs)
    IN  /\ refused' = NoPacket
        /\ \/ free = {} /\ channels' = chs
           \/ \E c \in free : channels' = [chs EXCEPT ![c] = p]

\* The packet goes to the lowest free channel of its bus.  Without one, the
\* callback runs at once with EFATAL, before the caller continues.
Issue(p, chs) ==
    LET free == FreeChannels(p.dev[1], chs)
    IN  \/ /\ free = {}
           /\ channels' = chs
           /\ refused' = p
        \/ \E c \in free :
              /\ \A e \in free : c[2] <= e[2]
              /\ channels' = [chs EXCEPT ![c] = p]
              /\ refused' = NoPacket

\* A callback that submits nothing.
NoIssue(chs) ==
    /\ channels' = chs
    /\ refused' = NoPacket

-----------------------------------------------------------------------------
(* What the poll of the low-level driver reports for a packet.             *)

\* Nobody answers at a negative address.
Answered(p, statuses) == IF p.address < 0 THEN {} ELSE statuses

\* A write: XFRC; NAK or TXERR; STALL or FRMOR.
WriteResponses(p) == Answered(p, {"OK"}) \cup {"EAGAIN", "EFATAL"}

\* A read: XFRC, and the length decides; STALL, BBERR or TXERR.  NAK only
\* restarts the channel.  The status stage asks for no data and has no length
\* to miss.
ReadResponses(p) ==
    Answered(p, IF p.kind = "IN" THEN {"OK", "ERRSIZ"} ELSE {"OK"}) \cup {"EFATAL"}

Responses(p) ==
    IF p.kind \in {"SETUP", "OUT"} THEN WriteResponses(p) ELSE ReadResponses(p)

\* Channel c may call back: poll_run reads HCINT of a working channel in
\* every poll state but DEVRST, where it returns first.
Answerable(c) ==
    /\ refused = NoPacket
    /\ channels[c] \in Packet
    /\ dpstate[c[1]] # "DEVRST"

\* free_channel: free at once, or only after CHH if CHENA is still set.
Released(c, left) == [channels EXCEPT ![c] = left]

\* CHH of a channel that was told to stop: free, and no callback.
ChannelHalted(c) ==
    /\ refused = NoPacket
    /\ channels[c] = Halting
    /\ dpstate[c[1]] # "DEVRST"
    /\ channels' = [channels EXCEPT ![c] = NoPacket]
    /\ UNCHANGED <<dpstate, refused>>

\* channels_init: every channel of b is freed or told to stop, and the
\* packets they carried are forgotten without a callback.
Flushed(b, stopping) ==
    [c \in Chan |-> IF c[1] # b THEN channels[c]
                    ELSE IF c \in stopping THEN Halting ELSE NoPacket]

Busy(b) == {c \in Chan : c[1] = b /\ channels[c] # NoPacket}

\* Mutant: the port is reset, the channels are not.
PortResetOnly(b) ==
    /\ refused = NoPacket
    /\ dpstate[b] = "DISCONN"
    /\ dpstate' = [dpstate EXCEPT ![b] = "DEVRST"]
    /\ UNCHANGED <<channels, refused>>

\* 500 ms after a connection was seen the channels are initialised and the
\* port is reset.
PortReset(b) ==
    /\ refused = NoPacket
    /\ dpstate[b] = "DISCONN"
    /\ dpstate' = [dpstate EXCEPT ![b] = "DEVRST"]
    /\ \E stopping \in SUBSET Busy(b) : channels' = Flushed(b, stopping)
    /\ UNCHANGED refused

\* The reset is over and the port enabled: poll returns DEVICE_CONNECTED.
\* The handler of the core decides channels' and refused'.
PortEnabled(b) ==
    /\ refused = NoPacket
    /\ dpstate[b] = "DEVRST"
    /\ dpstate' = [dpstate EXCEPT ![b] = "RUN"]

\* DISCINT: poll returns DEVICE_DISCONNECTED.  The channels are initialised
\* only when PCSTS says that the device is gone; after a mere voltage drop
\* the transfers stay alive.
PortGone(b) ==
    /\ refused = NoPacket
    /\ dpstate' = [dpstate EXCEPT ![b] = "DISCONN"]
    /\ \/ channels' = channels
       \/ \E stopping \in SUBSET Busy(b) : channels' = Flushed(b, stopping)
    /\ UNCHANGED refused

-----------------------------------------------------------------------------
(* The bus by itself, under a core that submits what it likes.             *)

\* A handler of the core runs, with the channels as they are at that point.
Calls(chs) == NoIssue(chs) \/ \E p \in Packet : Issue(p, chs)

Issues ==
    /\ refused = NoPacket
    /\ \E p \in Packet : Issue(p, channels)
    /\ UNCHANGED dpstate

CallsBack(c) ==
    /\ Answerable(c)
    /\ \E left \in {NoPacket, Halting} : Calls(Released(c, left))
    /\ UNCHANGED dpstate

Refuses ==
    /\ refused # NoPacket
    /\ Calls(channels)
    /\ UNCHANGED dpstate

BusNext ==
    \/ Issues
    \/ Refuses
    \/ \E c \in Chan : CallsBack(c) \/ ChannelHalted(c)
    \/ \E b \in Buses :
          \/ PortReset(b)
          \/ PortEnabled(b) /\ Calls(channels)
          \/ PortGone(b)

BusSpec == BusInit /\ [][BusNext]_busVars
=============================================================================
