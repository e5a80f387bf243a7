------------------------------- MODULE UsbhLld --------------------------------
(***************************************************************************)
(* One low-level driver of usbh_lld_stm32f4.c, down to the registers of    *)
(* the OTG core: the start-up sequence, the root port, the receive FIFO,   *)
(* and the channels with their interrupt bits, which poll_run looks at one *)
(* by one while the hardware goes on.  It implements UsbhBus.              *)
(*                                                                         *)
(* Time is left out: a pause ends at some poll.  Data toggles and bytes    *)
(* are left out too; the length of a read is counted in full packets.      *)
(*                                                                         *)
(* Hardware assumed: a NAK waits for CHENA to be written again; a channel  *)
(* that was told to stop raises CHH and nothing else; XFRC of a read       *)
(* follows its IN_COMP entry out of the FIFO, CHH its CHH entry; only      *)
(* leaving disables an enabled port, and leaving raises DISCINT; within    *)
(* the 210 ms after a reset the device is enabled or has left.             *)
(***************************************************************************)
EXTENDS Integers

CONSTANTS
    lld,                  \* this driver, among those given to usbh_init
    USBH_MAX_DEVICES, num_channels, NoPacket, Halting,   \* as in UsbhBus
    Packets,              \* the packets that the core submits
    datalen,              \* of a read, in full packets
    ResubmitAfterError,   \* a callback with EAGAIN or EFATAL may submit
    Bounces               \* a device may leave and be back before the driver has seen
                          \* it leave, in any poll state and not only in RUN

VARIABLES
    state,          \* enum DEVICE_STATE
    state_prev,
    poll_sequence,
    dpstate,        \* enum DEVICE_POLL_STATE
    channels,       \* state, packet and data_index of each channel
    hprt,           \* the bits of HPRT; enabling: the reset will enable the port
    discint,        \* DISCINT of GINTSTS
    hc,             \* HCCHAR and HCINT of each channel, and its entries in the RX FIFO
    visit,          \* where poll_run is: between polls, or in the loop over channels
    refused,        \* the packet whose EFATAL callback runs inside read or write
    owed,           \* history: channels whose packet has not been called back
    report          \* history: the status of the callback that ran last

portVars == <<state, state_prev, poll_sequence, dpstate, hprt, discint>>
chanVars == <<channels, hc, owed>>
vars == <<portVars, chanVars, visit, refused, report>>

Ch == 0 .. num_channels - 1

DEVICE_STATE == {"INIT", "RUN", "RESET"}
DEVICE_POLL_STATE == {"DISCONN", "DEVCONN", "DEVRST", "RUN"}
HCINT == {"NAK", "XFRC", "BBERR", "TXERR", "STALL", "CHH"}

\* The entries of the RX FIFO for one channel, which arrive in this order.
RxEntry == {"IN", "IN_COMP", "CHH"}

Free == [state |-> "FREE", packet |-> NoPacket, data_index |-> 0]

\* The channels as the core sees them: a packet until its callback or until it
\* is forgotten, then Halting until the channel can be given away again.
BusChannel(c) ==
    IF c \in owed THEN channels[c].packet
    ELSE IF channels[c].state = "FREE" /\ ~hc[c].chena THEN NoPacket ELSE Halting

Bus == INSTANCE UsbhBus
    WITH Buses <- {lld},
         channels <- [bc \in {lld} \X Ch |-> BusChannel(bc[2])],
         dpstate <- [b \in {lld} |->
                        IF dpstate = "DEVCONN" THEN "DISCONN" ELSE dpstate]

ASSUME LldAssumption ==
    /\ USBH_MAX_DEVICES \in Nat \ {0}
    /\ num_channels \in Nat
    /\ Packets \subseteq Bus!Packet
    /\ NoPacket \notin Bus!Packet
    /\ Halting \notin Bus!Packet
    /\ NoPacket # Halting
    /\ datalen \in Nat \ {0}
    /\ ResubmitAfterError \in BOOLEAN
    /\ Bounces \in BOOLEAN

LldTypeOK ==
    /\ state \in DEVICE_STATE
    /\ state_prev \in DEVICE_STATE
    /\ poll_sequence \in 0 .. 12
    /\ dpstate \in DEVICE_POLL_STATE
    /\ channels \in [Ch -> [state : {"FREE", "WORK"}, packet : Packets \cup {NoPacket},
                            data_index : 0 .. datalen]]
    /\ hprt \in [ppwr : BOOLEAN, pcsts : BOOLEAN, pcdet : BOOLEAN, pena : BOOLEAN,
                 penchng : BOOLEAN, prst : BOOLEAN, enabling : BOOLEAN]
    /\ discint \in BOOLEAN
    /\ hc \in [Ch -> [chena : BOOLEAN, chdis : BOOLEAN, posted : BOOLEAN,
                      hcint : SUBSET HCINT, rx : SUBSET RxEntry, sent : 0 .. datalen]]
    /\ visit \in [at : {"poll", "scan", "channel"}, channel : 0 .. num_channels,
                  bits : SUBSET HCINT]
    /\ refused \in Packets \cup {NoPacket}
    /\ owed \subseteq Ch
    /\ report \in Bus!Status \cup {"none"}

BetweenPolls == [at |-> "poll", channel |-> 0, bits |-> {}]

\* init, on channels and registers that are zero.
Init ==
    /\ state = "INIT"
    /\ state_prev = "INIT"
    /\ poll_sequence = 0
    /\ dpstate = "DISCONN"
    /\ channels = [c \in Ch |-> Free]
    /\ hprt = [ppwr |-> FALSE, pcsts |-> FALSE, pcdet |-> FALSE, pena |-> FALSE,
               penchng |-> FALSE, prst |-> FALSE, enabling |-> FALSE]
    /\ discint = FALSE
    /\ hc = [c \in Ch |-> [chena |-> FALSE, chdis |-> FALSE, posted |-> FALSE,
                           hcint |-> {}, rx |-> {}, sent |-> 0]]
    /\ visit = BetweenPolls
    /\ refused = NoPacket
    /\ owed = {}
    /\ report = "none"

-----------------------------------------------------------------------------
(* Channels.  chs, hs and os are the channels, their registers and those   *)
(* that owe a callback, at the point of the call.                          *)

\* The packet is kept, but nobody reads it again once the FIFO holds nothing
\* for the channel; it is dropped here then.
Unread(ch, h) == IF h.rx = {} THEN Free ELSE [ch EXCEPT !.state = "FREE"]

\* free_channel: a channel whose CHENA is set is told to stop and stays taken
\* until it is freed again for its CHH.
Freed(ch, h) == IF h.chena THEN ch ELSE Unread(ch, h)
Stopped(h) ==
    IF h.chena THEN [h EXCEPT !.chdis = TRUE, !.hcint = {}]
    ELSE IF h.rx = {} THEN [h EXCEPT !.sent = 0] ELSE h

\* channels_init: HCINT is cleared and every channel freed; no callback runs.
ChannelsInit(chs, hs) ==
    /\ channels' = [c \in Ch |-> Freed(chs[c], hs[c])]
    /\ hc' = [c \in Ch |-> [Stopped(hs[c]) EXCEPT !.hcint = {}]]
    /\ owed' = {}

\* What get_free_channel chooses from.
Available(chs, hs) == {c \in Ch : chs[c].state = "FREE" /\ ~hs[c].chena}

\* read and write.  The lowest channel is taken, its HCINT cleared, and HCCHAR
\* written with CHENA; without a channel the EFATAL callback runs at once.
Submit(p, chs, hs, os) ==
    LET free == Available(chs, hs)
    IN  \/ /\ free = {}
           /\ refused' = p
           /\ channels' = chs /\ hc' = hs /\ owed' = os
        \/ \E c \in free :
              /\ \A e \in free : c <= e
              /\ refused' = NoPacket
              /\ channels' = [chs EXCEPT ![c] = [state |-> "WORK", packet |-> p,
                                                 data_index |-> 0]]
              /\ hc' = [hs EXCEPT ![c] = [@ EXCEPT !.chena = TRUE, !.chdis = FALSE,
                                                   !.posted = TRUE, !.hcint = {}, !.sent = 0]]
              /\ owed' = os \cup {c}

SubmitNothing(chs, hs, os) ==
    /\ channels' = chs /\ hc' = hs /\ owed' = os
    /\ refused' = NoPacket

\* A handler of the core runs.
Calls(chs, hs, os) ==
    SubmitNothing(chs, hs, os) \/ \E p \in Packets : Submit(p, chs, hs, os)

-----------------------------------------------------------------------------
(* rxflvl_handle, until the RX FIFO is empty.                              *)

DataIndex(c) == channels[c].data_index + IF "IN" \in hc[c].rx THEN 1 ELSE 0

\* Mutant: the channel is not enabled again.
NothingMore(c) == FALSE

\* A packet of full size that does not complete the read.
WantsMore(c) == "IN" \in hc[c].rx /\ DataIndex(c) < datalen

ReceivedChannels == [c \in Ch |-> [channels[c] EXCEPT !.data_index = DataIndex(c)]]

\* Data are copied and counted, and CHENA is written again for more; the
\* entries IN_COMP and CHH leave their bits in HCINT.
ReceivedRegisters ==
    [c \in Ch |->
        [hc[c] EXCEPT
            !.rx = {},
            !.chena = @ \/ WantsMore(c),
            !.posted = @ \/ WantsMore(c),
            !.hcint = @ \cup {bit \in {"XFRC", "CHH"} :
                                 (IF bit = "XFRC" THEN "IN_COMP" ELSE "CHH") \in hc[c].rx}]]

-----------------------------------------------------------------------------
(* poll, up to the loop over the channels.                                 *)

Idle == visit = BetweenPolls /\ refused = NoPacket

\* The core submits between two polls of this driver; only a device whose port
\* is up has a driver that does (DriverOnlyWhenSettled of UsbhCore).
CoreSubmits ==
    /\ Idle
    /\ dpstate = "RUN"
    /\ \E p \in Packets : Submit(p, channels, hc, owed)
    /\ report' = "none"
    /\ UNCHANGED <<portVars, visit>>

\* Mutant: one step late.
PollInitLate ==
    /\ Idle /\ state = "INIT"
    /\ poll_sequence' = poll_sequence + 1
    /\ IF poll_sequence = 12 THEN state' = "RUN" /\ dpstate' = "DISCONN"
       ELSE UNCHANGED <<state, dpstate>>
    /\ report' = "none"
    /\ UNCHANGED <<state_prev, hprt, discint, chanVars, visit, refused>>

\* poll_init.  Each step waits for a flag or for a pause; those that touch
\* only clocks, FIFO sizes or the PHY do nothing else here.
PollInit ==
    /\ Idle /\ state = "INIT"
    /\ poll_sequence' = poll_sequence + 1
    /\ hprt' = CASE poll_sequence = 6 -> [hprt EXCEPT !.prst = TRUE]
                 [] poll_sequence = 7 -> [hprt EXCEPT !.prst = FALSE]
                 [] poll_sequence = 10 -> [hprt EXCEPT !.ppwr = TRUE]
                 [] OTHER -> hprt
    /\ IF poll_sequence = 10 THEN ChannelsInit(channels, hc) ELSE UNCHANGED chanVars
    /\ IF poll_sequence = 11 THEN state' = "RUN" /\ dpstate' = "DISCONN"
       ELSE UNCHANGED <<state, dpstate>>
    /\ report' = "none"
    /\ UNCHANGED <<state_prev, discint, visit, refused>>

\* A write to HPRT clears what it reads as set: PCDET and PENCHNG, and PENA
\* too unless the code masks it.
Written(h) == [h EXCEPT !.pcdet = FALSE, !.penchng = FALSE]

\* Mutant: the reset condition is not taken away.
PollResetKeepsReset ==
    /\ Idle /\ state = "RESET"
    /\ hprt' = [Written(hprt) EXCEPT !.pena = FALSE]
    /\ state' = state_prev
    /\ state_prev' = "RESET"
    /\ report' = "none"
    /\ UNCHANGED <<poll_sequence, dpstate, discint, chanVars, visit, refused>>

\* poll_reset, when the 10 ms are over.
PollReset ==
    /\ Idle /\ state = "RESET"
    /\ hprt' = [Written(hprt) EXCEPT !.pena = FALSE, !.prst = FALSE,
                                     !.enabling = hprt.pcsts]
    /\ state' = state_prev
    /\ state_prev' = "RESET"
    /\ report' = "none"
    /\ UNCHANGED <<poll_sequence, dpstate, discint, chanVars, visit, refused>>

\* The part of poll_run that follows the poll states: the RX FIFO, then the
\* port.  dp is the poll state and disc the DISCINT bit at this point.
PortChanges(dp, disc) ==
    /\ UNCHANGED <<state, state_prev, poll_sequence>>
    /\ report' = "none"
    /\ IF hprt.penchng /\ hprt.pena
       THEN \* USBH_POLL_STATUS_DEVICE_CONNECTED
            /\ hprt' = Written(hprt)
            /\ dpstate' = dp /\ discint' = disc
            /\ Calls(ReceivedChannels, ReceivedRegisters, owed)
            /\ UNCHANGED visit
       ELSE /\ hprt' = IF hprt.penchng THEN Written(hprt) ELSE hprt
            /\ discint' = FALSE
            /\ UNCHANGED refused
            /\ IF disc
               THEN \* USBH_POLL_STATUS_DEVICE_DISCONNECTED
                    /\ dpstate' = "DISCONN"
                    /\ IF hprt.pcsts
                       THEN channels' = ReceivedChannels /\ hc' = ReceivedRegisters
                                                         /\ UNCHANGED owed
                       ELSE ChannelsInit(ReceivedChannels, ReceivedRegisters)
                    /\ UNCHANGED visit
               ELSE /\ dpstate' = dp
                    /\ channels' = ReceivedChannels /\ hc' = ReceivedRegisters
                    /\ UNCHANGED owed
                    /\ visit' = [visit EXCEPT !.at = "scan"]

\* The interrupts of GINTSTS are cleared, DISCINT among them.
PollDisconn ==
    /\ Idle /\ state = "RUN" /\ dpstate = "DISCONN"
    /\ IF hprt.pcdet /\ hprt.pcsts
       THEN /\ dpstate' = "DEVCONN"
            /\ discint' = FALSE
            /\ report' = "none"
            /\ UNCHANGED <<state, state_prev, poll_sequence, hprt, chanVars, visit, refused>>
       ELSE PortChanges("DISCONN", FALSE)

\* Mutant: the port is reset beside the channels.
PollDevconnKeepsChannels ==
    /\ Idle /\ state = "RUN" /\ dpstate = "DEVCONN"
    /\ IF hprt.pcdet /\ hprt.pcsts
       THEN /\ dpstate' = "DEVRST"
            /\ hprt' = [Written(hprt) EXCEPT !.pena = FALSE, !.prst = TRUE]
            /\ state_prev' = state /\ state' = "RESET"
            /\ report' = "none"
            /\ UNCHANGED <<poll_sequence, discint, visit, refused, chanVars>>
       ELSE PortChanges("DEVCONN", discint)

\* When the 500 ms are over: channels_init, and reset_start.
PollDevconn ==
    /\ Idle /\ state = "RUN" /\ dpstate = "DEVCONN"
    /\ IF hprt.pcdet /\ hprt.pcsts
       THEN /\ ChannelsInit(channels, hc)
            /\ dpstate' = "DEVRST"
            /\ hprt' = [Written(hprt) EXCEPT !.pena = FALSE, !.prst = TRUE]
            /\ state_prev' = state /\ state' = "RESET"
            /\ report' = "none"
            /\ UNCHANGED <<poll_sequence, discint, visit, refused>>
       ELSE PortChanges("DEVCONN", discint)

\* When the 210 ms are over.
PollDevrst ==
    /\ Idle /\ state = "RUN" /\ dpstate = "DEVRST"
    /\ hprt.pena \/ discint
    /\ PortChanges("RUN", discint)

PollRun ==
    /\ Idle /\ state = "RUN" /\ dpstate = "RUN"
    /\ PortChanges("RUN", discint)

-----------------------------------------------------------------------------
(* poll_run: the loop over the channels.                                   *)

Signals(c) == channels[c].state = "WORK" /\ hc[c].hcint # {}

\* The next channel that works and has a bit in HAINT; its HCINT is read once.
ScanChannel(c) ==
    /\ visit.at = "scan" /\ refused = NoPacket
    /\ c >= visit.channel
    /\ Signals(c)
    /\ \A e \in visit.channel .. c - 1 : ~Signals(e)
    /\ visit' = [at |-> "channel", channel |-> c, bits |-> hc[c].hcint]
    /\ report' = "none"
    /\ UNCHANGED <<portVars, chanVars, refused>>

ScanEnds ==
    /\ visit.at = "scan" /\ refused = NoPacket
    /\ \A c \in visit.channel .. num_channels - 1 : ~Signals(c)
    /\ visit' = BetweenPolls
    /\ report' = "none"
    /\ UNCHANGED <<portVars, chanVars, refused>>

Writing(p) == p.kind \in {"SETUP", "OUT"}

\* The order in which the bits are tested, for both directions.
Earlier(bit) ==
    CASE bit = "NAK" -> {}
      [] bit = "XFRC" -> {"NAK"}
      [] bit = "BBERR" -> {"NAK", "XFRC"}
      [] bit = "TXERR" -> {"NAK", "XFRC", "BBERR"}
      [] bit = "STALL" -> {"NAK", "XFRC", "BBERR", "TXERR"}
      [] bit = "CHH" -> HCINT \ {"CHH"}

\* The bits still to be tested; XFRC goes on to the next channel.
AfterBit(bit) ==
    LET c == visit.channel
        rest == visit.bits \ {bit}
    IN  IF bit = "XFRC" \/ rest = {}
        THEN [at |-> "scan", channel |-> c + 1, bits |-> {}]
        ELSE [visit EXCEPT !.bits = rest]

Length(ch) == IF ch.packet.kind = "IN" THEN datalen ELSE 0

\* Mutant: a read is whole whatever came.
StatusUnmeasured(ch, bit) == IF bit = "XFRC" THEN "OK" ELSE "EFATAL"

\* The status of the callback for a bit.
StatusOf(ch, bit) ==
    CASE bit = "XFRC" -> IF Writing(ch.packet) \/ ch.data_index = Length(ch)
                         THEN "OK" ELSE "ERRSIZ"
      [] bit \in {"NAK", "TXERR"} -> IF Writing(ch.packet) THEN "EAGAIN" ELSE "EFATAL"
      [] OTHER -> "EFATAL"

Tested(bit) ==
    /\ visit.at = "channel" /\ refused = NoPacket
    /\ bit \in visit.bits
    /\ Earlier(bit) \cap visit.bits = {}
    /\ visit' = AfterBit(bit)
    /\ UNCHANGED portVars

Cleared(bit) == [hc[visit.channel] EXCEPT !.hcint = @ \ {bit}]

\* A bit that ends the packet: the channel is freed before the callback, which
\* may take it again.
PacketEnds(bit) ==
    LET c == visit.channel
        ch == channels[c]
        chs == [channels EXCEPT ![c] = Freed(ch, hc[c])]
        hs == [hc EXCEPT ![c] = Stopped(Cleared(bit))]
    IN  /\ Tested(bit)
        /\ bit \in HCINT \ {"NAK", "CHH"} \/ (bit = "NAK" /\ Writing(ch.packet))
        /\ report' = StatusOf(ch, bit)
        /\ IF bit = "XFRC" \/ ResubmitAfterError
           THEN Calls(chs, hs, owed \ {c})
           ELSE SubmitNothing(chs, hs, owed \ {c})

\* NAK of a read: the device has nothing yet, and is asked again.
ReadNak ==
    LET c == visit.channel
    IN  /\ Tested("NAK")
        /\ ~Writing(channels[c].packet)
        /\ hc' = [hc EXCEPT ![c] = [Cleared("NAK") EXCEPT !.chena = TRUE,
                                                          !.posted = TRUE]]
        /\ report' = "none"
        /\ UNCHANGED <<channels, owed, refused>>

\* CHH: the channel is freed, now or once more; nobody is called.
ChannelHalted ==
    LET c == visit.channel
    IN  /\ Tested("CHH")
        /\ channels' = [channels EXCEPT ![c] = Freed(@, hc[c])]
        /\ hc' = [hc EXCEPT ![c] = Stopped(Cleared("CHH"))]
        /\ report' = "none"
        /\ UNCHANGED <<owed, refused>>

\* The callback of a packet that found no channel, inside read or write.
Refusal ==
    /\ refused # NoPacket
    /\ IF ResubmitAfterError THEN Calls(channels, hc, owed)
       ELSE SubmitNothing(channels, hc, owed)
    /\ report' = "EFATAL"
    /\ UNCHANGED <<portVars, visit>>

-----------------------------------------------------------------------------
(* The hardware: the port.                                                 *)

Attach ==
    /\ hprt.ppwr /\ ~hprt.pcsts
    /\ discint => Bounces \/ dpstate = "RUN"
    /\ hprt' = [hprt EXCEPT !.pcsts = TRUE, !.pcdet = TRUE]
    /\ report' = "none"
    /\ UNCHANGED <<state, state_prev, poll_sequence, dpstate, discint, chanVars, visit, refused>>

Detach ==
    /\ hprt.pcsts
    /\ hprt' = [hprt EXCEPT !.pcsts = FALSE, !.pena = FALSE, !.enabling = FALSE,
                            !.penchng = @ \/ hprt.pena]
    /\ discint' = TRUE
    /\ report' = "none"
    /\ UNCHANGED <<state, state_prev, poll_sequence, dpstate, chanVars, visit, refused>>

\* The reset is over for the hardware as well.
Enabled ==
    /\ hprt.enabling
    /\ hprt' = [hprt EXCEPT !.enabling = FALSE, !.pena = TRUE, !.penchng = TRUE]
    /\ report' = "none"
    /\ UNCHANGED <<state, state_prev, poll_sequence, dpstate, discint, chanVars, visit, refused>>

-----------------------------------------------------------------------------
(* The hardware: the channels.                                             *)

Hardware(c, h) ==
    /\ hc' = [hc EXCEPT ![c] = h]
    /\ report' = "none"
    /\ UNCHANGED <<portVars, channels, owed, visit, refused>>

\* A transaction that was asked for and that nobody has stopped.
Running(c) == hc[c].chena /\ hc[c].posted /\ ~hc[c].chdis

\* The device answers NAK, and the channel waits to be enabled again or freed.
Naks(c) ==
    /\ Running(c) /\ hprt.pena
    /\ Hardware(c, [hc[c] EXCEPT !.posted = FALSE, !.hcint = @ \cup {"NAK"}])

\* A write is taken by the device.  The channel may halt by itself.
Accepts(c) ==
    /\ Running(c) /\ hprt.pena
    /\ Writing(channels[c].packet) /\ channels[c].packet.address >= 0
    /\ \E bits \in {{"XFRC"}, {"XFRC", "CHH"}} :
          Hardware(c, [hc[c] EXCEPT !.posted = FALSE, !.chena = "CHH" \notin bits,
                                    !.hcint = @ \cup bits])

\* A packet of full size for a read that asks for data; the last one completes it.
DataArrive(c) ==
    LET sent == hc[c].sent + 1
    IN  /\ Running(c) /\ hprt.pena
        /\ channels[c].packet.kind = "IN" /\ channels[c].packet.address >= 0
        /\ sent <= datalen
        /\ \E entries \in IF sent = datalen THEN {{"IN", "IN_COMP"}, {"IN", "IN_COMP", "CHH"}}
                          ELSE {{"IN"}} :
              Hardware(c, [hc[c] EXCEPT !.posted = FALSE, !.sent = sent,
                                        !.chena = "CHH" \notin entries, !.rx = entries])

\* A short packet, or the empty one of a status stage, completes a read.
ShortArrives(c) ==
    /\ Running(c) /\ hprt.pena
    /\ ~Writing(channels[c].packet) /\ channels[c].packet.address >= 0
    /\ \E entries \in {{"IN_COMP"}, {"IN_COMP", "CHH"}} :
          Hardware(c, [hc[c] EXCEPT !.posted = FALSE, !.chena = "CHH" \notin entries,
                                    !.rx = entries])

\* The transaction fails; a babble can only be received.
Fails(c) ==
    /\ Running(c)
    /\ \E error \in (IF hprt.pena THEN {"STALL", "TXERR"} ELSE {"TXERR"})
                       \cup (IF Writing(channels[c].packet) \/ ~hprt.pena THEN {} ELSE {"BBERR"}) :
          \E bits \in {{error}, {error, "CHH"}} :
              Hardware(c, [hc[c] EXCEPT !.posted = FALSE, !.chena = "CHH" \notin bits,
                                        !.hcint = @ \cup bits])

\* A channel that was told to stop does so.
Halts(c) ==
    /\ hc[c].chena /\ hc[c].chdis
    /\ LET h == [hc[c] EXCEPT !.chena = FALSE, !.chdis = FALSE, !.posted = FALSE]
       IN  Hardware(c, IF Writing(channels[c].packet)
                       THEN [h EXCEPT !.hcint = @ \cup {"CHH"}]
                       ELSE [h EXCEPT !.rx = @ \cup {"CHH"}])

-----------------------------------------------------------------------------
Poll ==
    \/ PollInit \/ PollReset
    \/ PollDisconn \/ PollDevconn \/ PollDevrst \/ PollRun
    \/ \E c \in Ch : ScanChannel(c)
    \/ ScanEnds
    \/ \E bit \in HCINT : PacketEnds(bit)
    \/ ReadNak
    \/ ChannelHalted

Answers(c) == Accepts(c) \/ DataArrive(c) \/ ShortArrives(c) \/ Fails(c)

Next ==
    \/ Poll
    \/ Refusal
    \/ CoreSubmits
    \/ Attach \/ Detach \/ Enabled
    \/ \E c \in Ch : Naks(c) \/ Answers(c) \/ Halts(c)

Spec == Init /\ [][Next]_vars

\* The main loop polls for ever, whatever the core submits between two polls,
\* and the pauses of the code end; a device does not answer NAK for ever; a
\* channel told to stop stops; a reset ends.
Fairness ==
    /\ SF_vars(Poll)
    /\ WF_vars(Refusal)
    /\ WF_vars(Enabled)
    /\ \A c \in Ch : SF_vars(Answers(c)) /\ WF_vars(Halts(c))

FairSpec == Spec /\ Fairness

-----------------------------------------------------------------------------
(* Properties.                                                             *)

\* The driver is the bus that the core is written for: a channel carries its
\* packet until the callback, a channel that was told to stop calls nobody and
\* is not given away before it has stopped, packets are forgotten only when
\* the port is reset or the device has left, and nothing is called back while
\* the port is in reset.
ImplementsBus == Bus!BusSpec

\* A read is reported with OK only if the device sent all that was asked for, and
\* with ERRSIZ only if it sent less; a status is reported only for a packet that
\* can end with it.
ReportsAreTrue ==
    [][visit.at = "channel" /\ report' # "none" /\ refused = NoPacket =>
          LET p == channels[visit.channel].packet
              sent == hc[visit.channel].sent
          IN  /\ report' \in Bus!Responses(p)
              /\ p.kind = "IN" => /\ report' = "OK" => sent = datalen
                                  /\ report' = "ERRSIZ" => sent < datalen]_vars

CalledBack(c) == visit.at = "channel" /\ visit.channel = c /\ report' # "none"

\* No channel is lost: it is called back again and again, or it can be given
\* away again - whatever the port does, after NAKs, reads in several pieces,
\* and stops.  Only a packet that outlives its port may stay in its channel.
ChannelComesBack ==
    \A c \in Ch :
        \/ []<>(c \in Available(channels, hc) \/ (c \in owed /\ dpstate # "RUN"))
        \/ []<><<CalledBack(c)>>_vars

\* The pause of 500 ms is for a connection to become steady: a device that
\* stays attached from its end on is connected, and stays connected.
SteadyIsConnected ==
    []((dpstate = "DEVRST" /\ [](hprt.pcsts)) => <>[](dpstate = "RUN"))
=============================================================================
