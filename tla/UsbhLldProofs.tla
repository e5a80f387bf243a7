----------------------------- MODULE UsbhLldProofs -----------------------------
(***************************************************************************)
(* The properties of UsbhLld, for any number of channels, any packets and  *)
(* any length of a read, and the proof that it implements UsbhBus.         *)
(*                                                                         *)
(* They are proved for a device that is seen to leave before it is back,   *)
(* and for callbacks that submit nothing when their packet has failed:     *)
(* ~Bounces and ~ResubmitAfterError.                                       *)
(***************************************************************************)
EXTENDS UsbhLld, TLAPS

-----------------------------------------------------------------------------
(* The inductive invariant.                                                *)

\* The port and the sequence of the driver: no port is enabled but by the
\* reset that the driver made, and a device that left is not back before the
\* driver has seen it, unless its port was up.
PortInv ==
    /\ state = "INIT" => dpstate = "DISCONN" /\ poll_sequence <= 11
    /\ state = "RESET" => dpstate = "DEVRST" /\ state_prev = "RUN" /\ ~hprt.enabling
                            /\ ~hprt.pena
    /\ dpstate \in {"DISCONN", "DEVCONN"} => ~hprt.pena
    /\ hprt.enabling => dpstate = "DEVRST" /\ ~hprt.pena
    /\ discint => ~hprt.pena /\ ~hprt.enabling
    /\ discint /\ dpstate # "RUN" => ~hprt.pcsts

\* What poll_run holds while callbacks and the hardware go on: the bits that it
\* read belong to the packet that is still owed, or only CHH is left of them.
VisitInv ==
    /\ visit.at = "poll" => visit = BetweenPolls
    /\ visit.at # "poll" => state = "RUN" /\ dpstate # "DEVRST"
    /\ visit.at = "channel" =>
          /\ visit.channel \in Ch
          /\ IF visit.channel \in owed THEN visit.bits = hc[visit.channel].hcint
             ELSE /\ visit.bits = {"CHH"}
                  /\ ~hc[visit.channel].chena /\ hc[visit.channel].rx = {}
          /\ visit.bits # {}

\* What the FIFO holds for a read, and what HCINT tells of a packet.
Arrivals == {{"IN"}, {"IN", "IN_COMP"}, {"IN", "IN_COMP", "CHH"},
             {"IN_COMP"}, {"IN_COMP", "CHH"}}
Outcomes == {{"NAK"}} \cup {{e} : e \in {"XFRC", "BBERR", "TXERR", "STALL"}}
                      \cup {{e, "CHH"} : e \in {"XFRC", "BBERR", "TXERR", "STALL"}}

\* A channel with a packet that is owed a callback: the transaction was asked
\* for, or data wait in the FIFO, or HCINT tells of its end - just one of them.
Posted(h) == h.posted /\ h.chena /\ h.hcint = {} /\ h.rx = {}

Arrived(ch, h) ==
    /\ ~h.posted /\ h.hcint = {} /\ h.rx \in Arrivals
    /\ ~Writing(ch.packet) /\ ch.packet.address >= 0
    /\ "IN" \in h.rx => ("IN_COMP" \in h.rx <=> h.sent = datalen)
    /\ "CHH" \in h.rx => ~h.chena

Ended(ch, h) ==
    /\ ~h.posted /\ h.rx = {} /\ h.hcint \in Outcomes
    /\ "XFRC" \in h.hcint => ch.packet.address >= 0
    /\ "CHH" \in h.hcint => ~h.chena

Asked(ch, h) ==
    /\ ch.state = "WORK" /\ ch.packet \in Packets /\ ~h.chdis
    /\ h.sent = ch.data_index + IF "IN" \in h.rx THEN 1 ELSE 0
    /\ ch.packet.kind # "IN" => h.sent = 0
    /\ Posted(h) \/ Arrived(ch, h) \/ Ended(ch, h)

\* A channel that owes nothing: whatever runs was told to stop, and only CHH
\* comes of it, once, when it has.
Quiet(ch, h) ==
    /\ h.chena => h.chdis /\ ch.state = "WORK" /\ h.rx = {} /\ h.hcint = {}
    /\ h.rx \subseteq {"CHH"}
    /\ h.hcint \subseteq {"CHH"}
    /\ h.rx = {} \/ h.hcint = {}

\* The channels, their registers and those that owe a callback, as they are
\* between two steps or at a call within one.
ChannelRec == [state : {"FREE", "WORK"}, packet : Packets \cup {NoPacket},
               data_index : 0 .. datalen]
RegisterRec == [chena : BOOLEAN, chdis : BOOLEAN, posted : BOOLEAN,
                hcint : SUBSET HCINT, rx : SUBSET RxEntry, sent : 0 .. datalen]

Typed(chs, hs, os) ==
    chs \in [Ch -> ChannelRec] /\ hs \in [Ch -> RegisterRec] /\ os \subseteq Ch

Sound(chs, hs, os) ==
    \A c \in Ch : IF c \in os THEN Asked(chs[c], hs[c]) ELSE Quiet(chs[c], hs[c])

ChannelsInv == Sound(channels, hc, owed)

\* The FIFO holds nothing for a channel that can be given away.
FreeUnread(chs, hs) == \A c \in Ch : chs[c].state = "FREE" => hs[c].rx = {}

\* When the FIFO may hold something: not for a free channel, except in a reset;
\* no data while the port is down.
FifoInv ==
    /\ dpstate # "DEVRST" => FreeUnread(channels, hc)
    /\ dpstate = "DEVRST" => owed = {}
    /\ dpstate \in {"DISCONN", "DEVCONN"} => \A c \in owed : hc[c].rx = {}
    /\ state = "INIT" => \A c \in Ch : channels[c].state = "FREE"

LldInv == LldTypeOK /\ PortInv /\ VisitInv /\ ChannelsInv /\ FifoInv

-----------------------------------------------------------------------------
(* One channel.                                                            *)

LEMMA FreedQuiet ==
    ASSUME NEW ch \in ChannelRec, NEW h \in RegisterRec,
           h.rx \subseteq {"CHH"}, h.hcint \subseteq {"CHH"} \/ h.chena,
           h.rx = {} \/ (h.hcint = {} /\ ~h.chena),
           h.chena => ch.state = "WORK"
    PROVE  /\ Freed(ch, h) \in ChannelRec
           /\ Stopped(h) \in RegisterRec
           /\ Quiet(Freed(ch, h), Stopped(h))
           /\ Stopped(h).rx = h.rx
<1>1. CASE h.chena
  <2>1. Freed(ch, h) = ch /\ Stopped(h) = [h EXCEPT !.chdis = TRUE, !.hcint = {}]
    BY <1>1 DEF Freed, Stopped
  <2> QED
    BY <1>1, <2>1 DEF Quiet, RegisterRec
<1>2. CASE ~h.chena
  <2>1. Freed(ch, h) \in ChannelRec
    BY <1>2, LldAssumption DEF Freed, Unread, Free, ChannelRec
  <2>2. Stopped(h) \in RegisterRec /\ Stopped(h).rx = h.rx /\ ~Stopped(h).chena
                                  /\ Stopped(h).hcint = h.hcint
    BY <1>2, LldAssumption DEF Stopped, RegisterRec
  <2> QED
    BY <1>2, <2>1, <2>2 DEF Quiet
<1> QED
  BY <1>1, <1>2

\* A channel after the FIFO has been read, field by field.
LEMMA ReceivedFields ==
    ASSUME NEW c \in Ch, channels[c] \in ChannelRec, hc[c] \in RegisterRec
    PROVE  LET ch == ReceivedChannels[c]
               h == ReceivedRegisters[c]
           IN  /\ ch.state = channels[c].state
               /\ ch.packet = channels[c].packet
               /\ ch.data_index = DataIndex(c)
               /\ h.rx = {}
               /\ h.chena = (hc[c].chena \/ WantsMore(c))
               /\ h.posted = (hc[c].posted \/ WantsMore(c))
               /\ h.chdis = hc[c].chdis
               /\ h.sent = hc[c].sent
               /\ h.hcint = hc[c].hcint
                      \cup (IF "IN_COMP" \in hc[c].rx THEN {"XFRC"} ELSE {})
                      \cup (IF "CHH" \in hc[c].rx THEN {"CHH"} ELSE {})
               /\ ch \in ChannelRec <=> DataIndex(c) \in 0 .. datalen
               /\ h \in RegisterRec
<1> DEFINE bits == {bit \in {"XFRC", "CHH"} :
                       (IF bit = "XFRC" THEN "IN_COMP" ELSE "CHH") \in hc[c].rx}
           ch == [channels[c] EXCEPT !.data_index = DataIndex(c)]
           h == [hc[c] EXCEPT !.rx = {},
                              !.chena = @ \/ WantsMore(c),
                              !.posted = @ \/ WantsMore(c),
                              !.hcint = @ \cup bits]
<1>1. ReceivedChannels[c] = ch /\ ReceivedRegisters[c] = h
  BY DEF ReceivedChannels, ReceivedRegisters
<1>2. bits = (IF "IN_COMP" \in hc[c].rx THEN {"XFRC"} ELSE {})
                 \cup (IF "CHH" \in hc[c].rx THEN {"CHH"} ELSE {})
  OBVIOUS
<1>3. /\ ch.state = channels[c].state /\ ch.packet = channels[c].packet
      /\ ch.data_index = DataIndex(c)
      /\ ch \in ChannelRec <=> DataIndex(c) \in 0 .. datalen
  BY DEF ChannelRec
<1>4. WantsMore(c) \in BOOLEAN /\ bits \subseteq HCINT
  BY DEF WantsMore, HCINT
<1>5. /\ h.rx = {} /\ h.chena = (hc[c].chena \/ WantsMore(c))
      /\ h.posted = (hc[c].posted \/ WantsMore(c))
      /\ h.chdis = hc[c].chdis /\ h.sent = hc[c].sent
      /\ h.hcint = hc[c].hcint \cup bits
  <2> HIDE DEF bits
  <2> QED
    BY DEF RegisterRec
<1>6. h \in RegisterRec
  <2> HIDE DEF bits
  <2> QED
    BY <1>4 DEF RegisterRec
<1> QED
  BY <1>1, <1>2, <1>3, <1>5, <1>6

\* The FIFO moves a packet on: nothing waits in it any more, and a channel that
\* owed a callback has asked for more data or knows its end.
LEMMA ReceivedOwed ==
    ASSUME NEW c \in Ch, channels[c] \in ChannelRec, hc[c] \in RegisterRec,
           Asked(channels[c], hc[c])
    PROVE  /\ ReceivedChannels[c] \in ChannelRec
           /\ Asked(ReceivedChannels[c], ReceivedRegisters[c])
           /\ ReceivedChannels[c].packet = channels[c].packet
<1> DEFINE ch == ReceivedChannels[c]
           h == ReceivedRegisters[c]
<1>1. DataIndex(c) = hc[c].sent /\ hc[c].sent \in 0 .. datalen
  BY DEF DataIndex, Asked, RegisterRec
<1>2. ch \in ChannelRec /\ ch.state = "WORK" /\ ch.packet = channels[c].packet
      /\ ch.data_index = h.sent /\ h.sent = hc[c].sent /\ h.rx = {} /\ ~h.chdis
      /\ ch.packet \in Packets
  BY <1>1, ReceivedFields DEF Asked
<1>3. ch.packet.kind # "IN" => h.sent = 0
  BY <1>2 DEF Asked
<1>4. h.sent = ch.data_index + IF "IN" \in h.rx THEN 1 ELSE 0
  BY <1>1, <1>2, LldAssumption
<1>5. Posted(h) \/ Ended(ch, h)
  <2>1. CASE hc[c].rx = {}
    <3>1. ~WantsMore(c)
      BY <2>1 DEF WantsMore
    <3>2. h.posted = hc[c].posted /\ h.chena = hc[c].chena /\ h.hcint = hc[c].hcint
      BY <2>1, <3>1, ReceivedFields DEF RegisterRec
    <3>3. Posted(hc[c]) \/ Ended(channels[c], hc[c])
      BY <2>1 DEF Asked, Arrived, Arrivals
    <3> QED
      BY <1>2, <3>2, <3>3 DEF Posted, Ended
  <2>2. CASE hc[c].rx # {}
    <3>1. Arrived(channels[c], hc[c])
      BY <2>2 DEF Asked, Posted, Ended
    <3>2. CASE hc[c].rx = {"IN"}
      <4>1. WantsMore(c)
        <5>1. "IN" \in hc[c].rx /\ hc[c].sent # datalen
          BY <3>1, <3>2 DEF Arrived
        <5> QED
          BY <1>1, <5>1, LldAssumption DEF WantsMore
      <4> QED
        BY <1>2, <3>1, <3>2, <4>1, ReceivedFields DEF Posted, Arrived
    <3>3. CASE "IN_COMP" \in hc[c].rx
      <4>1. ~WantsMore(c)
        <5>1. "IN" \in hc[c].rx => hc[c].sent = datalen
          BY <3>1, <3>3 DEF Arrived
        <5> QED
          BY <1>1, <5>1, LldAssumption DEF WantsMore
      <4>2. ~h.posted /\ h.hcint \in {{"XFRC"}, {"XFRC", "CHH"}}
        BY <3>1, <3>3, <4>1, ReceivedFields DEF Arrived, RegisterRec
      <4>3. "CHH" \in h.hcint => ~h.chena
        <5>1. "CHH" \in h.hcint => "CHH" \in hc[c].rx
          BY <3>1, ReceivedFields DEF Arrived
        <5>2. h.chena = hc[c].chena
          BY <4>1, ReceivedFields DEF RegisterRec
        <5> QED
          BY <3>1, <5>1, <5>2 DEF Arrived
      <4> QED
        BY <1>2, <3>1, <4>2, <4>3 DEF Ended, Outcomes, Arrived
    <3> QED
      BY <3>1, <3>2, <3>3 DEF Arrived, Arrivals
  <2> QED
    BY <2>1, <2>2
<1> QED
  BY <1>2, <1>3, <1>4, <1>5 DEF Asked

LEMMA ReceivedQuiet ==
    ASSUME NEW c \in Ch, channels[c] \in ChannelRec, hc[c] \in RegisterRec,
           Quiet(channels[c], hc[c])
    PROVE  /\ ReceivedChannels[c] \in ChannelRec
           /\ Quiet(ReceivedChannels[c], ReceivedRegisters[c])
           /\ ReceivedRegisters[c].chena = hc[c].chena
<1>1. ~WantsMore(c) /\ DataIndex(c) = channels[c].data_index + 0
  BY DEF Quiet, WantsMore, DataIndex
<1>2. DataIndex(c) \in 0 .. datalen
  BY <1>1, LldAssumption DEF ChannelRec
<1>3. ReceivedRegisters[c].chena = hc[c].chena
  BY <1>1, ReceivedFields DEF RegisterRec
<1> QED
  BY <1>2, <1>3, ReceivedFields DEF Quiet

LEMMA ReceivedSound ==
    ASSUME Typed(channels, hc, owed), Sound(channels, hc, owed)
    PROVE  /\ Typed(ReceivedChannels, ReceivedRegisters, owed)
           /\ Sound(ReceivedChannels, ReceivedRegisters, owed)
           /\ \A c \in Ch : ReceivedRegisters[c].rx = {}
           /\ \A c \in Ch : ReceivedChannels[c].state = channels[c].state
<1> SUFFICES ASSUME NEW c \in Ch
             PROVE  /\ ReceivedChannels[c] \in ChannelRec
                    /\ ReceivedRegisters[c] \in RegisterRec
                    /\ IF c \in owed
                       THEN Asked(ReceivedChannels[c], ReceivedRegisters[c])
                       ELSE Quiet(ReceivedChannels[c], ReceivedRegisters[c])
                    /\ ReceivedRegisters[c].rx = {}
                    /\ ReceivedChannels[c].state = channels[c].state
  BY DEF Typed, Sound, ReceivedChannels, ReceivedRegisters
<1>1. channels[c] \in ChannelRec /\ hc[c] \in RegisterRec
      /\ IF c \in owed THEN Asked(channels[c], hc[c]) ELSE Quiet(channels[c], hc[c])
  BY DEF Typed, Sound
<1> QED
  BY <1>1, ReceivedFields, ReceivedOwed, ReceivedQuiet

-----------------------------------------------------------------------------
(* All channels.                                                           *)

\* What a step or a call leaves behind: channels in order, and nothing in the
\* FIFO for a free one.
Settled(chs, hs, os) == Typed(chs, hs, os) /\ Sound(chs, hs, os) /\ FreeUnread(chs, hs)

LEMMA AvailableOwesNothing ==
    ASSUME NEW chs, NEW hs, NEW os, Sound(chs, hs, os), NEW c \in Available(chs, hs)
    PROVE  c \in Ch /\ c \notin os
BY DEF Sound, Available, Asked

\* One channel is replaced.
Replaces(c, ch, h, chs, hs, os, chs2, hs2, os2) ==
    /\ chs2 = [chs EXCEPT ![c] = ch]
    /\ hs2 = [hs EXCEPT ![c] = h]
    /\ os2 \in SUBSET Ch
    /\ os2 \ {c} = os \ {c}

LEMMA OneChannelChanges ==
    ASSUME NEW chs, NEW hs, NEW os, NEW chs2, NEW hs2, NEW os2,
           Typed(chs, hs, os), Sound(chs, hs, os),
           NEW c \in Ch, NEW ch \in ChannelRec, NEW h \in RegisterRec,
           Replaces(c, ch, h, chs, hs, os, chs2, hs2, os2),
           IF c \in os2 THEN Asked(ch, h) ELSE Quiet(ch, h)
    PROVE  /\ Typed(chs2, hs2, os2)
           /\ Sound(chs2, hs2, os2)
           /\ \A e \in Ch : chs2[e] = (IF e = c THEN ch ELSE chs[e])
                            /\ hs2[e] = (IF e = c THEN h ELSE hs[e])
<1>1. /\ chs2 \in [Ch -> ChannelRec] /\ hs2 \in [Ch -> RegisterRec]
      /\ chs2[c] = ch /\ hs2[c] = h
      /\ \A e \in Ch \ {c} : chs2[e] = chs[e] /\ hs2[e] = hs[e] /\ (e \in os2 <=> e \in os)
      /\ os2 \subseteq Ch
  BY DEF Typed, Replaces
<1> QED
  BY <1>1 DEF Typed, Sound

LEMMA SubmittedFields ==
    ASSUME NEW r \in RegisterRec
    PROVE  LET h == [r EXCEPT !.chena = TRUE, !.chdis = FALSE,
                              !.posted = TRUE, !.hcint = {}, !.sent = 0]
           IN  /\ h \in RegisterRec /\ h.chena /\ ~h.chdis /\ h.posted
               /\ h.hcint = {} /\ h.rx = r.rx /\ h.sent = 0
<1>1. 0 \in 0 .. datalen
  BY LldAssumption
<1> QED
  BY <1>1 DEF RegisterRec

LEMMA SubmitSettled ==
    ASSUME NEW p \in Packets, NEW chs, NEW hs, NEW os, Settled(chs, hs, os),
           Submit(p, chs, hs, os)
    PROVE  /\ Settled(channels', hc', owed') /\ refused' \in Packets \cup {NoPacket}
           /\ \A e \in Ch : hc'[e].rx = hs[e].rx
           /\ \A e \in owed' : e \in os \/ hs[e].rx = {}
<1>1. CASE channels' = chs /\ hc' = hs /\ owed' = os /\ refused' = p
  BY <1>1
<1>2. ASSUME NEW c \in Available(chs, hs), refused' = NoPacket, owed' = os \cup {c},
             channels' = [chs EXCEPT ![c] = [state |-> "WORK", packet |-> p,
                                             data_index |-> 0]],
             hc' = [hs EXCEPT ![c] = [@ EXCEPT !.chena = TRUE, !.chdis = FALSE,
                                               !.posted = TRUE, !.hcint = {}, !.sent = 0]]
      PROVE  /\ Settled(channels', hc', owed')
             /\ \A e \in Ch : hc'[e].rx = hs[e].rx
             /\ \A e \in owed' : e \in os \/ hs[e].rx = {}
  <2> DEFINE ch == [state |-> "WORK", packet |-> p, data_index |-> 0]
             h == [hs[c] EXCEPT !.chena = TRUE, !.chdis = FALSE,
                                !.posted = TRUE, !.hcint = {}, !.sent = 0]
  <2>1. c \in Ch /\ hs[c] \in RegisterRec /\ hs[c].rx = {} /\ os \cup {c} \in SUBSET Ch
    BY DEF Settled, Typed, FreeUnread, Available
  <2>2. ch \in ChannelRec /\ ch.state = "WORK" /\ ch.packet = p /\ ch.data_index = 0
    BY LldAssumption DEF ChannelRec
  <2>3. /\ h \in RegisterRec /\ h.chena /\ ~h.chdis /\ h.posted
        /\ h.hcint = {} /\ h.rx = {} /\ h.sent = 0
    BY <2>1, SubmittedFields
  <2>4. channels' = [chs EXCEPT ![c] = ch] /\ hc' = [hs EXCEPT ![c] = h]
    BY <1>2, <2>1 DEF Settled, Typed
  <2>5. Asked(ch, h)
    <3> HIDE DEF ch, h
    <3> QED
      BY <2>2, <2>3 DEF Asked, Posted
  <2>6. /\ Typed(channels', hc', owed') /\ Sound(channels', hc', owed')
        /\ \A e \in Ch : channels'[e] = (IF e = c THEN ch ELSE chs[e])
                         /\ hc'[e] = (IF e = c THEN h ELSE hs[e])
    <3> HIDE DEF ch, h
    <3>1. c \in owed' /\ Replaces(c, ch, h, chs, hs, os, channels', hc', owed')
      BY <1>2, <2>1, <2>4 DEF Replaces
    <3> QED
      BY <2>1, <2>2, <2>3, <2>5, <3>1, OneChannelChanges DEF Settled
  <2>7. FreeUnread(channels', hc')
    <3> HIDE DEF ch, h
    <3> QED
      BY <2>2, <2>6 DEF Settled, FreeUnread
  <2>8. \A e \in Ch : hc'[e].rx = hs[e].rx
    <3> HIDE DEF ch, h
    <3> QED
      BY <2>1, <2>3, <2>6
  <2> QED
    BY <1>2, <2>1, <2>6, <2>7, <2>8 DEF Settled
<1> QED
  BY <1>1, <1>2 DEF Submit

LEMMA CallsSettled ==
    ASSUME NEW chs, NEW hs, NEW os, Settled(chs, hs, os), Calls(chs, hs, os)
    PROVE  /\ Settled(channels', hc', owed') /\ refused' \in Packets \cup {NoPacket}
           /\ \A e \in Ch : hc'[e].rx = hs[e].rx
           /\ \A e \in owed' : e \in os \/ hs[e].rx = {}
BY SubmitSettled DEF Calls, SubmitNothing

\* Nothing is owed after channels_init.
LEMMA InitSettled ==
    ASSUME NEW chs, NEW hs, NEW os, Typed(chs, hs, os), Sound(chs, hs, os),
           \A c \in os : hs[c].rx = {}, ChannelsInit(chs, hs)
    PROVE  /\ Typed(channels', hc', owed') /\ Sound(channels', hc', owed')
           /\ owed' = {}
           /\ \A c \in Ch : hc'[c].rx = hs[c].rx
           /\ \A c \in Ch : channels'[c] = Freed(chs[c], hs[c])
           /\ \A c \in Ch : hc'[c].chena = hs[c].chena
<1>1. ASSUME NEW c \in Ch
      PROVE  LET ch == Freed(chs[c], hs[c])
                 h == [Stopped(hs[c]) EXCEPT !.hcint = {}]
             IN  /\ ch \in ChannelRec /\ h \in RegisterRec /\ Quiet(ch, h)
                 /\ h.rx = hs[c].rx /\ h.chena = hs[c].chena
  <2> DEFINE g == [hs[c] EXCEPT !.hcint = {}]
             s == Stopped(hs[c])
             h == [s EXCEPT !.hcint = {}]
  <2>1. chs[c] \in ChannelRec /\ hs[c] \in RegisterRec
    BY DEF Typed
  <2>2. hs[c].rx \subseteq {"CHH"}
        /\ (hs[c].chena => chs[c].state = "WORK" /\ hs[c].rx = {})
    BY DEF Sound, Asked, Quiet
  <2>3. Freed(chs[c], hs[c]) \in ChannelRec
    BY <2>1, LldAssumption DEF Freed, Unread, Free, ChannelRec
  <2>4. /\ s \in RegisterRec /\ s.rx = hs[c].rx /\ s.chena = hs[c].chena
        /\ s.chena => s.chdis
    <3>1. CASE hs[c].chena
      BY <2>1, <3>1 DEF Stopped, RegisterRec
    <3>2. CASE ~hs[c].chena
      BY <2>1, <3>2, LldAssumption DEF Stopped, RegisterRec
    <3> QED
      BY <3>1, <3>2
  <2>5. /\ h \in RegisterRec /\ h.rx = s.rx /\ h.chena = s.chena /\ h.chdis = s.chdis
        /\ h.hcint = {}
    <3> HIDE DEF s
    <3> QED
      BY <2>4 DEF RegisterRec
  <2>6. Quiet(Freed(chs[c], hs[c]), h)
    <3> HIDE DEF s, h
    <3> QED
      BY <2>2, <2>4, <2>5 DEF Quiet, Freed
  <2> QED
    BY <2>3, <2>4, <2>5, <2>6
<1> QED
  BY <1>1 DEF ChannelsInit, Typed, Sound

-----------------------------------------------------------------------------
(* The invariant is inductive: the polls.                                  *)

LEMMA InvTyped ==
    ASSUME LldInv
    PROVE  Typed(channels, hc, owed) /\ Sound(channels, hc, owed)
BY DEF LldInv, LldTypeOK, ChannelsInv, Typed, ChannelRec, RegisterRec

\* The invariant, from its parts after a step.
LEMMA InvFromParts ==
    ASSUME /\ state' \in DEVICE_STATE /\ state_prev' \in DEVICE_STATE
           /\ poll_sequence' \in 0 .. 12 /\ dpstate' \in DEVICE_POLL_STATE
           /\ hprt' \in [ppwr : BOOLEAN, pcsts : BOOLEAN, pcdet : BOOLEAN,
                         pena : BOOLEAN, penchng : BOOLEAN, prst : BOOLEAN,
                         enabling : BOOLEAN]
           /\ discint' \in BOOLEAN
           /\ visit' \in [at : {"poll", "scan", "channel"}, channel : 0 .. num_channels,
                          bits : SUBSET HCINT]
           /\ refused' \in Packets \cup {NoPacket}
           /\ report' \in Bus!Status \cup {"none"},
           Typed(channels', hc', owed'), Sound(channels', hc', owed'),
           PortInv', VisitInv', FifoInv'
    PROVE  LldInv'
BY DEF LldInv, LldTypeOK, ChannelsInv, Typed, ChannelRec, RegisterRec

LEMMA InitInv == Init => LldInv
<1> SUFFICES ASSUME Init
             PROVE  LldInv
  OBVIOUS
<1>1. LldTypeOK
  <2>0. 0 \in 0 .. datalen /\ 0 \in 0 .. num_channels /\ 0 \in 0 .. 12
    BY LldAssumption
  <2>1. Free \in ChannelRec
    BY <2>0 DEF Free, ChannelRec
  <2>2. [chena |-> FALSE, chdis |-> FALSE, posted |-> FALSE,
         hcint |-> {}, rx |-> {}, sent |-> 0] \in RegisterRec
    BY <2>0 DEF RegisterRec
  <2>3. visit \in [at : {"poll", "scan", "channel"}, channel : 0 .. num_channels,
                   bits : SUBSET HCINT]
    BY <2>0 DEF Init, BetweenPolls
  <2>4. channels \in [Ch -> ChannelRec] /\ hc \in [Ch -> RegisterRec]
    BY <2>1, <2>2 DEF Init
  <2> QED
    BY <2>0, <2>3, <2>4 DEF Init, LldTypeOK, ChannelRec, RegisterRec, DEVICE_STATE,
       DEVICE_POLL_STATE
<1>2. PortInv /\ VisitInv
  BY DEF Init, PortInv, VisitInv, BetweenPolls
<1>3. ChannelsInv /\ FifoInv
  BY DEF Init, ChannelsInv, FifoInv, Sound, FreeUnread, Quiet, Free
<1> QED
  BY <1>1, <1>2, <1>3 DEF LldInv

LEMMA PollInitInv ==
    ASSUME LldInv, PollInit
    PROVE  LldInv'
<1> USE DEF LldInv
<1>1. /\ state' \in DEVICE_STATE /\ dpstate' \in DEVICE_POLL_STATE
      /\ dpstate = "DISCONN" /\ poll_sequence' \in 0 .. 12
      /\ dpstate' = "DISCONN" /\ state' \in {"INIT", "RUN"}
      /\ state' = "INIT" => poll_sequence' <= 11
  BY DEF PollInit, LldTypeOK, PortInv, DEVICE_STATE, DEVICE_POLL_STATE
<1>2. hprt' \in [ppwr : BOOLEAN, pcsts : BOOLEAN, pcdet : BOOLEAN, pena : BOOLEAN,
                 penchng : BOOLEAN, prst : BOOLEAN, enabling : BOOLEAN]
      /\ hprt'.pena = hprt.pena /\ hprt'.enabling = hprt.enabling
      /\ hprt'.pcsts = hprt.pcsts
  <2>1. hprt' \in {[hprt EXCEPT !.prst = TRUE], [hprt EXCEPT !.prst = FALSE],
                   [hprt EXCEPT !.ppwr = TRUE], hprt}
    BY DEF PollInit
  <2> QED
    BY <2>1 DEF LldTypeOK
<1>3. /\ Typed(channels', hc', owed') /\ Sound(channels', hc', owed')
      /\ FreeUnread(channels', hc')
      /\ \A c \in owed' : hc'[c].rx = {}
      /\ \A c \in Ch : channels'[c].state = "FREE"
  <2>1. CASE UNCHANGED chanVars
    <3> QED
      BY <1>1, <2>1, InvTyped DEF chanVars, FifoInv, PollInit
  <2>2. CASE ChannelsInit(channels, hc)
    <3>1. \A c \in owed : hc[c].rx = {}
      BY <1>1 DEF FifoInv
    <3>2. \A c \in Ch : channels[c].state = "FREE" /\ hc[c].rx = {} /\ ~hc[c].chena
      BY <1>1, InvTyped DEF FifoInv, FreeUnread, PollInit, Sound, Asked, Quiet
    <3>3. \A c \in Ch : Freed(channels[c], hc[c]).state = "FREE"
      BY <3>2 DEF Freed, Unread, Free
    <3> QED
      BY <2>2, <3>1, <3>2, <3>3, InitSettled, InvTyped DEF FreeUnread
  <2> QED
    BY <2>1, <2>2 DEF PollInit
<1>4. PortInv'
  BY <1>1, <1>2 DEF PortInv, PollInit
<1>5. VisitInv'
  BY <1>1 DEF VisitInv, PollInit, Idle, BetweenPolls
<1>6. FifoInv'
  BY <1>1, <1>3 DEF FifoInv
<1>7. state_prev' \in DEVICE_STATE /\ discint' \in BOOLEAN
      /\ visit' = visit /\ refused' = refused /\ report' = "none"
  BY DEF PollInit, LldTypeOK
<1> QED
  BY <1>1, <1>2, <1>3, <1>4, <1>5, <1>6, <1>7, InvFromParts DEF LldTypeOK

LEMMA PollResetInv ==
    ASSUME LldInv, PollReset
    PROVE  LldInv'
<1> USE DEF LldInv
<1>1. hprt' \in [ppwr : BOOLEAN, pcsts : BOOLEAN, pcdet : BOOLEAN, pena : BOOLEAN,
                 penchng : BOOLEAN, prst : BOOLEAN, enabling : BOOLEAN]
      /\ ~hprt'.pena /\ hprt'.pcsts = hprt.pcsts /\ hprt'.enabling = hprt.pcsts
  BY DEF PollReset, LldTypeOK, Written
<1>2. state = "RESET" /\ state' = "RUN" /\ state_prev' = "RESET" /\ dpstate = "DEVRST"
      /\ UNCHANGED <<poll_sequence, dpstate, discint, channels, hc, owed, visit, refused>>
      /\ report' = "none"
  BY DEF PollReset, PortInv, chanVars
<1>3. PortInv'
  BY <1>1, <1>2 DEF PortInv
<1>4. VisitInv'
  BY <1>2 DEF VisitInv, PollReset, Idle, BetweenPolls
<1>5. FifoInv'
  BY <1>2 DEF FifoInv
<1> QED
  BY <1>1, <1>2, <1>3, <1>4, <1>5, InvTyped, InvFromParts DEF LldTypeOK, DEVICE_STATE

HPRT == [ppwr : BOOLEAN, pcsts : BOOLEAN, pcdet : BOOLEAN, pena : BOOLEAN,
         penchng : BOOLEAN, prst : BOOLEAN, enabling : BOOLEAN]

LEMMA WrittenFields ==
    ASSUME NEW h \in HPRT
    PROVE  /\ Written(h) \in HPRT
           /\ Written(h).pena = h.pena
           /\ Written(h).enabling = h.enabling
           /\ Written(h).pcsts = h.pcsts
BY DEF Written, HPRT

\* The values that the poll states pass to the common part of poll_run.
FromPollState(dp, disc) ==
    \/ dp = dpstate /\ dpstate \in {"DEVCONN", "RUN"} /\ disc = discint
    \/ dp = dpstate /\ dpstate = "DISCONN" /\ disc = FALSE
    \/ dp = "RUN" /\ dpstate = "DEVRST" /\ disc = discint /\ (hprt.pena \/ discint)

LEMMA PortChangesInv ==
    ASSUME LldInv, Idle, state = "RUN", NEW dp, NEW disc, FromPollState(dp, disc),
           PortChanges(dp, disc)
    PROVE  LldInv'
<1> USE DEF LldInv
<1>1. /\ Settled(ReceivedChannels, ReceivedRegisters, owed)
      /\ \A c \in Ch : ReceivedRegisters[c].rx = {}
  BY InvTyped, ReceivedSound DEF Settled, FreeUnread
<1>2. hprt \in HPRT /\ hprt' \in HPRT /\ hprt' \in {hprt, Written(hprt)}
      /\ hprt'.pena = hprt.pena /\ hprt'.enabling = hprt.enabling
      /\ hprt'.pcsts = hprt.pcsts
  <2>1. hprt \in HPRT
    BY DEF LldTypeOK, HPRT
  <2>2. hprt' \in {hprt, Written(hprt)}
    BY DEF PortChanges
  <2> QED
    BY <2>1, <2>2, WrittenFields
<1>3. ~hprt.enabling
  BY DEF PortInv, FromPollState
<1>4. /\ dp \in {"DISCONN", "DEVCONN", "RUN"} /\ disc \in BOOLEAN
      /\ dp \in {"DISCONN", "DEVCONN"} => ~hprt.pena
  BY DEF FromPollState, LldTypeOK, PortInv
<1>5. state' = "RUN" /\ state' = state /\ state_prev' = state_prev
      /\ poll_sequence' = poll_sequence /\ report' = "none"
  BY DEF PortChanges
<1>6. visit.at = "poll" /\ visit = BetweenPolls
  BY DEF Idle, BetweenPolls
<1>7. CASE hprt.penchng /\ hprt.pena
  <2>1. /\ dpstate' = dp /\ discint' = disc /\ visit' = visit
        /\ Calls(ReceivedChannels, ReceivedRegisters, owed)
    BY <1>7 DEF PortChanges
  <2>2. Settled(channels', hc', owed') /\ refused' \in Packets \cup {NoPacket}
    BY <1>1, <2>1, CallsSettled
  <2>3. dp = "RUN" /\ disc = FALSE
    BY <1>4, <1>7 DEF FromPollState, PortInv, LldTypeOK
  <2>4. PortInv'
    BY <1>2, <1>3, <1>5, <2>1, <2>3 DEF PortInv
  <2>5. VisitInv'
    BY <1>6, <2>1 DEF VisitInv, BetweenPolls
  <2>6. FifoInv'
    BY <1>5, <2>1, <2>2, <2>3 DEF FifoInv, Settled
  <2> QED
    BY <1>2, <1>5, <2>1, <2>2, <2>3, <2>4, <2>5, <2>6, InvFromParts
       DEF LldTypeOK, HPRT, Settled, DEVICE_POLL_STATE
<1>8. CASE ~(hprt.penchng /\ hprt.pena) /\ disc
  <2>1. /\ dpstate' = "DISCONN" /\ discint' = FALSE /\ visit' = visit
        /\ refused' = refused
        /\ \/ channels' = ReceivedChannels /\ hc' = ReceivedRegisters /\ owed' = owed
           \/ ChannelsInit(ReceivedChannels, ReceivedRegisters)
    BY <1>8 DEF PortChanges
  <2>2. /\ Typed(channels', hc', owed') /\ Sound(channels', hc', owed')
        /\ \A c \in Ch : hc'[c].rx = {}
    BY <1>1, <2>1, InitSettled DEF Settled, Typed
  <2>3. ~hprt.pena
    BY <1>8 DEF PortInv, FromPollState
  <2>4. PortInv'
    BY <1>2, <1>3, <1>5, <2>1, <2>3 DEF PortInv
  <2>5. VisitInv'
    BY <1>6, <2>1 DEF VisitInv, BetweenPolls
  <2>6. FifoInv'
    BY <1>5, <2>1, <2>2 DEF FifoInv, FreeUnread, Typed
  <2> QED
    BY <1>2, <1>5, <2>1, <2>2, <2>4, <2>5, <2>6, InvFromParts
       DEF LldTypeOK, HPRT, DEVICE_POLL_STATE
<1>9. CASE ~(hprt.penchng /\ hprt.pena) /\ ~disc
  <2>1. /\ dpstate' = dp /\ discint' = FALSE /\ visit' = [visit EXCEPT !.at = "scan"]
        /\ refused' = refused
        /\ channels' = ReceivedChannels /\ hc' = ReceivedRegisters /\ owed' = owed
    BY <1>9 DEF PortChanges
  <2>2. /\ Typed(channels', hc', owed') /\ Sound(channels', hc', owed')
        /\ \A c \in Ch : hc'[c].rx = {}
    BY <1>1, <2>1 DEF Settled
  <2>3. visit' = [at |-> "scan", channel |-> 0, bits |-> {}]
    BY <1>6, <2>1 DEF BetweenPolls
  <2>4. PortInv'
    BY <1>2, <1>3, <1>4, <1>5, <2>1 DEF PortInv
  <2>5. VisitInv'
    BY <1>4, <1>5, <2>1, <2>3 DEF VisitInv
  <2>6. FifoInv'
    BY <1>4, <1>5, <2>1, <2>2 DEF FifoInv, FreeUnread, Typed
  <2>7. visit' \in [at : {"poll", "scan", "channel"}, channel : 0 .. num_channels,
                    bits : SUBSET HCINT]
    BY <2>3, LldAssumption
  <2> QED
    BY <1>2, <1>4, <1>5, <2>1, <2>2, <2>4, <2>5, <2>6, <2>7, InvFromParts
       DEF LldTypeOK, HPRT, DEVICE_POLL_STATE
<1> QED
  BY <1>7, <1>8, <1>9

LEMMA PollDisconnInv ==
    ASSUME LldInv, PollDisconn
    PROVE  LldInv'
<1>1. CASE PortChanges("DISCONN", FALSE)
  BY <1>1, PortChangesInv DEF PollDisconn, FromPollState
<1>2. CASE hprt.pcdet /\ hprt.pcsts
  <2> USE DEF LldInv
  <2>1. dpstate = "DISCONN" /\ dpstate' = "DEVCONN" /\ discint' = FALSE
        /\ UNCHANGED <<state, state_prev, poll_sequence, hprt, channels, hc, owed,
                       visit, refused>>
        /\ report' = "none" /\ state = "RUN"
    BY <1>2 DEF PollDisconn, chanVars
  <2>2. PortInv' /\ VisitInv' /\ FifoInv'
    BY <2>1 DEF PortInv, VisitInv, FifoInv
  <2>3. hprt' \in HPRT /\ Typed(channels', hc', owed') /\ Sound(channels', hc', owed')
    BY <2>1, InvTyped DEF LldTypeOK, HPRT
  <2> QED
    BY <2>1, <2>2, <2>3, InvFromParts DEF LldTypeOK, HPRT, DEVICE_POLL_STATE
<1> QED
  BY <1>1, <1>2 DEF PollDisconn

LEMMA PollDevconnInv ==
    ASSUME LldInv, PollDevconn
    PROVE  LldInv'
<1>1. CASE PortChanges("DEVCONN", discint)
  BY <1>1, PortChangesInv DEF PollDevconn, FromPollState
<1>2. CASE hprt.pcdet /\ hprt.pcsts
  <2> USE DEF LldInv
  <2>1. dpstate = "DEVCONN" /\ dpstate' = "DEVRST" /\ ChannelsInit(channels, hc)
        /\ UNCHANGED <<poll_sequence, discint, visit, refused>>
        /\ report' = "none" /\ state = "RUN" /\ state' = "RESET" /\ state_prev' = "RUN"
        /\ Idle
    BY <1>2 DEF PollDevconn
  <2>2. hprt' \in HPRT /\ ~hprt'.pena /\ hprt'.enabling = hprt.enabling
    <3>1. hprt' = [Written(hprt) EXCEPT !.pena = FALSE, !.prst = TRUE] /\ hprt \in HPRT
      BY <1>2 DEF PollDevconn, LldTypeOK, HPRT
    <3> QED
      BY <3>1, WrittenFields DEF HPRT
  <2>3. ~hprt.enabling /\ ~discint
    BY <1>2, <2>1 DEF PortInv
  <2>4. Typed(channels', hc', owed') /\ Sound(channels', hc', owed') /\ owed' = {}
    <3>1. \A c \in owed : hc[c].rx = {}
      BY <2>1 DEF FifoInv
    <3> QED
      BY <2>1, <3>1, InvTyped, InitSettled
  <2>5. PortInv' /\ VisitInv' /\ FifoInv'
    BY <2>1, <2>2, <2>3, <2>4 DEF PortInv, VisitInv, FifoInv, Idle, BetweenPolls
  <2> QED
    BY <2>1, <2>2, <2>4, <2>5, InvFromParts
       DEF LldTypeOK, HPRT, DEVICE_POLL_STATE, DEVICE_STATE
<1> QED
  BY <1>1, <1>2 DEF PollDevconn

LEMMA PollDevrstInv ==
    ASSUME LldInv, PollDevrst
    PROVE  LldInv'
BY PortChangesInv DEF PollDevrst, FromPollState

LEMMA PollRunInv ==
    ASSUME LldInv, PollRun
    PROVE  LldInv'
BY PortChangesInv DEF PollRun, FromPollState

-----------------------------------------------------------------------------
(* The loop over the channels.                                             *)

LEMMA ScanChannelInv ==
    ASSUME LldInv, NEW c \in Ch, ScanChannel(c)
    PROVE  LldInv'
<1> USE DEF LldInv
<1>1. /\ UNCHANGED <<state, state_prev, poll_sequence, dpstate, hprt, discint, channels,
                     hc, owed, refused>>
      /\ visit' = [at |-> "channel", channel |-> c, bits |-> hc[c].hcint]
      /\ report' = "none" /\ visit.at = "scan" /\ hc[c].hcint # {}
  BY DEF ScanChannel, portVars, chanVars, Signals
<1>2. c \notin owed => hc[c].hcint = {"CHH"} /\ ~hc[c].chena /\ hc[c].rx = {}
  BY <1>1, InvTyped DEF Sound, Quiet
<1>3. PortInv' /\ VisitInv' /\ FifoInv'
  BY <1>1, <1>2 DEF PortInv, VisitInv, FifoInv
<1>4. visit' \in [at : {"poll", "scan", "channel"}, channel : 0 .. num_channels,
                  bits : SUBSET HCINT]
  <2>1. hc[c].hcint \in SUBSET HCINT
    BY InvTyped DEF Typed, RegisterRec
  <2>2. c \in 0 .. num_channels
    BY LldAssumption DEF Ch
  <2> QED
    BY <1>1, <2>1, <2>2
<1> QED
  BY <1>1, <1>3, <1>4, InvTyped, InvFromParts DEF LldTypeOK

LEMMA ScanEndsInv ==
    ASSUME LldInv, ScanEnds
    PROVE  LldInv'
<1> USE DEF LldInv
<1>1. /\ UNCHANGED <<state, state_prev, poll_sequence, dpstate, hprt, discint, channels,
                     hc, owed, refused>>
      /\ visit' = [at |-> "poll", channel |-> 0, bits |-> {}]
      /\ report' = "none"
  BY DEF ScanEnds, portVars, chanVars, BetweenPolls
<1>2. PortInv' /\ VisitInv' /\ FifoInv'
  BY <1>1 DEF PortInv, VisitInv, FifoInv, BetweenPolls
<1>3. visit' \in [at : {"poll", "scan", "channel"}, channel : 0 .. num_channels,
                  bits : SUBSET HCINT]
  BY <1>1, LldAssumption
<1> QED
  BY <1>1, <1>2, <1>3, InvTyped, InvFromParts DEF LldTypeOK

\* A bit is tested: the port stays, and the loop goes on to the next channel or
\* to the bits that are left.
LEMMA TestedFields ==
    ASSUME LldInv, NEW bit, Tested(bit)
    PROVE  /\ UNCHANGED <<state, state_prev, poll_sequence, dpstate, hprt, discint>>
           /\ visit.at = "channel" /\ visit.channel \in Ch /\ refused = NoPacket
           /\ bit \in visit.bits /\ bit \in HCINT
           /\ state = "RUN" /\ dpstate # "DEVRST"
           /\ visit' \in [at : {"poll", "scan", "channel"}, channel : 0 .. num_channels,
                          bits : SUBSET HCINT]
           /\ \/ visit'.at = "scan"
              \/ /\ visit'.at = "channel" /\ visit'.channel = visit.channel
                 /\ visit'.bits = visit.bits \ {bit} /\ visit'.bits # {}
                 /\ bit # "XFRC"
<1> USE DEF LldInv
<1>1. /\ visit.at = "channel" /\ bit \in visit.bits /\ refused = NoPacket
      /\ visit' = AfterBit(bit)
      /\ UNCHANGED <<state, state_prev, poll_sequence, dpstate, hprt, discint>>
  BY DEF Tested, portVars
<1>2. visit \in [at : {"poll", "scan", "channel"}, channel : 0 .. num_channels,
                 bits : SUBSET HCINT]
  BY DEF LldTypeOK
<1>3. visit.channel \in Ch /\ state = "RUN" /\ dpstate # "DEVRST"
  BY <1>1 DEF VisitInv
<1>4. visit.channel + 1 \in 0 .. num_channels
  BY <1>3, LldAssumption DEF Ch
<1>5. CASE bit = "XFRC" \/ visit.bits \ {bit} = {}
  <2>1. visit' = [at |-> "scan", channel |-> visit.channel + 1, bits |-> {}]
    BY <1>1, <1>5 DEF AfterBit
  <2> QED
    BY <1>1, <1>2, <1>3, <1>4, <2>1
<1>6. CASE ~(bit = "XFRC" \/ visit.bits \ {bit} = {})
  <2>1. visit' = [visit EXCEPT !.bits = visit.bits \ {bit}]
    BY <1>1, <1>6 DEF AfterBit
  <2> QED
    BY <1>1, <1>2, <1>3, <1>6, <2>1
<1> QED
  BY <1>5, <1>6

\* A callback comes from a packet that is owed one, and takes its last bit but
\* CHH.
LEMMA PacketEndsOwed ==
    ASSUME LldInv, NEW bit \in HCINT, PacketEnds(bit)
    PROVE  /\ visit.channel \in owed
           /\ visit.bits = hc[visit.channel].hcint
           /\ Ended(channels[visit.channel], hc[visit.channel])
           /\ Asked(channels[visit.channel], hc[visit.channel])
           /\ visit.bits \ {bit} \subseteq {"CHH"} /\ bit # "CHH"
<1> DEFINE c == visit.channel
<1>1. Tested(bit) /\ bit # "CHH"
  BY DEF PacketEnds, HCINT
<1>2. visit.at = "channel" /\ c \in Ch /\ bit \in visit.bits
  BY <1>1, TestedFields
<1>3. c \in owed /\ visit.bits = hc[c].hcint
  BY <1>1, <1>2 DEF LldInv, VisitInv
<1>4. Asked(channels[c], hc[c])
  BY <1>2, <1>3, InvTyped DEF Sound
<1>5. Ended(channels[c], hc[c])
  BY <1>2, <1>3, <1>4 DEF Asked, Posted, Arrived
<1>6. visit.bits \ {bit} \subseteq {"CHH"}
  BY <1>1, <1>2, <1>3, <1>5 DEF Ended, Outcomes
<1> QED
  BY <1>1, <1>3, <1>4, <1>5, <1>6

\* The channel is freed before the callback.
EndedChannels(bit) == [channels EXCEPT ![visit.channel] =
                           Freed(channels[visit.channel], hc[visit.channel])]
EndedRegisters(bit) == [hc EXCEPT ![visit.channel] = Stopped(Cleared(bit))]

LEMMA PacketEndsSettled ==
    ASSUME LldInv, NEW bit \in HCINT, PacketEnds(bit)
    PROVE  /\ Settled(EndedChannels(bit), EndedRegisters(bit), owed \ {visit.channel})
           /\ \A e \in Ch : EndedRegisters(bit)[e].rx = hc[e].rx
<1> DEFINE c == visit.channel
           ch == channels[c]
           h == Cleared(bit)
<1>1. Tested(bit) /\ c \in Ch /\ dpstate # "DEVRST"
  BY TestedFields DEF PacketEnds
<1>2. ch \in ChannelRec /\ hc[c] \in RegisterRec
  BY <1>1, InvTyped DEF Typed
<1>3. h \in RegisterRec /\ h.chena = hc[c].chena /\ h.rx = hc[c].rx
      /\ h.hcint = hc[c].hcint \ {bit}
  BY <1>2 DEF Cleared, RegisterRec
<1>4. h.rx = {} /\ h.hcint \subseteq {"CHH"} /\ ch.state = "WORK"
  BY <1>3, PacketEndsOwed DEF Ended, Asked
<1>5. Freed(ch, hc[c]) = Freed(ch, h)
  BY <1>3 DEF Freed, Unread
<1>6. /\ Freed(ch, h) \in ChannelRec /\ Stopped(h) \in RegisterRec
      /\ Quiet(Freed(ch, h), Stopped(h)) /\ Stopped(h).rx = {}
  <2> HIDE DEF ch, h
  <2> QED
    BY <1>2, <1>3, <1>4, FreedQuiet
<1>7. Replaces(c, Freed(ch, h), Stopped(h), channels, hc, owed,
               EndedChannels(bit), EndedRegisters(bit), owed \ {c})
  <2>1. (owed \ {c}) \ {c} = owed \ {c} /\ owed \ {c} \in SUBSET Ch
    BY InvTyped DEF Typed
  <2> QED
    BY <1>5, <2>1 DEF Replaces, EndedChannels, EndedRegisters
<1>8. /\ Typed(EndedChannels(bit), EndedRegisters(bit), owed \ {c})
      /\ Sound(EndedChannels(bit), EndedRegisters(bit), owed \ {c})
      /\ \A e \in Ch :
            /\ EndedChannels(bit)[e] = (IF e = c THEN Freed(ch, h) ELSE channels[e])
            /\ EndedRegisters(bit)[e] = (IF e = c THEN Stopped(h) ELSE hc[e])
  <2> DEFINE ch2 == Freed(ch, h)
             h2 == Stopped(h)
  <2>1. Typed(channels, hc, owed) /\ Sound(channels, hc, owed)
    BY InvTyped
  <2> HIDE DEF c, ch2, h2
  <2>2. c \in Ch /\ ch2 \in ChannelRec /\ h2 \in RegisterRec /\ Quiet(ch2, h2)
        /\ c \notin owed \ {c}
    BY <1>1, <1>6 DEF c, ch2, h2
  <2>3. Replaces(c, ch2, h2, channels, hc, owed, EndedChannels(bit), EndedRegisters(bit),
                 owed \ {c})
    BY <1>7 DEF c, ch2, h2
  <2>4. /\ Typed(EndedChannels(bit), EndedRegisters(bit), owed \ {c})
        /\ Sound(EndedChannels(bit), EndedRegisters(bit), owed \ {c})
        /\ \A e \in Ch :
              /\ EndedChannels(bit)[e] = (IF e = c THEN ch2 ELSE channels[e])
              /\ EndedRegisters(bit)[e] = (IF e = c THEN h2 ELSE hc[e])
    BY <2>1, <2>2, <2>3, OneChannelChanges
  <2> QED
    BY <2>4 DEF c, ch2, h2
<1>9. FreeUnread(EndedChannels(bit), EndedRegisters(bit))
  BY <1>1, <1>6, <1>8 DEF FreeUnread, LldInv, FifoInv
<1> QED
  BY <1>3, <1>4, <1>6, <1>8, <1>9 DEF Settled

LEMMA PacketEndsInv ==
    ASSUME LldInv, ~ResubmitAfterError, NEW bit \in HCINT, PacketEnds(bit)
    PROVE  LldInv'
<1> DEFINE c == visit.channel
<1>1. Tested(bit)
  BY DEF PacketEnds
<1>2. report' \in Bus!Status \cup {"none"}
  BY DEF PacketEnds, StatusOf, Bus!Status
<1>3. \/ bit = "XFRC" /\ Calls(EndedChannels(bit), EndedRegisters(bit), owed \ {c})
      \/ SubmitNothing(EndedChannels(bit), EndedRegisters(bit), owed \ {c})
  BY DEF PacketEnds, EndedChannels, EndedRegisters
<1>4. /\ Settled(channels', hc', owed') /\ refused' \in Packets \cup {NoPacket}
      /\ \A e \in Ch : hc'[e].rx = hc[e].rx
      /\ \A e \in owed' : e \in owed \/ hc[e].rx = {}
  <2> DEFINE os == owed \ {c}
  <2>1. Settled(EndedChannels(bit), EndedRegisters(bit), os)
        /\ \A e \in Ch : EndedRegisters(bit)[e].rx = hc[e].rx
    BY PacketEndsSettled
  <2>2. Calls(EndedChannels(bit), EndedRegisters(bit), os)
    BY <1>3 DEF Calls
  <2> HIDE DEF os
  <2>3. /\ Settled(channels', hc', owed') /\ refused' \in Packets \cup {NoPacket}
        /\ \A e \in Ch : hc'[e].rx = hc[e].rx
        /\ \A e \in owed' : e \in os \/ EndedRegisters(bit)[e].rx = {}
    BY <2>1, <2>2, CallsSettled
  <2> QED
    BY <2>1, <2>3 DEF os, Settled, Typed
<1>5. PortInv'
  BY <1>1, TestedFields DEF PortInv, LldInv
<1>6. VisitInv'
  <2>1. CASE visit'.at = "scan"
    BY <1>1, <2>1, TestedFields DEF VisitInv
  <2>2. CASE visit'.at # "scan"
    <3>1. /\ visit'.at = "channel" /\ visit'.channel = c /\ visit'.bits = visit.bits \ {bit}
          /\ visit'.bits # {} /\ bit # "XFRC" /\ c \in Ch
          /\ state' = "RUN" /\ dpstate' # "DEVRST"
      BY <1>1, <2>2, TestedFields
    <3>2. c \notin owed'
      BY <1>3, <3>1 DEF SubmitNothing
    <3>3. visit'.bits = {"CHH"}
      BY <3>1, PacketEndsOwed
    <3>4. EndedRegisters(bit)[c].rx = {} /\ ~EndedRegisters(bit)[c].chena
      <4>1. "CHH" \in hc[c].hcint
        BY <3>1, <3>3, PacketEndsOwed
      <4>2. ~hc[c].chena /\ hc[c].rx = {} /\ hc[c] \in RegisterRec
        BY <3>1, <4>1, PacketEndsOwed, InvTyped DEF Ended, Typed
      <4>3. ~Cleared(bit).chena /\ Cleared(bit).rx = {} /\ Cleared(bit) \in RegisterRec
        BY <4>2 DEF Cleared, RegisterRec
      <4>4. ~Stopped(Cleared(bit)).chena /\ Stopped(Cleared(bit)).rx = {}
        BY <4>3 DEF Stopped, RegisterRec
      <4> QED
        BY <3>1, <4>4, InvTyped DEF EndedRegisters, Typed
    <3>5. hc' = EndedRegisters(bit)
      BY <1>3, <3>1 DEF SubmitNothing
    <3> QED
      BY <3>1, <3>2, <3>3, <3>4, <3>5 DEF VisitInv
  <2> QED
    BY <2>1, <2>2
<1>7. FifoInv'
  <2>1. dpstate' # "DEVRST" /\ state' = "RUN" /\ dpstate' = dpstate
    BY <1>1, TestedFields
  <2>2. dpstate' \in {"DISCONN", "DEVCONN"} => \A e \in owed' : hc'[e].rx = {}
    BY <1>4, <2>1 DEF LldInv, FifoInv, Settled, Typed
  <2> QED
    BY <1>4, <2>1, <2>2 DEF FifoInv, Settled
<1> QED
  BY <1>1, <1>2, <1>4, <1>5, <1>6, <1>7, TestedFields, InvFromParts
     DEF LldInv, LldTypeOK, Settled

\* The registers of one channel change, or it is freed, between callbacks.
LEMMA ChannelStepSettled ==
    ASSUME LldInv, NEW c \in Ch, NEW ch \in ChannelRec, NEW h \in RegisterRec,
           Replaces(c, ch, h, channels, hc, owed, channels', hc', owed'),
           dpstate' = dpstate, state' = state,
           IF c \in owed' THEN Asked(ch, h) ELSE Quiet(ch, h),
           c \in owed' <=> c \in owed,
           ch.state = "FREE" /\ dpstate # "DEVRST" => h.rx = {},
           c \in owed /\ dpstate \in {"DISCONN", "DEVCONN"} => h.rx = {},
           state = "INIT" => ch.state = "FREE"
    PROVE  /\ Typed(channels', hc', owed') /\ Sound(channels', hc', owed') /\ FifoInv'
           /\ hc'[c] = h /\ \A e \in Ch \ {c} : hc'[e] = hc[e]
<1>1. Typed(channels, hc, owed) /\ Sound(channels, hc, owed)
  BY InvTyped
<1>2. /\ Typed(channels', hc', owed') /\ Sound(channels', hc', owed')
      /\ \A e \in Ch : channels'[e] = (IF e = c THEN ch ELSE channels[e])
                       /\ hc'[e] = (IF e = c THEN h ELSE hc[e])
  BY <1>1, OneChannelChanges
<1>3. \A e \in owed' : e = c \/ e \in owed
  BY DEF Replaces
<1>4. FifoInv'
  BY <1>1, <1>2, <1>3 DEF LldInv, FifoInv, FreeUnread, Typed, Replaces
<1> QED
  BY <1>2, <1>4

LEMMA ReadNakInv ==
    ASSUME LldInv, ReadNak
    PROVE  LldInv'
<1> DEFINE c == visit.channel
           h == [Cleared("NAK") EXCEPT !.chena = TRUE, !.posted = TRUE]
<1>1. Tested("NAK") /\ c \in Ch /\ report' = "none" /\ refused' = refused
      /\ channels' = channels /\ owed' = owed
  BY TestedFields DEF ReadNak
<1>2. c \in owed /\ visit.bits = hc[c].hcint /\ "NAK" \in visit.bits
  BY <1>1, TestedFields DEF LldInv, VisitInv
<1>3. Asked(channels[c], hc[c]) /\ channels[c] \in ChannelRec /\ hc[c] \in RegisterRec
  BY <1>1, <1>2, InvTyped DEF Sound, Typed
<1>4. Ended(channels[c], hc[c]) /\ hc[c].hcint = {"NAK"}
  BY <1>2, <1>3 DEF Asked, Posted, Arrived, Ended, Outcomes
<1>5. /\ h \in RegisterRec /\ h.chena /\ h.posted /\ h.chdis = hc[c].chdis
      /\ h.hcint = {} /\ h.rx = hc[c].rx /\ h.sent = hc[c].sent
  BY <1>3, <1>4 DEF Cleared, RegisterRec
<1>6. h.rx = {} /\ Asked(channels[c], h)
  <2> HIDE DEF h
  <2> QED
    BY <1>3, <1>4, <1>5 DEF Asked, Ended, Posted
<1>7. /\ Typed(channels', hc', owed') /\ Sound(channels', hc', owed') /\ FifoInv'
  <2>1. Replaces(c, channels[c], h, channels, hc, owed, channels', hc', owed')
    BY <1>1, InvTyped DEF ReadNak, Typed, Replaces
  <2>2. state' = state /\ dpstate' = dpstate /\ state # "INIT" /\ channels[c].state = "WORK"
    BY <1>1, <1>3, TestedFields DEF Asked
  <2>3. c \in owed /\ c \in owed'
    BY <1>1, <1>2
  <2> HIDE DEF h, c
  <2> QED
    BY <1>1, <1>3, <1>5, <1>6, <2>1, <2>2, <2>3, ChannelStepSettled
<1>8. PortInv'
  BY <1>1, TestedFields DEF PortInv, LldInv
<1>9. VisitInv'
  BY <1>1, <1>2, <1>4, TestedFields DEF VisitInv
<1> QED
  BY <1>1, <1>7, <1>8, <1>9, TestedFields, InvFromParts DEF LldInv, LldTypeOK

\* CHH alone is handled for a channel that owes nothing.
LEMMA HaltOwesNothing ==
    ASSUME LldInv, ChannelHalted
    PROVE  visit.channel \notin owed /\ visit.bits = {"CHH"}
<1> DEFINE c == visit.channel
<1>1. Tested("CHH")
  BY DEF ChannelHalted
<1>2. visit.at = "channel" /\ c \in Ch /\ "CHH" \in visit.bits
  BY <1>1, TestedFields
<1>3. visit.bits = {"CHH"}
  <2>1. visit.bits \subseteq HCINT /\ (HCINT \ {"CHH"}) \cap visit.bits = {}
    BY <1>1 DEF Tested, Earlier, LldInv, LldTypeOK
  <2> QED
    BY <1>2, <2>1 DEF HCINT
<1>4. c \in owed => visit.bits = hc[c].hcint /\ Asked(channels[c], hc[c])
  BY <1>2, InvTyped DEF LldInv, VisitInv, Sound
<1> QED
  BY <1>3, <1>4 DEF Asked, Posted, Arrived, Ended, Outcomes

LEMMA ChannelHaltedInv ==
    ASSUME LldInv, ChannelHalted
    PROVE  LldInv'
<1> DEFINE c == visit.channel
           ch == channels[c]
           h == Cleared("CHH")
<1>1. Tested("CHH") /\ c \in Ch /\ report' = "none" /\ refused' = refused
      /\ owed' = owed /\ state' = state /\ dpstate' = dpstate /\ state = "RUN"
      /\ dpstate # "DEVRST"
  BY TestedFields DEF ChannelHalted
<1>2. c \notin owed /\ visit.bits = {"CHH"}
  BY HaltOwesNothing
<1>3. ch \in ChannelRec /\ hc[c] \in RegisterRec /\ hc[c].hcint \subseteq {"CHH"}
      /\ ~hc[c].chena /\ hc[c].rx = {}
  BY <1>1, <1>2, TestedFields, InvTyped DEF LldInv, VisitInv, Sound, Quiet, Typed
<1>4. h \in RegisterRec /\ ~h.chena /\ h.rx = {} /\ h.hcint = {}
  BY <1>3 DEF Cleared, RegisterRec
<1>5. Freed(ch, hc[c]) = Freed(ch, h)
  BY <1>3, <1>4 DEF Freed, Unread
<1>6. /\ Freed(ch, h) \in ChannelRec /\ Stopped(h) \in RegisterRec
      /\ Quiet(Freed(ch, h), Stopped(h)) /\ Stopped(h).rx = {}
  <2> HIDE DEF ch, h
  <2> QED
    BY <1>3, <1>4, FreedQuiet
<1>7. /\ Typed(channels', hc', owed') /\ Sound(channels', hc', owed') /\ FifoInv'
  <2>1. Replaces(c, Freed(ch, h), Stopped(h), channels, hc, owed, channels', hc', owed')
    BY <1>1, <1>5, InvTyped DEF ChannelHalted, Typed, Replaces
  <2> DEFINE ch2 == Freed(ch, h)
             h2 == Stopped(h)
  <2>2. /\ c \in Ch /\ ch2 \in ChannelRec /\ h2 \in RegisterRec
        /\ c \notin owed /\ c \notin owed' /\ state' = state /\ dpstate' = dpstate
        /\ state # "INIT"
        /\ Replaces(c, ch2, h2, channels, hc, owed, channels', hc', owed')
        /\ Quiet(ch2, h2) /\ h2.rx = {}
    BY <1>1, <1>2, <1>6, <2>1
  <2> HIDE DEF ch2, h2, c
  <2> QED
    BY <2>2, ChannelStepSettled
<1>8. PortInv'
  BY <1>1, TestedFields DEF PortInv, LldInv
<1>9. VisitInv'
  BY <1>1, <1>2, TestedFields DEF VisitInv
<1> QED
  BY <1>1, <1>7, <1>8, <1>9, TestedFields, InvFromParts DEF LldInv, LldTypeOK

-----------------------------------------------------------------------------
(* The core, between two polls and after a refusal.                        *)

LEMMA RefusalInv ==
    ASSUME LldInv, ~ResubmitAfterError, Refusal
    PROVE  LldInv'
<1> USE DEF LldInv
<1>1. /\ UNCHANGED <<state, state_prev, poll_sequence, dpstate, hprt, discint, visit,
                     channels, hc, owed>>
      /\ refused' = NoPacket /\ report' = "EFATAL"
  BY DEF Refusal, SubmitNothing, portVars
<1>2. PortInv' /\ VisitInv' /\ FifoInv'
  BY <1>1 DEF PortInv, VisitInv, FifoInv
<1>3. report' \in Bus!Status
  BY <1>1 DEF Bus!Status
<1>4. Typed(channels', hc', owed') /\ Sound(channels', hc', owed')
  BY <1>1, InvTyped
<1> QED
  BY <1>1, <1>2, <1>3, <1>4, InvFromParts DEF LldTypeOK

LEMMA CoreSubmitsInv ==
    ASSUME LldInv, CoreSubmits
    PROVE  LldInv'
<1> USE DEF LldInv
<1>1. /\ UNCHANGED <<state, state_prev, poll_sequence, dpstate, hprt, discint, visit>>
      /\ visit.at = "poll" /\ dpstate = "RUN" /\ report' = "none"
  BY DEF CoreSubmits, Idle, BetweenPolls, portVars
<1>2. Settled(channels, hc, owed)
  BY <1>1, InvTyped DEF FifoInv, Settled
<1>3. Settled(channels', hc', owed') /\ refused' \in Packets \cup {NoPacket}
  BY <1>2, SubmitSettled DEF CoreSubmits
<1>4. PortInv' /\ VisitInv'
  BY <1>1 DEF PortInv, VisitInv, BetweenPolls
<1>5. FifoInv'
  BY <1>1, <1>3 DEF FifoInv, Settled, PortInv
<1> QED
  BY <1>1, <1>3, <1>4, <1>5, InvFromParts DEF LldTypeOK, Settled

-----------------------------------------------------------------------------
(* The hardware.                                                           *)

LEMMA AttachInv ==
    ASSUME LldInv, ~Bounces, Attach
    PROVE  LldInv'
<1> USE DEF LldInv
<1>1. /\ UNCHANGED <<state, state_prev, poll_sequence, dpstate, discint, visit,
                     channels, hc, owed, refused>>
      /\ report' = "none" /\ (discint => dpstate = "RUN")
  BY DEF Attach, chanVars
<1>2. hprt' \in HPRT /\ hprt'.pena = hprt.pena /\ hprt'.enabling = hprt.enabling
  BY DEF Attach, LldTypeOK, HPRT
<1>3. PortInv' /\ VisitInv' /\ FifoInv'
  BY <1>1, <1>2 DEF PortInv, VisitInv, FifoInv
<1>4. Typed(channels', hc', owed') /\ Sound(channels', hc', owed')
  BY <1>1, InvTyped
<1> QED
  BY <1>1, <1>2, <1>3, <1>4, InvFromParts DEF LldTypeOK, HPRT

LEMMA DetachInv ==
    ASSUME LldInv, Detach
    PROVE  LldInv'
<1> USE DEF LldInv
<1>1. /\ UNCHANGED <<state, state_prev, poll_sequence, dpstate, visit,
                     channels, hc, owed, refused>>
      /\ report' = "none" /\ discint' = TRUE
  BY DEF Detach, chanVars
<1>2. hprt' \in HPRT /\ ~hprt'.pena /\ ~hprt'.enabling /\ ~hprt'.pcsts
  BY DEF Detach, LldTypeOK, HPRT
<1>3. PortInv' /\ VisitInv' /\ FifoInv'
  BY <1>1, <1>2 DEF PortInv, VisitInv, FifoInv
<1>4. Typed(channels', hc', owed') /\ Sound(channels', hc', owed')
  BY <1>1, InvTyped
<1> QED
  BY <1>1, <1>2, <1>3, <1>4, InvFromParts DEF LldTypeOK, HPRT

LEMMA EnabledInv ==
    ASSUME LldInv, Enabled
    PROVE  LldInv'
<1> USE DEF LldInv
<1>1. /\ UNCHANGED <<state, state_prev, poll_sequence, dpstate, discint, visit,
                     channels, hc, owed, refused>>
      /\ report' = "none" /\ hprt.enabling
  BY DEF Enabled, chanVars
<1>2. hprt' \in HPRT /\ ~hprt'.enabling /\ hprt'.pcsts = hprt.pcsts
  BY DEF Enabled, LldTypeOK, HPRT
<1>3. PortInv' /\ VisitInv' /\ FifoInv'
  BY <1>1, <1>2 DEF PortInv, VisitInv, FifoInv
<1>4. Typed(channels', hc', owed') /\ Sound(channels', hc', owed')
  BY <1>1, InvTyped
<1> QED
  BY <1>1, <1>2, <1>3, <1>4, InvFromParts DEF LldTypeOK, HPRT

\* The hardware touches a channel only while nothing of it is being handled.
LEMMA HardwareInv ==
    ASSUME LldInv, NEW c \in Ch, NEW h \in RegisterRec, Hardware(c, h),
           c \in owed => Asked(channels[c], h) /\ hc[c].hcint = {},
           c \notin owed => Quiet(channels[c], h) /\ hc[c].chena,
           h.rx = hc[c].rx \/ (channels[c].state = "WORK" /\ c \notin owed) \/ hprt.pena
    PROVE  LldInv'
<1> USE DEF LldInv
<1>1. /\ UNCHANGED <<state, state_prev, poll_sequence, dpstate, hprt, discint, visit,
                     channels, owed, refused>>
      /\ report' = "none" /\ hc' = [hc EXCEPT ![c] = h]
  BY DEF Hardware, portVars
<1>2. channels[c] \in ChannelRec /\ Replaces(c, channels[c], h, channels, hc, owed,
                                             channels', hc', owed')
  BY <1>1, InvTyped DEF Typed, Replaces
<1>3. channels[c].state = "FREE" => h.rx = hc[c].rx
  BY InvTyped DEF Sound, Asked, Quiet
<1>4. /\ channels[c].state = "FREE" /\ dpstate # "DEVRST" => h.rx = {}
      /\ c \in owed /\ dpstate \in {"DISCONN", "DEVCONN"} => h.rx = {}
      /\ state = "INIT" => channels[c].state = "FREE"
  BY <1>3 DEF FifoInv, FreeUnread, PortInv
<1>5. IF c \in owed' THEN Asked(channels[c], h) ELSE Quiet(channels[c], h)
  BY <1>1
<1>6. /\ Typed(channels', hc', owed') /\ Sound(channels', hc', owed') /\ FifoInv'
      /\ hc'[c] = h /\ \A e \in Ch \ {c} : hc'[e] = hc[e]
  <2>1. (c \in owed' <=> c \in owed) /\ dpstate' = dpstate /\ state' = state
    BY <1>1
  <2> QED
    BY <1>2, <1>4, <1>5, <2>1, ChannelStepSettled
<1>7. VisitInv'
  <2>1. visit.at = "channel" => visit.channel # c
    BY InvTyped DEF VisitInv, Sound
  <2> QED
    BY <1>1, <1>6, <2>1 DEF VisitInv
<1>8. PortInv'
  BY <1>1 DEF PortInv
<1> QED
  BY <1>1, <1>6, <1>7, <1>8, InvFromParts DEF LldTypeOK

\* What runs is the packet of a channel that was asked for and not stopped.
LEMMA RunningPosted ==
    ASSUME LldInv, NEW c \in Ch, Running(c)
    PROVE  /\ c \in owed /\ Asked(channels[c], hc[c]) /\ Posted(hc[c])
           /\ hc[c] \in RegisterRec /\ hc[c].hcint = {} /\ hc[c].rx = {}
           /\ hc[c].sent = channels[c].data_index /\ hc[c].sent \in 0 .. datalen
           /\ hc[c].chena /\ ~hc[c].chdis
           /\ channels[c].packet.kind # "IN" => hc[c].sent = 0
<1>1. hc[c] \in RegisterRec /\ channels[c] \in ChannelRec
      /\ (c \in owed => Asked(channels[c], hc[c]))
      /\ (c \notin owed => Quiet(channels[c], hc[c]))
  BY InvTyped DEF Typed, Sound
<1>2. c \in owed /\ Asked(channels[c], hc[c])
  BY <1>1 DEF Running, Quiet
<1>3. Posted(hc[c]) /\ hc[c].chena /\ ~hc[c].chdis
  BY <1>2 DEF Running, Asked, Arrived, Ended
<1>4. hc[c].hcint = {} /\ hc[c].rx = {}
  BY <1>3 DEF Posted
<1>5. hc[c].sent \in 0 .. datalen /\ channels[c].data_index \in 0 .. datalen
  BY <1>1 DEF RegisterRec, ChannelRec
<1>6. hc[c].sent = channels[c].data_index + 0
  BY <1>2, <1>4 DEF Asked
<1> QED
  BY <1>1, <1>2, <1>3, <1>4, <1>5, <1>6, LldAssumption DEF Asked

\* The transaction ends, and HCINT tells how.
LEMMA EndsInv ==
    ASSUME LldInv, NEW c \in Ch, Running(c), NEW bits \in Outcomes,
           NEW chena \in {hc[c].chena, "CHH" \notin bits},
           "CHH" \in bits => ~chena,
           "XFRC" \in bits => channels[c].packet.address >= 0,
           Hardware(c, [hc[c] EXCEPT !.posted = FALSE, !.chena = chena,
                                     !.hcint = @ \cup bits])
    PROVE  LldInv'
<1> DEFINE h == [hc[c] EXCEPT !.posted = FALSE, !.chena = chena, !.hcint = @ \cup bits]
<1>1. bits \in SUBSET HCINT /\ chena \in BOOLEAN
  BY RunningPosted DEF Outcomes, HCINT
<1>2. /\ h \in RegisterRec /\ ~h.posted /\ h.chena = chena /\ h.hcint = bits
      /\ h.chdis = hc[c].chdis /\ h.rx = hc[c].rx /\ h.sent = hc[c].sent
  BY <1>1, RunningPosted DEF RegisterRec
<1>3. Asked(channels[c], h)
  <2> HIDE DEF h
  <2> QED
    BY <1>2, RunningPosted DEF Asked, Ended
<1> QED
  <2> HIDE DEF h
  <2>1. Hardware(c, h)
    BY DEF h
  <2> QED
    BY <1>2, <1>3, <2>1, RunningPosted, HardwareInv

LEMMA NaksInv ==
    ASSUME LldInv, NEW c \in Ch, Naks(c)
    PROVE  LldInv'
<1>1. hc[c] \in RegisterRec /\ Running(c) /\ hc[c].chena
  BY RunningPosted DEF Naks
<1>2. [hc[c] EXCEPT !.posted = FALSE, !.hcint = @ \cup {"NAK"}]
          = [hc[c] EXCEPT !.posted = FALSE, !.chena = hc[c].chena, !.hcint = @ \cup {"NAK"}]
  BY <1>1 DEF RegisterRec
<1>3. {"NAK"} \in Outcomes /\ "CHH" \notin {"NAK"} /\ "XFRC" \notin {"NAK"}
  BY DEF Outcomes
<1> QED
  BY <1>1, <1>2, <1>3, EndsInv DEF Naks

LEMMA AcceptsInv ==
    ASSUME LldInv, NEW c \in Ch, Accepts(c)
    PROVE  LldInv'
<1>1. PICK bits \in {{"XFRC"}, {"XFRC", "CHH"}} :
          Hardware(c, [hc[c] EXCEPT !.posted = FALSE, !.chena = "CHH" \notin bits,
                                    !.hcint = @ \cup bits])
  BY DEF Accepts
<1>2. bits \in Outcomes
  BY DEF Outcomes
<1>3. Running(c) /\ channels[c].packet.address >= 0
  BY DEF Accepts
<1> QED
  BY <1>1, <1>2, <1>3, EndsInv

LEMMA FailsInv ==
    ASSUME LldInv, NEW c \in Ch, Fails(c)
    PROVE  LldInv'
<1>1. PICK bits \in UNION {{{e}, {e, "CHH"}} : e \in {"STALL", "TXERR", "BBERR"}} :
          Hardware(c, [hc[c] EXCEPT !.posted = FALSE, !.chena = "CHH" \notin bits,
                                    !.hcint = @ \cup bits])
  BY DEF Fails
<1>2. bits \in Outcomes /\ "XFRC" \notin bits
  BY DEF Outcomes
<1>3. Running(c)
  BY DEF Fails
<1> QED
  BY <1>1, <1>2, <1>3, EndsInv

\* Entries for a read reach the FIFO.
LEMMA ArrivesInv ==
    ASSUME LldInv, NEW c \in Ch, Running(c), hprt.pena, NEW rx \in Arrivals,
           NEW sent \in 0 .. datalen,
           sent = hc[c].sent + (IF "IN" \in rx THEN 1 ELSE 0),
           "IN" \in rx => /\ channels[c].packet.kind = "IN"
                          /\ ("IN_COMP" \in rx <=> sent = datalen),
           ~Writing(channels[c].packet), channels[c].packet.address >= 0,
           Hardware(c, [hc[c] EXCEPT !.posted = FALSE, !.sent = sent,
                                     !.chena = "CHH" \notin rx, !.rx = rx])
    PROVE  LldInv'
<1> DEFINE h == [hc[c] EXCEPT !.posted = FALSE, !.sent = sent,
                              !.chena = "CHH" \notin rx, !.rx = rx]
<1>1. rx \in SUBSET RxEntry
  BY DEF Arrivals, RxEntry
<1>2. /\ h \in RegisterRec /\ ~h.posted /\ h.chena = ("CHH" \notin rx)
      /\ h.hcint = hc[c].hcint /\ h.chdis = hc[c].chdis /\ h.rx = rx /\ h.sent = sent
  BY <1>1, RunningPosted DEF RegisterRec
<1>3. Asked(channels[c], h)
  <2> HIDE DEF h
  <2>1. Arrived(channels[c], h)
    BY <1>2, RunningPosted DEF Arrived
  <2>2. h.sent = channels[c].data_index + (IF "IN" \in h.rx THEN 1 ELSE 0)
    BY <1>2, RunningPosted
  <2>3. channels[c].packet.kind # "IN" => h.sent = 0
    BY <1>2, RunningPosted, LldAssumption
  <2> QED
    BY <1>2, <2>1, <2>2, <2>3, RunningPosted DEF Asked
<1> QED
  <2> HIDE DEF h
  <2>1. Hardware(c, h)
    BY DEF h
  <2> QED
    BY <1>2, <1>3, <2>1, RunningPosted, HardwareInv

LEMMA DataArriveInv ==
    ASSUME LldInv, NEW c \in Ch, DataArrive(c)
    PROVE  LldInv'
<1> DEFINE sent == hc[c].sent + 1
<1>1. Running(c) /\ hprt.pena /\ channels[c].packet.kind = "IN"
      /\ channels[c].packet.address >= 0 /\ sent <= datalen
  BY DEF DataArrive
<1>2. PICK rx \in IF sent = datalen THEN {{"IN", "IN_COMP"}, {"IN", "IN_COMP", "CHH"}}
                  ELSE {{"IN"}} :
          Hardware(c, [hc[c] EXCEPT !.posted = FALSE, !.sent = sent,
                                    !.chena = "CHH" \notin rx, !.rx = rx])
  BY DEF DataArrive
<1>3. sent \in 0 .. datalen
  BY <1>1, RunningPosted, LldAssumption
<1>4. rx \in Arrivals /\ "IN" \in rx /\ ("IN_COMP" \in rx <=> sent = datalen)
  BY <1>2 DEF Arrivals
<1>5. ~Writing(channels[c].packet)
  BY <1>1 DEF Writing
<1> HIDE DEF sent
<1>6. sent = hc[c].sent + (IF "IN" \in rx THEN 1 ELSE 0)
  BY <1>4 DEF sent
<1> QED
  BY <1>1, <1>2, <1>3, <1>4, <1>5, <1>6, ArrivesInv

LEMMA ShortArrivesInv ==
    ASSUME LldInv, NEW c \in Ch, ShortArrives(c)
    PROVE  LldInv'
<1>1. Running(c) /\ hprt.pena /\ ~Writing(channels[c].packet)
      /\ channels[c].packet.address >= 0
  BY DEF ShortArrives
<1>2. PICK rx \in {{"IN_COMP"}, {"IN_COMP", "CHH"}} :
          Hardware(c, [hc[c] EXCEPT !.posted = FALSE, !.chena = "CHH" \notin rx,
                                    !.rx = rx])
  BY DEF ShortArrives
<1>3. rx \in Arrivals /\ "IN" \notin rx
  BY <1>2 DEF Arrivals
<1>4. [hc[c] EXCEPT !.posted = FALSE, !.chena = "CHH" \notin rx, !.rx = rx]
          = [hc[c] EXCEPT !.posted = FALSE, !.sent = hc[c].sent,
                          !.chena = "CHH" \notin rx, !.rx = rx]
  BY <1>1, RunningPosted DEF RegisterRec
<1>5. hc[c].sent \in 0 .. datalen /\ hc[c].sent = hc[c].sent + (IF "IN" \in rx THEN 1 ELSE 0)
  BY <1>1, <1>3, RunningPosted, LldAssumption
<1> QED
  BY <1>1, <1>2, <1>3, <1>4, <1>5, ArrivesInv

LEMMA HaltsInv ==
    ASSUME LldInv, NEW c \in Ch, Halts(c)
    PROVE  LldInv'
<1> DEFINE g == [hc[c] EXCEPT !.chena = FALSE, !.chdis = FALSE, !.posted = FALSE]
<1>1. hc[c] \in RegisterRec /\ hc[c].chena /\ hc[c].chdis /\ c \notin owed
      /\ Quiet(channels[c], hc[c])
  BY InvTyped DEF Halts, Typed, Sound, Asked
<1>2. g \in RegisterRec /\ ~g.chena /\ g.rx = {} /\ g.hcint = {}
  BY <1>1 DEF RegisterRec, Quiet
<1>3. PICK h \in {[g EXCEPT !.hcint = @ \cup {"CHH"}], [g EXCEPT !.rx = @ \cup {"CHH"}]} :
          Hardware(c, h)
  BY DEF Halts
<1>4. h \in RegisterRec /\ Quiet(channels[c], h)
  <2>1. CASE h = [g EXCEPT !.hcint = @ \cup {"CHH"}]
    <3> HIDE DEF g
    <3> QED
      BY <1>2, <2>1 DEF RegisterRec, HCINT, Quiet
  <2>2. CASE h = [g EXCEPT !.rx = @ \cup {"CHH"}]
    <3> HIDE DEF g
    <3> QED
      BY <1>2, <2>2 DEF RegisterRec, RxEntry, Quiet
  <2> QED
    BY <2>1, <2>2
<1>5. channels[c].state = "WORK"
  BY <1>1 DEF Quiet
<1> QED
  BY <1>1, <1>3, <1>4, <1>5, HardwareInv

-----------------------------------------------------------------------------
(* Invariance.                                                             *)

LEMMA StutterInv ==
    ASSUME LldInv, UNCHANGED vars
    PROVE  LldInv'
<1>1. UNCHANGED <<state, state_prev, poll_sequence, dpstate, hprt, discint,
                  channels, hc, owed, visit, refused, report>>
  BY DEF vars, portVars, chanVars
<1> QED
  BY <1>1 DEF LldInv, LldTypeOK, PortInv, VisitInv, ChannelsInv, FifoInv

LEMMA PollInv ==
    ASSUME LldInv, ~ResubmitAfterError, Poll
    PROVE  LldInv'
BY PollInitInv, PollResetInv, PollDisconnInv, PollDevconnInv, PollDevrstInv, PollRunInv,
   ScanChannelInv, ScanEndsInv, PacketEndsInv, ReadNakInv, ChannelHaltedInv DEF Poll

LEMMA NextInv ==
    ASSUME LldInv, ~Bounces, ~ResubmitAfterError, [Next]_vars
    PROVE  LldInv'
<1>1. CASE Poll
  BY <1>1, PollInv
<1>2. CASE Refusal \/ CoreSubmits
  BY <1>2, RefusalInv, CoreSubmitsInv
<1>3. CASE Attach \/ Detach \/ Enabled
  BY <1>3, AttachInv, DetachInv, EnabledInv
<1>4. ASSUME NEW c \in Ch, Naks(c) \/ Answers(c) \/ Halts(c)
      PROVE  LldInv'
  BY <1>4, NaksInv, AcceptsInv, DataArriveInv, ShortArrivesInv, FailsInv, HaltsInv
     DEF Answers
<1>5. CASE UNCHANGED vars
  BY <1>5, StutterInv
<1> QED
  BY <1>1, <1>2, <1>3, <1>4, <1>5 DEF Next

\* Every packet that the driver has not called back has a transaction that was
\* asked for, data in the FIFO or a result in HCINT; a channel that owes
\* nothing is stopped or stops; the bits that poll_run still holds after a
\* callback are those of the channel as it is.
THEOREM LldInvariance ==
    ASSUME ~Bounces, ~ResubmitAfterError
    PROVE  Spec => []LldInv
<1>1. Init => LldInv
  BY InitInv
<1>2. LldInv /\ [Next]_vars => LldInv'
  BY NextInv
<1> QED
  BY <1>1, <1>2, PTL DEF Spec

\* Every variable of the driver keeps its type: no channel number, no count of
\* received packets and no step of the start-up leaves its range.
THEOREM LldTypeCorrect ==
    ASSUME ~Bounces, ~ResubmitAfterError
    PROVE  Spec => []LldTypeOK
<1>1. LldInv => LldTypeOK
  BY DEF LldInv
<1> QED
  BY <1>1, LldInvariance, PTL

-----------------------------------------------------------------------------
(* Reports.                                                                *)

\* A callback with a status comes from the bit that the code maps to it, and
\* the length of a read is what the device sent.
LEMMA PacketEndsTruly ==
    ASSUME LldInv, NEW bit \in HCINT, PacketEnds(bit)
    PROVE  LET p == channels[visit.channel].packet
               sent == hc[visit.channel].sent
           IN  /\ report' \in Bus!Responses(p)
               /\ p.kind = "IN" => /\ report' = "OK" => sent = datalen
                                   /\ report' = "ERRSIZ" => sent < datalen
<1> DEFINE c == visit.channel
           p == channels[c].packet
           sent == hc[c].sent
<1>1. c \in owed /\ c \in Ch /\ bit \in hc[c].hcint /\ bit # "CHH"
      /\ Ended(channels[c], hc[c]) /\ Asked(channels[c], hc[c])
  BY PacketEndsOwed, TestedFields DEF PacketEnds
<1>2. channels[c].data_index = sent /\ sent \in 0 .. datalen
  <2>1. channels[c].data_index \in 0 .. datalen /\ sent \in 0 .. datalen
    BY <1>1, InvTyped DEF Typed, ChannelRec, RegisterRec
  <2>2. sent = channels[c].data_index + 0
    BY <1>1 DEF Asked, Ended
  <2> QED
    BY <2>1, <2>2, LldAssumption
<1>3. p \in Bus!Packet /\ (bit = "XFRC" => p.address >= 0)
      /\ (p.kind # "IN" => sent = 0)
  BY <1>1, LldAssumption DEF Asked, Ended
<1>4. p.kind \in {"SETUP", "OUT", "IN", "STATUS"} /\ p.address \in Int
  BY <1>3, LldAssumption DEF Bus!Packet, Bus!Kind, Bus!Address
<1>5. report' = StatusOf(channels[c], bit)
      /\ bit \in {"NAK", "XFRC", "BBERR", "TXERR", "STALL"}
      /\ (bit = "NAK" => Writing(p))
  BY DEF PacketEnds, HCINT
<1>6. CASE bit = "XFRC"
  <2>1. ~(p.address < 0)
    BY <1>3, <1>4, <1>6
  <2>2. Length(channels[c]) = (IF p.kind = "IN" THEN datalen ELSE 0)
    BY DEF Length
  <2>3. report' = IF Writing(p) \/ sent = Length(channels[c]) THEN "OK" ELSE "ERRSIZ"
    BY <1>2, <1>5, <1>6 DEF StatusOf
  <2>4. p.kind # "IN" => report' = "OK"
    BY <1>3, <2>2, <2>3
  <2>5. p.kind = "IN" => report' = IF sent = datalen THEN "OK" ELSE "ERRSIZ"
    BY <2>2, <2>3 DEF Writing
  <2>6. report' \in Bus!Responses(p)
    BY <1>4, <2>1, <2>4, <2>5
       DEF Bus!Responses, Bus!WriteResponses, Bus!ReadResponses, Bus!Answered
  <2> QED
    BY <1>2, <2>5, <2>6, LldAssumption
<1>7. CASE bit # "XFRC"
  <2>1. report' \in {"EAGAIN", "EFATAL"} /\ (report' = "EAGAIN" => Writing(p))
    BY <1>5, <1>7 DEF StatusOf
  <2>2. report' \in Bus!Responses(p)
    BY <2>1 DEF Bus!Responses, Bus!WriteResponses, Bus!ReadResponses, Writing
  <2> QED
    BY <2>1, <2>2
<1> QED
  BY <1>6, <1>7

LEMMA StepReportsTruly ==
    ASSUME LldInv, Next
    PROVE  visit.at = "channel" /\ report' # "none" /\ refused = NoPacket =>
              LET p == channels[visit.channel].packet
                  sent == hc[visit.channel].sent
              IN  /\ report' \in Bus!Responses(p)
                  /\ p.kind = "IN" => /\ report' = "OK" => sent = datalen
                                      /\ report' = "ERRSIZ" => sent < datalen
<1> SUFFICES ASSUME visit.at = "channel", report' # "none", refused = NoPacket
             PROVE  \E bit \in HCINT : PacketEnds(bit)
  BY PacketEndsTruly
<1>1. ~Refusal /\ ~CoreSubmits /\ ~Attach /\ ~Detach /\ ~Enabled
  BY DEF Refusal, CoreSubmits, Attach, Detach, Enabled
<1>2. \A c \in Ch : ~Naks(c) /\ ~Answers(c) /\ ~Halts(c)
  BY DEF Naks, Answers, Accepts, DataArrive, ShortArrives, Fails, Halts, Hardware
<1>3. ~PollInit /\ ~PollReset /\ ~PollDisconn /\ ~PollDevconn /\ ~PollDevrst /\ ~PollRun
  BY DEF PollInit, PollReset, PollDisconn, PollDevconn, PollDevrst, PollRun, PortChanges
<1>4. ~ScanEnds /\ ~ReadNak /\ ~ChannelHalted /\ \A c \in Ch : ~ScanChannel(c)
  BY DEF ScanEnds, ReadNak, ChannelHalted, ScanChannel
<1> QED
  BY <1>1, <1>2, <1>3, <1>4 DEF Next, Poll

\* The status of a callback is true: OK exactly for a read that the device
\* filled, ERRSIZ for a shorter one, and nothing that the packet could not have
\* ended with - for any number of NAKs and pieces, and whatever else the FIFO
\* held.
THEOREM ReportsTrue ==
    ASSUME ~Bounces, ~ResubmitAfterError
    PROVE  Spec => ReportsAreTrue
<1>1. LldInv /\ [Next]_vars =>
         [visit.at = "channel" /\ report' # "none" /\ refused = NoPacket =>
              LET p == channels[visit.channel].packet
                  sent == hc[visit.channel].sent
              IN  /\ report' \in Bus!Responses(p)
                  /\ p.kind = "IN" => /\ report' = "OK" => sent = datalen
                                      /\ report' = "ERRSIZ" => sent < datalen]_vars
  BY StepReportsTruly
<1> QED
  BY <1>1, LldInvariance, PTL DEF Spec, ReportsAreTrue

-----------------------------------------------------------------------------
(* The driver implements the bus: the channels as the core sees them.      *)

\* BusChannel, for channels at a call within a step.
Seen(chs, hs, os) ==
    [bc \in {lld} \X Ch |->
        IF bc[2] \in os THEN chs[bc[2]].packet
        ELSE IF chs[bc[2]].state = "FREE" /\ ~hs[bc[2]].chena THEN NoPacket ELSE Halting]

BusChannels == [bc \in {lld} \X Ch |-> BusChannel(bc[2])]
BusDpstate == [b \in {lld} |-> IF dpstate = "DEVCONN" THEN "DISCONN" ELSE dpstate]

LEMMA BusChannelsSeen ==
    BusChannels = Seen(channels, hc, owed) /\ BusChannels' = Seen(channels', hc', owed')
BY DEF BusChannels, BusChannel, Seen

LEMMA BusChan ==
    /\ Bus!Chan = {lld} \X Ch
    /\ \A bc \in {lld} \X Ch : bc = <<lld, bc[2]>> /\ bc[1] = lld /\ bc[2] \in Ch
BY DEF Bus!Chan, Ch

LEMMA SeenSame ==
    ASSUME NEW chs, NEW hs, NEW os, NEW chs2, NEW hs2, NEW os2,
           \A c \in Ch : Seen(chs2, hs2, os2)[<<lld, c>>] = Seen(chs, hs, os)[<<lld, c>>]
    PROVE  Seen(chs2, hs2, os2) = Seen(chs, hs, os)
BY BusChan DEF Seen

LEMMA SeenExcept ==
    ASSUME NEW chs, NEW hs, NEW os, NEW chs2, NEW hs2, NEW os2,
           NEW bc \in {lld} \X Ch, NEW carried,
           Seen(chs2, hs2, os2)[bc] = carried,
           \A x \in {lld} \X Ch : x # bc => Seen(chs2, hs2, os2)[x] = Seen(chs, hs, os)[x]
    PROVE  Seen(chs2, hs2, os2) = [Seen(chs, hs, os) EXCEPT ![bc] = carried]
<1>1. ASSUME NEW f, NEW g, DOMAIN f = {lld} \X Ch, DOMAIN g = {lld} \X Ch,
             f = [x \in DOMAIN f |-> f[x]], g[bc] = carried,
             g = [x \in DOMAIN g |-> g[x]],
             \A x \in {lld} \X Ch : x # bc => g[x] = f[x]
      PROVE  g = [f EXCEPT ![bc] = carried]
  BY <1>1
<1>2. \A a, b, c : /\ DOMAIN Seen(a, b, c) = {lld} \X Ch
                  /\ Seen(a, b, c) = [x \in DOMAIN Seen(a, b, c) |-> Seen(a, b, c)[x]]
  BY DEF Seen
<1> QED
  BY <1>1, <1>2

LEMMA UnseenChange ==
    ASSUME \A c \in Ch : Seen(channels', hc', owed')[<<lld, c>>]
                            = Seen(channels, hc, owed)[<<lld, c>>]
    PROVE  BusChannels' = BusChannels
BY SeenSame, BusChannelsSeen

LEMMA SeenAt ==
    ASSUME NEW chs, NEW hs, NEW os, NEW c \in Ch
    PROVE  Seen(chs, hs, os)[<<lld, c>>] =
              IF c \in os THEN chs[c].packet
              ELSE IF chs[c].state = "FREE" /\ ~hs[c].chena THEN NoPacket ELSE Halting
BY DEF Seen

\* The free channels are the ones that get_free_channel finds.
LEMMA SeenFree ==
    ASSUME NEW chs, NEW hs, NEW os, Sound(chs, hs, os), NEW c \in Ch
    PROVE  Seen(chs, hs, os)[<<lld, c>>] = NoPacket <=> c \in Available(chs, hs)
<1>1. c \in os => chs[c].packet \in Packets /\ chs[c].state = "WORK"
  BY DEF Sound, Asked
<1>2. NoPacket \notin Packets /\ NoPacket # Halting
  BY LldAssumption
<1>3. c \in Available(chs, hs) <=> chs[c].state = "FREE" /\ ~hs[c].chena
  BY DEF Available
<1>4. CASE c \in os
  <2>1. Seen(chs, hs, os)[<<lld, c>>] = chs[c].packet
    BY <1>4, SeenAt
  <2> QED
    BY <1>1, <1>2, <1>3, <1>4, <2>1
<1>5. CASE c \notin os
  <2>1. Seen(chs, hs, os)[<<lld, c>>] =
            IF chs[c].state = "FREE" /\ ~hs[c].chena THEN NoPacket ELSE Halting
    BY <1>5, SeenAt
  <2> QED
    BY <1>2, <1>3, <2>1
<1> QED
  BY <1>4, <1>5

LEMMA PacketsOfLld ==
    ASSUME NEW p \in Packets
    PROVE  p \in Bus!Packet /\ p.dev[1] = lld
BY LldAssumption DEF Bus!Packet, Bus!Device

LEMMA SubmitIssues ==
    ASSUME NEW p \in Packets, NEW chs, NEW hs, NEW os, Settled(chs, hs, os),
           Submit(p, chs, hs, os)
    PROVE  Bus!Issue(p, Seen(chs, hs, os))
<1> DEFINE free == Bus!FreeChannels(p.dev[1], Seen(chs, hs, os))
<1>1. free = {bc \in {lld} \X Ch : bc[2] \in Available(chs, hs)}
  <2>1. free = {bc \in {lld} \X Ch : Seen(chs, hs, os)[bc] = NoPacket}
    BY BusChan, PacketsOfLld DEF Bus!FreeChannels
  <2>2. ASSUME NEW bc \in {lld} \X Ch
        PROVE  Seen(chs, hs, os)[bc] = NoPacket <=> bc[2] \in Available(chs, hs)
    <3>1. bc = <<lld, bc[2]>> /\ bc[2] \in Ch
      BY BusChan
    <3>2. Sound(chs, hs, os)
      BY DEF Settled
    <3>3. Seen(chs, hs, os)[<<lld, bc[2]>>] = NoPacket <=> bc[2] \in Available(chs, hs)
      BY <3>1, <3>2, SeenFree
    <3> QED
      BY <3>1, <3>3
  <2> HIDE DEF free
  <2> QED
    BY <2>1, <2>2
<1>2. CASE /\ Available(chs, hs) = {} /\ refused' = p
           /\ channels' = chs /\ hc' = hs /\ owed' = os
  <2>1. free = {}
    BY <1>1, <1>2
  <2>2. BusChannels' = Seen(chs, hs, os)
    BY <1>2, BusChannelsSeen
  <2> QED
    BY <1>2, <2>1, <2>2 DEF Bus!Issue, BusChannels
<1>3. ASSUME NEW c \in Available(chs, hs), \A e \in Available(chs, hs) : c <= e,
             refused' = NoPacket, owed' = os \cup {c},
             channels' = [chs EXCEPT ![c] = [state |-> "WORK", packet |-> p,
                                             data_index |-> 0]],
             hc' = [hs EXCEPT ![c] = [@ EXCEPT !.chena = TRUE, !.chdis = FALSE,
                                               !.posted = TRUE, !.hcint = {}, !.sent = 0]]
      PROVE  Bus!Issue(p, Seen(chs, hs, os))
  <2>1. c \in Ch /\ <<lld, c>> \in free
    BY <1>1 DEF Available
  <2>2. \A e \in free : <<lld, c>>[2] <= e[2]
    BY <1>1, <1>3
  <2>3. /\ channels'[c].packet = p
        /\ \A e \in Ch \ {c} : channels'[e] = chs[e] /\ hc'[e] = hs[e]
                                /\ (e \in owed' <=> e \in os)
    BY <1>3, <2>1 DEF Settled, Typed
  <2>4. \A bc \in {lld} \X Ch :
            Seen(channels', hc', owed')[bc] =
                IF bc = <<lld, c>> THEN p ELSE Seen(chs, hs, os)[bc]
    BY <1>3, <2>1, <2>3, BusChan DEF Seen
  <2>5. BusChannels' = [Seen(chs, hs, os) EXCEPT ![<<lld, c>>] = p]
    BY <2>4, BusChannelsSeen DEF Seen
  <2> QED
    BY <1>3, <2>1, <2>2, <2>5 DEF Bus!Issue, BusChannels
<1> QED
  BY <1>2, <1>3 DEF Submit

LEMMA CallsIssue ==
    ASSUME NEW chs, NEW hs, NEW os, Settled(chs, hs, os), Calls(chs, hs, os)
    PROVE  Bus!Calls(Seen(chs, hs, os))
<1>1. CASE SubmitNothing(chs, hs, os)
  <2>1. BusChannels' = Seen(chs, hs, os) /\ refused' = NoPacket
    BY <1>1, BusChannelsSeen DEF SubmitNothing
  <2> QED
    BY <2>1 DEF Bus!Calls, Bus!NoIssue, BusChannels
<1>2. CASE \E p \in Packets : Submit(p, chs, hs, os)
  BY <1>2, SubmitIssues, PacketsOfLld DEF Bus!Calls
<1> QED
  BY <1>1, <1>2 DEF Calls

LEMMA ReceivedSeen ==
    ASSUME LldInv
    PROVE  Seen(ReceivedChannels, ReceivedRegisters, owed) = BusChannels
<1>1. ASSUME NEW c \in Ch
      PROVE  Seen(ReceivedChannels, ReceivedRegisters, owed)[<<lld, c>>]
                 = Seen(channels, hc, owed)[<<lld, c>>]
  <2>1. channels[c] \in ChannelRec /\ hc[c] \in RegisterRec
        /\ (c \in owed => Asked(channels[c], hc[c]))
        /\ (c \notin owed => Quiet(channels[c], hc[c]))
    BY InvTyped DEF Typed, Sound
  <2>2. CASE c \in owed
    <3>1. ReceivedChannels[c].packet = channels[c].packet
      BY <2>1, <2>2, ReceivedOwed
    <3>2. Seen(channels, hc, owed)[<<lld, c>>] = channels[c].packet
      BY <2>2, SeenAt
    <3>3. Seen(ReceivedChannels, ReceivedRegisters, owed)[<<lld, c>>]
              = ReceivedChannels[c].packet
      BY <2>2, SeenAt
    <3> QED
      BY <3>1, <3>2, <3>3
  <2>3. CASE c \notin owed
    <3>1. ReceivedRegisters[c].chena = hc[c].chena
          /\ ReceivedChannels[c].state = channels[c].state
      BY <2>1, <2>3, ReceivedQuiet, ReceivedFields
    <3>2. Seen(channels, hc, owed)[<<lld, c>>] =
              IF channels[c].state = "FREE" /\ ~hc[c].chena THEN NoPacket ELSE Halting
      BY <2>3, SeenAt
    <3>3. Seen(ReceivedChannels, ReceivedRegisters, owed)[<<lld, c>>] =
              IF ReceivedChannels[c].state = "FREE" /\ ~ReceivedRegisters[c].chena
              THEN NoPacket ELSE Halting
      BY <2>3, SeenAt
    <3> QED
      BY <3>1, <3>2, <3>3
  <2> QED
    BY <2>2, <2>3
<1> QED
  BY <1>1, SeenSame, BusChannelsSeen

\* channels_init forgets the packets: a channel that runs is told to stop.
LEMMA InitFlushes ==
    ASSUME NEW chs, NEW hs, NEW os, Typed(chs, hs, os), Sound(chs, hs, os),
           \A c \in os : hs[c].rx = {}, ChannelsInit(chs, hs),
           Seen(chs, hs, os) = BusChannels
    PROVE  \E stopping \in SUBSET Bus!Busy(lld) : BusChannels' = Bus!Flushed(lld, stopping)
<1> DEFINE stopping == {bc \in {lld} \X Ch : hs[bc[2]].chena}
<1>1. ASSUME NEW c \in Ch
      PROVE  /\ hs[c].chena => BusChannels[<<lld, c>>] # NoPacket
             /\ Seen(channels', hc', owed')[<<lld, c>>] =
                    IF hs[c].chena THEN Halting ELSE NoPacket
  <2>1. hs[c].chena => c \notin Available(chs, hs)
    BY DEF Available
  <2>2. BusChannels[<<lld, c>>] = NoPacket <=> c \in Available(chs, hs)
    BY SeenFree
  <2>3. owed' = {} /\ channels'[c] = Freed(chs[c], hs[c]) /\ hc'[c].chena = hs[c].chena
    BY InitSettled
  <2>4. hs[c].chena => channels'[c].state = "WORK"
    BY <2>3 DEF Freed, Sound, Asked, Quiet
  <2>5. ~hs[c].chena => channels'[c].state = "FREE"
    <3>1. chs[c] \in ChannelRec
      BY DEF Typed
    <3> QED
      BY <2>3, <3>1 DEF Freed, Unread, Free, ChannelRec
  <2>6. hs[c].chena \in BOOLEAN
    BY DEF Typed, RegisterRec
  <2> QED
    BY <2>1, <2>2, <2>3, <2>4, <2>5, <2>6, SeenAt
<1>2. stopping \subseteq Bus!Busy(lld)
  BY <1>1, BusChan DEF Bus!Busy, BusChannels
<1>3. ASSUME NEW bc \in {lld} \X Ch
      PROVE  Seen(channels', hc', owed')[bc] = IF bc \in stopping THEN Halting ELSE NoPacket
  <2>1. bc = <<lld, bc[2]>> /\ bc[2] \in Ch
    BY BusChan
  <2> QED
    BY <1>1, <2>1
<1>4. BusChannels' = Bus!Flushed(lld, stopping)
  <2>1. Bus!Flushed(lld, stopping) =
            [bc \in {lld} \X Ch |-> IF bc \in stopping THEN Halting ELSE NoPacket]
    BY BusChan DEF Bus!Flushed
  <2> HIDE DEF stopping
  <2> QED
    BY <1>3, <2>1, BusChannelsSeen DEF Seen
<1> QED
  BY <1>2, <1>4

LEMMA BusDp ==
    /\ BusDpstate[lld] = IF dpstate = "DEVCONN" THEN "DISCONN" ELSE dpstate
    /\ \A dp : dpstate' = dp =>
          BusDpstate' = [BusDpstate EXCEPT ![lld] = IF dp = "DEVCONN" THEN "DISCONN" ELSE dp]
BY DEF BusDpstate

\* What the steps of the driver are for the bus.
BusStutters == BusChannels' = BusChannels /\ BusDpstate' = BusDpstate /\ refused' = refused

LEMMA StutterUnchanged ==
    ASSUME BusStutters
    PROVE  UNCHANGED Bus!busVars
BY DEF BusStutters, Bus!busVars, BusChannels, BusDpstate

LEMMA SameStutters ==
    ASSUME UNCHANGED <<dpstate, channels, hc, owed, refused>>
    PROVE  BusStutters
BY BusChannelsSeen DEF BusStutters, BusDpstate

-----------------------------------------------------------------------------
(* The driver implements the bus: every step.                              *)

LEMMA Flushes ==
    ASSUME NEW stopping \in SUBSET Bus!Busy(lld), BusChannels' = Bus!Flushed(lld, stopping),
           refused = NoPacket, refused' = refused, dpstate' = "DISCONN"
    PROVE  Bus!PortGone(lld)
<1>1. BusDpstate' = [BusDpstate EXCEPT ![lld] = "DISCONN"]
  BY BusDp
<1> QED
  BY <1>1 DEF Bus!PortGone, BusChannels, BusDpstate

LEMMA PollInitImplements ==
    ASSUME LldInv, PollInit
    PROVE  BusStutters \/ Bus!PortGone(lld)
<1>1. dpstate = "DISCONN" /\ dpstate' = "DISCONN" /\ refused = NoPacket /\ refused' = refused
  BY DEF PollInit, LldInv, PortInv, Idle
<1>2. CASE UNCHANGED chanVars
  BY <1>1, <1>2, SameStutters DEF chanVars
<1>3. CASE ChannelsInit(channels, hc)
  <2>1. \A c \in owed : hc[c].rx = {}
    BY <1>1 DEF LldInv, FifoInv
  <2>2. \E stopping \in SUBSET Bus!Busy(lld) : BusChannels' = Bus!Flushed(lld, stopping)
    BY <1>3, <2>1, InvTyped, InitFlushes, BusChannelsSeen
  <2> QED
    BY <1>1, <2>2, Flushes
<1> QED
  BY <1>2, <1>3 DEF PollInit

\* A handler of the core in a poll that changes nothing else.
LEMMA CallsOnly ==
    ASSUME refused = NoPacket, dpstate' = dpstate, Bus!Calls(BusChannels)
    PROVE  BusStutters \/ Bus!Issues
<1>1. BusDpstate' = BusDpstate
  BY DEF BusDpstate
<1>2. CASE Bus!NoIssue(BusChannels)
  BY <1>1, <1>2 DEF Bus!NoIssue, BusStutters, BusChannels
<1>3. CASE \E p \in Bus!Packet : Bus!Issue(p, BusChannels)
  BY <1>1, <1>3 DEF Bus!Issues, BusChannels, BusDpstate
<1> QED
  BY <1>2, <1>3 DEF Bus!Calls

LEMMA PortChangesImplements ==
    ASSUME LldInv, Idle, NEW dp, NEW disc, FromPollState(dp, disc), PortChanges(dp, disc)
    PROVE  BusStutters \/ Bus!BusNext
<1>1. refused = NoPacket
  BY DEF Idle
<1>2. /\ Settled(ReceivedChannels, ReceivedRegisters, owed)
      /\ \A c \in Ch : ReceivedRegisters[c].rx = {}
      /\ Seen(ReceivedChannels, ReceivedRegisters, owed) = BusChannels
  BY InvTyped, ReceivedSound, ReceivedSeen DEF Settled, FreeUnread
<1>3. ASSUME dpstate = "DEVRST", dpstate' = "RUN", Bus!Calls(BusChannels)
      PROVE  Bus!BusNext
  <2>1. BusDpstate[lld] = "DEVRST" /\ BusDpstate' = [BusDpstate EXCEPT ![lld] = "RUN"]
    BY <1>3, BusDp
  <2> QED
    BY <1>1, <1>3, <2>1 DEF Bus!BusNext, Bus!PortEnabled, BusDpstate, BusChannels
<1>4. ASSUME dpstate' = dp, Bus!Calls(BusChannels)
      PROVE  BusStutters \/ Bus!BusNext
  <2>1. CASE dp = dpstate
    BY <1>1, <1>4, <2>1, CallsOnly DEF Bus!BusNext
  <2>2. CASE dp # dpstate
    BY <1>3, <1>4, <2>2 DEF FromPollState
  <2> QED
    BY <2>1, <2>2
<1>5. CASE hprt.penchng /\ hprt.pena
  <2>1. dpstate' = dp /\ Calls(ReceivedChannels, ReceivedRegisters, owed)
    BY <1>5 DEF PortChanges
  <2> QED
    BY <1>2, <1>4, <2>1, CallsIssue
<1>6. CASE ~(hprt.penchng /\ hprt.pena) /\ disc
  <2>1. dpstate' = "DISCONN" /\ refused' = refused
    BY <1>6 DEF PortChanges
  <2>2. CASE channels' = ReceivedChannels /\ hc' = ReceivedRegisters /\ owed' = owed
    <3>1. BusChannels' = BusChannels
      BY <1>2, <2>2, BusChannelsSeen
    <3>2. BusDpstate' = [BusDpstate EXCEPT ![lld] = "DISCONN"]
      BY <2>1, BusDp
    <3> QED
      BY <1>1, <2>1, <3>1, <3>2 DEF Bus!BusNext, Bus!PortGone, BusChannels, BusDpstate
  <2>3. CASE ChannelsInit(ReceivedChannels, ReceivedRegisters)
    <3>1. \A c \in owed : ReceivedRegisters[c].rx = {}
      BY <1>2, InvTyped DEF Typed
    <3>2. \E stopping \in SUBSET Bus!Busy(lld) : BusChannels' = Bus!Flushed(lld, stopping)
      BY <1>2, <2>3, <3>1, InitFlushes DEF Settled
    <3> QED
      BY <1>1, <2>1, <3>2, Flushes DEF Bus!BusNext
  <2> QED
    BY <1>6, <2>2, <2>3 DEF PortChanges
<1>7. CASE ~(hprt.penchng /\ hprt.pena) /\ ~disc
  <2>1. dpstate' = dp /\ refused' = refused
        /\ channels' = ReceivedChannels /\ hc' = ReceivedRegisters /\ owed' = owed
    BY <1>7 DEF PortChanges
  <2>2. BusChannels' = BusChannels
    BY <1>2, <2>1, BusChannelsSeen
  <2>3. Bus!Calls(BusChannels)
    BY <1>1, <2>1, <2>2 DEF Bus!Calls, Bus!NoIssue, BusChannels
  <2> QED
    BY <1>4, <2>1, <2>3
<1> QED
  BY <1>5, <1>6, <1>7

LEMMA PollDevconnImplements ==
    ASSUME LldInv, PollDevconn
    PROVE  BusStutters \/ Bus!BusNext
<1>1. CASE PortChanges("DEVCONN", discint)
  BY <1>1, PortChangesImplements DEF PollDevconn, FromPollState
<1>2. CASE hprt.pcdet /\ hprt.pcsts
  <2>1. /\ dpstate = "DEVCONN" /\ dpstate' = "DEVRST" /\ refused = NoPacket
        /\ refused' = refused /\ ChannelsInit(channels, hc)
    BY <1>2 DEF PollDevconn, Idle
  <2>2. \A c \in owed : hc[c].rx = {}
    BY <2>1 DEF LldInv, FifoInv
  <2>3. \E stopping \in SUBSET Bus!Busy(lld) : BusChannels' = Bus!Flushed(lld, stopping)
    BY <2>1, <2>2, InvTyped, InitFlushes, BusChannelsSeen
  <2>4. BusDpstate[lld] = "DISCONN" /\ BusDpstate' = [BusDpstate EXCEPT ![lld] = "DEVRST"]
    BY <2>1, BusDp
  <2> QED
    BY <2>1, <2>3, <2>4 DEF Bus!BusNext, Bus!PortReset, BusChannels, BusDpstate
<1> QED
  BY <1>1, <1>2 DEF PollDevconn

LEMMA PollDisconnImplements ==
    ASSUME LldInv, PollDisconn
    PROVE  BusStutters \/ Bus!BusNext
<1>1. CASE PortChanges("DISCONN", FALSE)
  BY <1>1, PortChangesImplements DEF PollDisconn, FromPollState
<1>2. CASE hprt.pcdet /\ hprt.pcsts
  <2>1. dpstate = "DISCONN" /\ dpstate' = "DEVCONN" /\ refused' = refused
        /\ UNCHANGED <<channels, hc, owed>>
    BY <1>2 DEF PollDisconn, chanVars
  <2>2. BusDpstate' = BusDpstate
    BY <2>1 DEF BusDpstate
  <2>3. BusChannels' = BusChannels
    BY <2>1, BusChannelsSeen
  <2> QED
    BY <2>1, <2>2, <2>3 DEF BusStutters
<1> QED
  BY <1>1, <1>2 DEF PollDisconn

LEMMA PollRunsImplement ==
    ASSUME LldInv, PollDevrst \/ PollRun
    PROVE  BusStutters \/ Bus!BusNext
BY PortChangesImplements DEF PollDevrst, PollRun, FromPollState

\* A packet that ends is called back, and its channel is free or halting.
LEMMA PacketEndsImplements ==
    ASSUME LldInv, NEW bit \in HCINT, PacketEnds(bit)
    PROVE  \E bc \in Bus!Chan : Bus!CallsBack(bc)
<1> DEFINE c == visit.channel
           bc == <<lld, c>>
           left == IF hc[c].chena THEN Halting ELSE NoPacket
           chs == EndedChannels(bit)
           hs == EndedRegisters(bit)
           os == owed \ {c}
<1>1. Tested(bit) /\ refused = NoPacket /\ c \in Ch /\ dpstate # "DEVRST"
      /\ dpstate' = dpstate
  BY TestedFields DEF PacketEnds
<1>2. c \in owed /\ channels[c].packet \in Packets /\ channels[c].state = "WORK"
  BY PacketEndsOwed DEF Asked
<1>3. bc \in Bus!Chan /\ bc \in {lld} \X Ch /\ bc[1] = lld /\ bc[2] = c
  BY <1>1, BusChan
<1>4. BusChannels[bc] \in Bus!Packet
  <2>1. BusChannels[bc] = channels[c].packet
    BY <1>1, <1>2, SeenAt, BusChannelsSeen
  <2> QED
    BY <1>2, <2>1, PacketsOfLld
<1>5. BusDpstate[lld] # "DEVRST"
  BY <1>1, BusDp
<1>6. Settled(chs, hs, os)
  BY PacketEndsSettled
<1>7. Calls(chs, hs, os)
  BY DEF PacketEnds, EndedChannels, EndedRegisters, Calls
<1>8. Seen(chs, hs, os) = [BusChannels EXCEPT ![bc] = left]
  <2>1. /\ chs[c] = Freed(channels[c], hc[c]) /\ hs[c] = Stopped(Cleared(bit))
        /\ \A e \in Ch \ {c} : chs[e] = channels[e] /\ hs[e] = hc[e]
    BY <1>1, InvTyped DEF EndedChannels, EndedRegisters, Typed
  <2>2. hc[c] \in RegisterRec /\ channels[c] \in ChannelRec
    BY <1>1, InvTyped DEF Typed
  <2>3. Cleared(bit) \in RegisterRec /\ Cleared(bit).chena = hc[c].chena
    BY <2>2 DEF Cleared, RegisterRec
  <2>4. hs[c].chena = hc[c].chena
    BY <2>1, <2>3 DEF Stopped, RegisterRec
  <2>5. IF hc[c].chena THEN chs[c].state = "WORK" ELSE chs[c].state = "FREE"
    BY <1>2, <2>1, <2>2 DEF Freed, Unread, Free, ChannelRec
  <2> HIDE DEF c, chs, hs
  <2>6. Seen(chs, hs, os)[bc] = left
    BY <1>1, <2>4, <2>5, SeenAt
  <2>7. ASSUME NEW x \in {lld} \X Ch, x # bc
        PROVE  Seen(chs, hs, os)[x] = Seen(channels, hc, owed)[x]
    <3>1. x = <<lld, x[2]>> /\ x[2] \in Ch \ {c}
      BY <2>7, BusChan
    <3>2. (x[2] \in os <=> x[2] \in owed) /\ chs[x[2]] = channels[x[2]] /\ hs[x[2]] = hc[x[2]]
      BY <2>1, <3>1
    <3> QED
      BY <3>1, <3>2 DEF Seen
  <2> HIDE DEF bc, left, os
  <2>8. Seen(chs, hs, os) = [Seen(channels, hc, owed) EXCEPT ![bc] = left]
    BY <1>3, <2>6, <2>7, SeenExcept
  <2> QED
    BY <2>8, BusChannelsSeen
<1>9. Bus!Calls([BusChannels EXCEPT ![bc] = left])
  <2> HIDE DEF chs, hs, os, bc, left
  <2> QED
    BY <1>6, <1>7, <1>8, CallsIssue
<1>10. BusDpstate' = BusDpstate
  BY <1>1 DEF BusDpstate
<1>11. left \in {NoPacket, Halting}
  OBVIOUS
<1>12. Bus!CallsBack(bc)
  <2> HIDE DEF bc, left
  <2>1. Bus!Answerable(bc)
    BY <1>1, <1>3, <1>4, <1>5 DEF Bus!Answerable, BusChannels, BusDpstate
  <2>2. Bus!Released(bc, left) = [BusChannels EXCEPT ![bc] = left]
    BY DEF Bus!Released, BusChannels
  <2> QED
    BY <1>9, <1>10, <1>11, <2>1, <2>2 DEF Bus!CallsBack, BusDpstate
<1> QED
  BY <1>3, <1>12

\* The registers of a channel change, and the core cannot tell.
LEMMA RegistersStutter ==
    ASSUME LldInv, NEW c \in Ch, NEW h, hc' = [hc EXCEPT ![c] = h],
           UNCHANGED <<dpstate, channels, owed, refused>>,
           c \in owed \/ (channels[c].state = "WORK" /\ c \notin owed)
    PROVE  BusStutters
<1>1. \A e \in Ch : e # c => hc'[e] = hc[e]
  BY InvTyped DEF Typed
<1>2. ASSUME NEW e \in Ch
      PROVE  Seen(channels', hc', owed')[<<lld, e>>] = Seen(channels, hc, owed)[<<lld, e>>]
  <2>1. CASE e # c
    BY <1>1, <2>1 DEF Seen
  <2>2. CASE e = c
    <3>1. CASE c \in owed
      BY <2>2, <3>1 DEF Seen
    <3>2. CASE c \notin owed
      <4>1. channels[c].state # "FREE"
        BY <3>2
      <4>2. c \notin owed' /\ channels'[c].state # "FREE"
        BY <3>2, <4>1
      <4>3. Seen(channels, hc, owed)[<<lld, c>>] = Halting
        BY <3>2, <4>1, SeenAt
      <4>4. Seen(channels', hc', owed')[<<lld, c>>] = Halting
        BY <4>2, SeenAt
      <4> QED
        BY <2>2, <4>3, <4>4
    <3> QED
      BY <3>1, <3>2
  <2> QED
    BY <2>1, <2>2
<1>3. BusChannels' = BusChannels
  BY <1>2, UnseenChange
<1> QED
  BY <1>3 DEF BusStutters, BusDpstate

LEMMA ReadNakImplements ==
    ASSUME LldInv, ReadNak
    PROVE  BusStutters
<1> DEFINE c == visit.channel
<1>1. Tested("NAK")
  BY DEF ReadNak
<1>2. c \in Ch /\ c \in owed /\ dpstate' = dpstate
  BY <1>1, TestedFields DEF LldInv, VisitInv
<1> QED
  BY <1>2, RegistersStutter DEF ReadNak

LEMMA ChannelHaltedImplements ==
    ASSUME LldInv, ChannelHalted
    PROVE  BusStutters \/ \E bc \in Bus!Chan : Bus!ChannelHalted(bc)
<1> DEFINE c == visit.channel
           bc == <<lld, c>>
<1>1. Tested("CHH") /\ c \in Ch /\ refused = NoPacket /\ refused' = refused
      /\ dpstate # "DEVRST" /\ dpstate' = dpstate /\ owed' = owed
  BY TestedFields DEF ChannelHalted
<1>2. c \notin owed /\ ~hc[c].chena
  BY <1>1, HaltOwesNothing, TestedFields DEF LldInv, VisitInv
<1>3. bc \in Bus!Chan /\ bc \in {lld} \X Ch /\ bc[1] = lld
  BY <1>1, BusChan
<1>4. channels[c] \in ChannelRec /\ hc[c] \in RegisterRec
  BY <1>1, InvTyped DEF Typed
<1>5. channels'[c].state = "FREE" /\ ~hc'[c].chena
  <2>1. channels'[c] = Freed(channels[c], hc[c]) /\ hc'[c] = Stopped(Cleared("CHH"))
    BY <1>1, InvTyped DEF ChannelHalted, Typed
  <2>2. channels'[c].state = "FREE"
    BY <1>2, <1>4, <2>1 DEF Freed, Unread, Free, ChannelRec
  <2>3. Cleared("CHH") \in RegisterRec /\ ~Cleared("CHH").chena
    BY <1>2, <1>4 DEF Cleared, RegisterRec
  <2> QED
    BY <2>1, <2>2, <2>3 DEF Stopped, RegisterRec
<1>6. Seen(channels', hc', owed')[bc] = NoPacket
  <2>1. c \notin owed'
    BY <1>1, <1>2
  <2> QED
    BY <1>1, <1>5, <2>1, SeenAt
<1>7. ASSUME NEW x \in {lld} \X Ch, x # bc
      PROVE  Seen(channels', hc', owed')[x] = Seen(channels, hc, owed)[x]
  <2>1. x = <<lld, x[2]>> /\ x[2] \in Ch \ {c}
    BY <1>7, BusChan
  <2>2. channels'[x[2]] = channels[x[2]] /\ hc'[x[2]] = hc[x[2]]
    BY <1>1, <2>1, InvTyped DEF ChannelHalted, Typed
  <2> QED
    BY <1>1, <2>1, <2>2 DEF Seen
<1>8. BusChannels' = [BusChannels EXCEPT ![bc] = NoPacket]
  <2> HIDE DEF bc
  <2> QED
    BY <1>3, <1>6, <1>7, BusChannelsSeen DEF Seen
<1>9. BusDpstate' = BusDpstate /\ BusDpstate[lld] # "DEVRST"
  BY <1>1, BusDp DEF BusDpstate
<1>10. BusChannels[bc] = IF channels[c].state = "FREE" THEN NoPacket ELSE Halting
  BY <1>1, <1>2, SeenAt, BusChannelsSeen
<1>11. CASE channels[c].state = "FREE"
  <2>1. BusChannels' = BusChannels
    BY <1>3, <1>8, <1>10, <1>11 DEF BusChannels
  <2> QED
    BY <1>1, <1>9, <2>1 DEF BusStutters
<1>12. CASE channels[c].state # "FREE"
  <2>1. BusChannels[bc] = Halting
    BY <1>10, <1>12
  <2>2. Bus!ChannelHalted(bc)
    <3> HIDE DEF bc
    <3> QED
      BY <1>1, <1>3, <1>8, <1>9, <2>1 DEF Bus!ChannelHalted, BusChannels, BusDpstate
  <2> QED
    BY <1>3, <2>2
<1> QED
  BY <1>11, <1>12

LEMMA HardwareImplements ==
    ASSUME LldInv, NEW c \in Ch, Naks(c) \/ Answers(c) \/ Halts(c)
    PROVE  BusStutters
<1>1. c \in owed \/ (channels[c].state = "WORK" /\ c \notin owed)
  <2>1. CASE Running(c)
    BY <2>1, RunningPosted
  <2>2. CASE Halts(c)
    BY <2>2, InvTyped DEF Halts, Sound, Quiet
  <2> QED
    BY <2>1, <2>2 DEF Naks, Answers, Accepts, DataArrive, ShortArrives, Fails
<1>2. \E h : Hardware(c, h)
  BY DEF Naks, Answers, Accepts, DataArrive, ShortArrives, Fails, Halts
<1> QED
  BY <1>1, <1>2, RegistersStutter DEF Hardware, portVars

LEMMA RefusalImplements ==
    ASSUME ~ResubmitAfterError, Refusal
    PROVE  Bus!Refuses
<1>1. Bus!Calls(BusChannels)
  <2>1. BusChannels' = BusChannels /\ refused' = NoPacket
    BY BusChannelsSeen DEF Refusal, SubmitNothing
  <2> QED
    BY <2>1 DEF Bus!Calls, Bus!NoIssue, BusChannels
<1>2. refused # NoPacket /\ BusDpstate' = BusDpstate
  BY DEF Refusal, portVars, BusDpstate
<1> QED
  BY <1>1, <1>2 DEF Bus!Refuses, BusChannels, BusDpstate

LEMMA CoreSubmitsImplements ==
    ASSUME LldInv, CoreSubmits
    PROVE  Bus!Issues
<1>1. dpstate = "RUN" /\ dpstate' = dpstate /\ refused = NoPacket
  BY DEF CoreSubmits, Idle, portVars
<1>2. Settled(channels, hc, owed)
  BY <1>1, InvTyped DEF LldInv, FifoInv, Settled
<1>3. \E p \in Bus!Packet : Bus!Issue(p, BusChannels)
  BY <1>2, SubmitIssues, PacketsOfLld, BusChannelsSeen DEF CoreSubmits
<1>4. BusDpstate' = BusDpstate
  BY <1>1 DEF BusDpstate
<1> QED
  BY <1>1, <1>3, <1>4 DEF Bus!Issues, BusChannels, BusDpstate

LEMMA PortImplements ==
    ASSUME PollReset \/ Attach \/ Detach \/ Enabled \/ ScanEnds
               \/ (\E c \in Ch : ScanChannel(c)) \/ UNCHANGED vars
    PROVE  BusStutters
<1>1. UNCHANGED <<dpstate, channels, hc, owed, refused>>
  BY DEF PollReset, Attach, Detach, Enabled, ScanEnds, ScanChannel, vars, portVars, chanVars
<1> QED
  BY <1>1, SameStutters

LEMMA PollImplements ==
    ASSUME LldInv, Poll
    PROVE  BusStutters \/ Bus!BusNext
<1>1. CASE PollInit
  BY <1>1, PollInitImplements DEF Bus!BusNext
<1>2. CASE PollDisconn \/ PollDevconn \/ PollDevrst \/ PollRun
  BY <1>2, PollDisconnImplements, PollDevconnImplements, PollRunsImplement
<1>3. ASSUME NEW bit \in HCINT, PacketEnds(bit)
      PROVE  Bus!BusNext
  BY <1>3, PacketEndsImplements DEF Bus!BusNext
<1>4. CASE ReadNak
  BY <1>4, ReadNakImplements
<1>5. CASE ChannelHalted
  BY <1>5, ChannelHaltedImplements DEF Bus!BusNext
<1>6. CASE PollReset \/ ScanEnds \/ (\E c \in Ch : ScanChannel(c))
  BY <1>6, PortImplements
<1> QED
  BY <1>1, <1>2, <1>3, <1>4, <1>5, <1>6 DEF Poll

LEMMA StepImplements ==
    ASSUME LldInv, ~ResubmitAfterError, [Next]_vars
    PROVE  [Bus!BusNext]_(Bus!busVars)
<1>1. BusStutters \/ Bus!BusNext
  <2>1. CASE Poll
    BY <2>1, PollImplements
  <2>2. CASE Refusal
    BY <2>2, RefusalImplements DEF Bus!BusNext
  <2>3. CASE CoreSubmits
    BY <2>3, CoreSubmitsImplements DEF Bus!BusNext
  <2>4. CASE Attach \/ Detach \/ Enabled \/ UNCHANGED vars
    BY <2>4, PortImplements
  <2>5. CASE \E c \in Ch : Naks(c) \/ Answers(c) \/ Halts(c)
    BY <2>5, HardwareImplements
  <2> QED
    BY <2>1, <2>2, <2>3, <2>4, <2>5 DEF Next
<1> QED
  BY <1>1, StutterUnchanged

LEMMA InitImplements == Init => Bus!BusInit
<1> SUFFICES ASSUME Init
             PROVE  Bus!BusInit
  OBVIOUS
<1>1. dpstate = "DISCONN" /\ refused = NoPacket /\ owed = {}
      /\ \A c \in Ch : channels[c].state = "FREE" /\ ~hc[c].chena
  BY DEF Init, Free
<1>2. BusDpstate = [b \in {lld} |-> "DISCONN"]
  BY <1>1 DEF BusDpstate
<1>3. BusChannels = [bc \in {lld} \X Ch |-> NoPacket]
  BY <1>1, BusChan DEF BusChannels, BusChannel
<1> QED
  BY <1>1, <1>2, <1>3, BusChan DEF Bus!BusInit, BusDpstate, BusChannels

\* The driver with its registers takes only steps of the bus that the core is
\* written for: a channel carries its packet until the one callback, calls
\* nobody after it was told to stop, and is given away only when it has; packets
\* are forgotten only with their port.
THEOREM LldRefinement ==
    ASSUME ~Bounces, ~ResubmitAfterError
    PROVE  Spec => ImplementsBus
<1>1. LldInv /\ [Next]_vars => [Bus!BusNext]_(Bus!busVars)
  BY StepImplements
<1> QED
  BY <1>1, InitImplements, LldInvariance, PTL DEF Spec, ImplementsBus, Bus!BusSpec
=============================================================================
