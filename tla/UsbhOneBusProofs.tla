--------------------------- MODULE UsbhOneBusProofs ----------------------------
(***************************************************************************)
(* The HID, MIDI and Xbox drivers in a program with one bus, for any number*)
(* of slots, channels and driver data: each waits for exactly the transfers*)
(* that it has outstanding, and the application is told the truth.         *)
(*                                                                         *)
(* With two buses an error lets two devices share driver data, and none of *)
(* this holds.                                                             *)
(***************************************************************************)
EXTENDS UsbhDriversProofs

-----------------------------------------------------------------------------
(* The transfers that a device has outstanding, on the channels chs and as *)
(* the refused packet ref.                                                 *)

Transfer(p, d, kind) == Carries(p, d, "event", kind)

NoneOf(d, kind, ref, chs) ==
    /\ ~Transfer(ref, d, kind)
    /\ \A c \in Chan : ~Transfer(chs[c], d, kind)

SomeOf(d, kind, ref, chs) ==
    \/ Transfer(ref, d, kind)
    \/ \E c \in Chan : Transfer(chs[c], d, kind)

OneOf(d, kind, ref, chs) ==
    \/ /\ Transfer(ref, d, kind)
       /\ \A c \in Chan : ~Transfer(chs[c], d, kind)
    \/ /\ ~Transfer(ref, d, kind)
       /\ \E c \in Chan : /\ Transfer(chs[c], d, kind)
                          /\ \A e \in Chan \ {c} : ~Transfer(chs[e], d, kind)

-----------------------------------------------------------------------------
(* The inductive invariant.  It speaks of the data dt that are bound to d, *)
(* and of a pipe of d.                                                     *)

ReadingStates == {"READING_COMPLETE_AND_CHECK_REPORT", "READING_COMPLETE", "102", "26"}

\* A read is outstanding just in the states that wait for one.
ReadServed(d, dt, ref, chs) ==
    IF dt.state \in ReadingStates THEN OneOf(d, "IN", ref, chs) ELSE NoneOf(d, "IN", ref, chs)

\* So is a write while its callback is to come, unless two have overlapped.
WriteServed(d, dt, twice, ref, chs) ==
    IF twice THEN dt.sending => SomeOf(d, "OUT", ref, chs)
    ELSE IF dt.sending THEN OneOf(d, "OUT", ref, chs) ELSE NoneOf(d, "OUT", ref, chs)

Requests(pipe, request) ==
    pipe.state # "NONE" /\ pipe.callback = "event" /\ pipe.request = request

\* The pipe works for the descriptor that HID waits for or for the report that
\* is pending, and these two exclude each other.
PipeServed(dt, pipe) ==
    /\ dt.state = "GET_REPORT_DESCRIPTOR_READ_COMPLETE" <=> Requests(pipe, "IN")
    /\ dt.report_state = "PENDING" <=> Requests(pipe, "OUT")
    /\ ~Requests(pipe, "NODATA")
    /\ dt.state \in {"GET_REPORT_DESCRIPTOR_READ_SETUP",
                     "GET_REPORT_DESCRIPTOR_READ_COMPLETE"} => dt.report_state = "NULL"

\* The data x have only what their driver uses.
OwnFields(x, dt) ==
    /\ dt.report_state # "NULL" => x \in Hid
    /\ dt.sending => x \in Midi

Served(d, x) ==
    /\ data[x].usbh_device = d
    /\ OwnFields(x, data[x])
    /\ ReadServed(d, data[x], refused, channels)
    /\ WriteServed(d, data[x], x \in overlapped, refused, channels)
    /\ PipeServed(data[x], control[d])

\* Only the root device has driver data, and only with a driver.
OnlyRoot(b) ==
    /\ \A e \in Device \ {Root(b)} : drvdata[e] = Null
    /\ drvdata[Root(b)] # Null => drv[Root(b)] # "NULL"
    /\ drv[Root(b)] = "READY" => drvdata[Root(b)] # Null

\* The application knows nobody but the device of the root port, and knows it
\* exactly from the first poll of its driver.
Known(b) ==
    /\ \A x \in notified : x = drvdata[Root(b)]
    /\ drvdata[Root(b)] \in notified <=> Introduced(Root(b))

OInv(b) ==
    /\ OnlyRoot(b)
    /\ Known(b)
    /\ drvdata[Root(b)] # Null => Served(Root(b), drvdata[Root(b)])

-----------------------------------------------------------------------------
(* Answers and submissions.                                                *)

\* Packet p is being answered, and chs is what the channels then carry.
Settles(p, chs) ==
    \/ refused = p /\ chs = channels
    \/ /\ refused = NoPacket
       /\ \E c \in Chan, left \in {NoPacket, Halting} :
             channels[c] = p /\ chs = Released(c, left)

LEMMA NoTransfer ==
    ASSUME NEW d, NEW kind
    PROVE  ~Transfer(NoPacket, d, kind) /\ ~Transfer(Halting, d, kind)
BY BusAssumption DEF Transfer, Carries

\* What is left once p is answered, and p carried no such transfer.
LEMMA AnswerKeeps ==
    ASSUME channels \in [Chan -> Carried], NEW d, NEW kind, NEW p, NEW chs,
           Settles(p, chs), ~Transfer(p, d, kind)
    PROVE  /\ NoneOf(d, kind, refused, channels) => NoneOf(d, kind, NoPacket, chs)
           /\ SomeOf(d, kind, refused, channels) => SomeOf(d, kind, NoPacket, chs)
           /\ OneOf(d, kind, refused, channels) => OneOf(d, kind, NoPacket, chs)
<1>1. CASE refused = p /\ chs = channels
  BY <1>1, NoTransfer DEF NoneOf, SomeOf, OneOf
<1>2. CASE /\ refused = NoPacket
           /\ \E c \in Chan, left \in {NoPacket, Halting} :
                 channels[c] = p /\ chs = Released(c, left)
  <2>1. PICK c \in Chan, left \in {NoPacket, Halting} :
           channels[c] = p /\ chs = Released(c, left)
    BY <1>2
  <2>2. chs[c] = left /\ \A e \in Chan \ {c} : chs[e] = channels[e]
    BY <2>1 DEF Released
  <2>3. ~Transfer(chs[c], d, kind) /\ ~Transfer(channels[c], d, kind)
    BY <2>1, <2>2, NoTransfer
  <2>4. \A e \in Chan : Transfer(chs[e], d, kind) <=> Transfer(channels[e], d, kind)
    BY <2>2, <2>3
  <2> QED
    BY <1>2, <2>4 DEF NoneOf, SomeOf, OneOf
<1> QED
  BY <1>1, <1>2 DEF Settles

\* The answer to the only transfer leaves none.
LEMMA AnswerTakes ==
    ASSUME channels \in [Chan -> Carried], NEW d, NEW kind, NEW p, NEW chs,
           Settles(p, chs), Transfer(p, d, kind), OneOf(d, kind, refused, channels)
    PROVE  NoneOf(d, kind, NoPacket, chs)
<1>1. CASE refused = p /\ chs = channels
  BY <1>1, NoTransfer DEF NoneOf, OneOf
<1>2. CASE /\ refused = NoPacket
           /\ \E c \in Chan, left \in {NoPacket, Halting} :
                 channels[c] = p /\ chs = Released(c, left)
  <2>1. PICK c \in Chan, left \in {NoPacket, Halting} :
           channels[c] = p /\ chs = Released(c, left)
    BY <1>2
  <2>2. chs[c] = left /\ \A e \in Chan \ {c} : chs[e] = channels[e]
    BY <2>1 DEF Released
  <2>3. \A e \in Chan \ {c} : ~Transfer(channels[e], d, kind)
    BY <1>2, <2>1, NoTransfer DEF OneOf
  <2> QED
    BY <2>2, <2>3, NoTransfer DEF NoneOf
<1> QED
  BY <1>1, <1>2 DEF Settles

\* What is there once something else is submitted, or nothing.
LEMMA SubmitKeeps ==
    ASSUME NEW chs \in [Chan -> Carried], NEW d, NEW kind,
           NoIssue(chs) \/ \E q : ~Transfer(q, d, kind) /\ Issue(q, chs)
    PROVE  /\ NoneOf(d, kind, NoPacket, chs) => NoneOf(d, kind, refused', channels')
           /\ SomeOf(d, kind, NoPacket, chs) => SomeOf(d, kind, refused', channels')
           /\ OneOf(d, kind, NoPacket, chs) => OneOf(d, kind, refused', channels')
<1>1. CASE NoIssue(chs)
  BY <1>1 DEF NoIssue
<1>2. CASE \E q : ~Transfer(q, d, kind) /\ Issue(q, chs)
  <2>1. PICK q : ~Transfer(q, d, kind) /\ Issue(q, chs)
    BY <1>2
  <2>2. CASE channels' = chs /\ refused' = q
    BY <2>1, <2>2, NoTransfer DEF NoneOf, SomeOf, OneOf
  <2>3. CASE \E c \in FreeChannels(q.dev[1], chs) :
                channels' = [chs EXCEPT ![c] = q] /\ refused' = NoPacket
    <3>1. PICK c \in FreeChannels(q.dev[1], chs) :
             channels' = [chs EXCEPT ![c] = q] /\ refused' = NoPacket
      BY <2>3
    <3>2. /\ c \in Chan /\ chs[c] = NoPacket /\ channels'[c] = q
          /\ \A e \in Chan \ {c} : channels'[e] = chs[e]
      BY <3>1 DEF FreeChannels
    <3>3. \A e \in Chan : Transfer(channels'[e], d, kind) <=> Transfer(chs[e], d, kind)
      BY <2>1, <3>2, NoTransfer
    <3> QED
      BY <3>1, <3>3 DEF NoneOf, SomeOf, OneOf
  <2> QED
    BY <2>1, <2>2, <2>3 DEF Issue
<1> QED
  BY <1>1, <1>2

\* A transfer is submitted.
LEMMA SubmitAdds ==
    ASSUME NEW chs \in [Chan -> Carried], NEW d, NEW kind, NEW q,
           Transfer(q, d, kind), Issue(q, chs)
    PROVE  /\ SomeOf(d, kind, refused', channels')
           /\ NoneOf(d, kind, NoPacket, chs) => OneOf(d, kind, refused', channels')
<1>1. CASE channels' = chs /\ refused' = q
  BY <1>1 DEF NoneOf, SomeOf, OneOf
<1>2. CASE \E c \in Chan : channels' = [chs EXCEPT ![c] = q] /\ refused' = NoPacket
  <2>1. PICK c \in Chan : channels' = [chs EXCEPT ![c] = q] /\ refused' = NoPacket
    BY <1>2
  <2>2. channels'[c] = q /\ \A e \in Chan \ {c} : channels'[e] = chs[e]
    BY <2>1
  <2> QED
    BY <2>1, <2>2, NoTransfer DEF NoneOf, SomeOf, OneOf
<1> QED
  BY <1>1, <1>2 DEF Issue, FreeChannels

-----------------------------------------------------------------------------
(* Changes of the data.                                                    *)

\* The data x are changed, and no others.
Changes(x) == \A y \in Data \ {x} : data'[y] = data[y]

SameButState(x) ==
    /\ data'[x].usbh_device = data[x].usbh_device
    /\ data'[x].report_state = data[x].report_state
    /\ data'[x].sending = data[x].sending

LEMMA StateSet ==
    ASSUME DataTypeOK, NEW x \in Data, NEW s, data' = [data EXCEPT ![x].state = s]
    PROVE  Changes(x) /\ SameButState(x) /\ data'[x].state = s
<1>1. data'[x] = [data[x] EXCEPT !.state = s] /\ Changes(x)
  BY DEF DataTypeOK, Changes
<1>2. data[x] \in DataOf(x)
  BY DEF DataTypeOK
<1> QED
  BY <1>1, <1>2 DEF SameButState, DataOf

LEMMA ReportSet ==
    ASSUME DataTypeOK, NEW x \in Data, NEW v, data' = [data EXCEPT ![x].report_state = v]
    PROVE  /\ Changes(x)
           /\ data'[x].usbh_device = data[x].usbh_device
           /\ data'[x].state = data[x].state
           /\ data'[x].report_state = v
           /\ data'[x].sending = data[x].sending
<1>1. data'[x] = [data[x] EXCEPT !.report_state = v] /\ Changes(x)
  BY DEF DataTypeOK, Changes
<1>2. data[x] \in DataOf(x)
  BY DEF DataTypeOK
<1> QED
  BY <1>1, <1>2 DEF DataOf

LEMMA SendingSet ==
    ASSUME DataTypeOK, NEW x \in Data, NEW v, data' = [data EXCEPT ![x].sending = v]
    PROVE  /\ Changes(x)
           /\ data'[x].usbh_device = data[x].usbh_device
           /\ data'[x].state = data[x].state
           /\ data'[x].report_state = data[x].report_state
           /\ data'[x].sending = v
<1>1. data'[x] = [data[x] EXCEPT !.sending = v] /\ Changes(x)
  BY DEF DataTypeOK, Changes
<1>2. data[x] \in DataOf(x)
  BY DEF DataTypeOK
<1> QED
  BY <1>1, <1>2 DEF DataOf

\* The states of a driver that is ready and has not been polled yet.
Unpolled == {"INITIAL", "1"}

\* A step of the driver, or of the application, that binds and unbinds nothing:
\* what is left to see is that the data still serve their device, and that the
\* application is told of it at the first poll and only then.
LEMMA ServedStep ==
    ASSUME NEW b \in Buses, OInv(b), DataTypeOK, NEW x \in Data, drvdata[Root(b)] = x,
           UNCHANGED <<drv, drvdata>>, Changes(x),
           \/ /\ notified' = notified
              /\ x \in Hid \/ (data'[x].state \in Unpolled <=> data[x].state \in Unpolled)
           \/ /\ notified' = notified \cup {x}
              /\ x \in Midi \cup Xbox /\ drv[Root(b)] = "READY"
              /\ data'[x].state \notin Unpolled,
           Served(Root(b), x)'
    PROVE  OInv(b)'
<1>1. OnlyRoot(b)'
  BY DEF OInv, OnlyRoot
<1>2. \A y \in notified' : y = drvdata'[Root(b)]
  BY DEF OInv, Known
<1>3. x \in notified' <=> Introduced(Root(b))'
  <2>1. x \in notified <=> Introduced(Root(b))
    BY DEF OInv, Known
  <2> QED
    BY <2>1, DataKinds DEF Introduced, Unpolled
<1>4. Known(b)'
  BY <1>2, <1>3 DEF Known
<1> QED
  BY <1>1, <1>4 DEF OInv

-----------------------------------------------------------------------------
(* The pipe of a device that has a driver.                                 *)

LEMMA BoundPort ==
    ASSUME IInv, NEW b \in Buses, drv[Root(b)] # "NULL"
    PROVE  /\ dpstate[b] = "RUN"
           /\ control[Root(b)].state = "NONE" \/ control[Root(b)].callback = "event"
           /\ \A k \in Kind : ~Awaits(Root(b), "device_enumerate", k)
<1>1. control[Root(b)] \in Control
  BY RootIsDevice DEF IInv, TypeOK
<1>2. dpstate[b] = "RUN" /\ ~Enumerating(Root(b))
  BY InvDriver DEF DriverOnlyWhenSettled
<1> QED
  BY <1>1, <1>2, InvEnumeration DEF EnumerationBacked, Control

\* A pipe that works for neither request of the driver is idle.
LEMMA PipeFree ==
    ASSUME IInv, NEW b \in Buses, drv[Root(b)] # "NULL",
           \A request \in Request : ~Requests(control[Root(b)], request)
    PROVE  control[Root(b)].state = "NONE"
<1>1. control[Root(b)] \in Control
  BY RootIsDevice DEF IInv, TypeOK
<1> QED
  BY <1>1, BoundPort DEF Requests, Control

LEMMA IdleServes ==
    ASSUME NEW pipe, pipe.state = "NONE"
    PROVE  \A request : ~Requests(pipe, request)
BY DEF Requests

\* The request of a driver whose pipe is free.
LEMMA DriverRequests ==
    ASSUME NEW d \in Device, control \in [Device -> Control], NEW request \in Request,
           control[d].state = "NONE", DeviceControl(d, "event", request, control, channels)
    PROVE  /\ \A other \in Request : Requests(control'[d], other) <=> other = request
           /\ \A kind : \E q : ~Transfer(q, d, kind) /\ Issue(q, channels)
<1>1. control'[d] = [state |-> "SETUP", callback |-> "event", request |-> request]
  BY DEF DeviceControl
<1>2. \A other : Requests(control'[d], other) <=> other = request
  BY <1>1 DEF Requests
<1>3. /\ Issue(NewPacket(d, "SETUP", "control_state_machine"), channels)
      /\ NewPacket(d, "SETUP", "control_state_machine").callback # "event"
  BY DEF DeviceControl, NewPacket
<1> QED
  BY <1>2, <1>3 DEF Transfer, Carries

-----------------------------------------------------------------------------
(* What a step that is not about a transfer does to it: nothing.           *)

\* Nothing of this kind is submitted for d.
NoneAdded(d, kind, chs) ==
    NoIssue(chs) \/ \E q : ~Transfer(q, d, kind) /\ Issue(q, chs)

LEMMA ReadKept ==
    ASSUME NEW chs \in [Chan -> Carried], NEW d, NEW dt, NEW new,
           ReadServed(d, dt, NoPacket, chs), NoneAdded(d, "IN", chs),
           new.state \in ReadingStates <=> dt.state \in ReadingStates
    PROVE  ReadServed(d, new, refused', channels')
BY SubmitKeeps DEF ReadServed, NoneAdded

LEMMA WriteKept ==
    ASSUME NEW chs \in [Chan -> Carried], NEW d, NEW dt, NEW new, NEW twice,
           WriteServed(d, dt, twice, NoPacket, chs), NoneAdded(d, "OUT", chs),
           new.sending = dt.sending
    PROVE  WriteServed(d, new, twice, refused', channels')
<1>1. NoneOf(d, "OUT", NoPacket, chs) => NoneOf(d, "OUT", refused', channels')
  BY SubmitKeeps DEF NoneAdded
<1>2. SomeOf(d, "OUT", NoPacket, chs) => SomeOf(d, "OUT", refused', channels')
  BY SubmitKeeps DEF NoneAdded
<1>3. OneOf(d, "OUT", NoPacket, chs) => OneOf(d, "OUT", refused', channels')
  BY SubmitKeeps DEF NoneAdded
<1> QED
  BY <1>1, <1>2, <1>3 DEF WriteServed

LEMMA EventPacketIssued ==
    ASSUME NEW d \in Device, address'[d] \in Address, NEW kind \in {"IN", "OUT"}, NEW chs,
           Issue(NewPacket(d, kind, "event"), chs)
    PROVE  /\ \E q : Transfer(q, d, kind) /\ Issue(q, chs)
           /\ \A other : other # kind => NoneAdded(d, other, chs)
<1> DEFINE q == NewPacket(d, kind, "event")
<1>1. q \in Packet /\ q.dev = d /\ q.callback = "event" /\ q.kind = kind
  BY NewPacketTyped DEF NewPacket, Kind, Callback
<1>2. Transfer(q, d, kind) /\ \A other : other # kind => ~Transfer(q, d, other)
  BY <1>1 DEF Transfer, Carries
<1> QED
  BY <1>2 DEF NoneAdded

-----------------------------------------------------------------------------
(* The polls of the drivers.                                               *)

\* The states in which HID is about its descriptor.
DescriptorStates ==
    {"GET_REPORT_DESCRIPTOR_READ_SETUP", "GET_REPORT_DESCRIPTOR_READ_COMPLETE"}

\* A read is started by a driver that has none under way.
LEMMA ReadInServes ==
    ASSUME IInv, DInv, NEW b \in Buses, OInv(b), NEW x \in Data, drvdata[Root(b)] = x,
           refused = NoPacket, UNCHANGED <<coreRest, dpstate, drvdata, overlapped>>,
           NEW next \in ReadingStates, ReadIn(x, next),
           data[x].state \notin ReadingStates \cup DescriptorStates \cup Unpolled
    PROVE  OInv(b)'
<1> DEFINE d == Root(b)
<1>0. /\ d \in Device /\ DataTypeOK /\ channels \in [Chan -> Carried]
      /\ address'[d] \in Address /\ x # Null
  BY RootIsDevice, DriversAssumption DEF DInv, IInv, TypeOK, BusTypeOK, Carried, coreRest
<1>1. Served(d, x)
  BY <1>0 DEF OInv
<1>2. Changes(x) /\ SameButState(x) /\ data'[x].state = next
  BY <1>0, StateSet DEF ReadIn
<1>3. Issue(NewPacket(d, "IN", "event"), channels) /\ control' = control
  BY <1>1 DEF ReadIn, Served
<1>4. /\ \E q : Transfer(q, d, "IN") /\ Issue(q, channels)
      /\ NoneAdded(d, "OUT", channels)
  BY <1>0, <1>3, EventPacketIssued
<1>5. ReadServed(d, data'[x], refused', channels')
  <2>1. NoneOf(d, "IN", NoPacket, channels)
    BY <1>1 DEF Served, ReadServed
  <2> QED
    BY <1>0, <1>2, <1>4, <2>1, SubmitAdds DEF ReadServed
<1>6. WriteServed(d, data'[x], x \in overlapped', refused', channels')
  <2>1. WriteServed(d, data[x], x \in overlapped, NoPacket, channels)
    BY <1>1 DEF Served
  <2>2. WriteServed(d, data'[x], x \in overlapped, refused', channels')
    BY <1>0, <1>2, <1>4, <2>1, WriteKept DEF SameButState
  <2> QED
    BY <2>2
<1>7. PipeServed(data'[x], control'[d])
  BY <1>1, <1>2, <1>3 DEF Served, PipeServed, SameButState, ReadingStates, DescriptorStates
<1>8. Served(d, x)'
  BY <1>1, <1>2, <1>5, <1>6, <1>7 DEF Served, OwnFields, SameButState
<1>9. data[x].state \notin Unpolled /\ data'[x].state \notin Unpolled
  BY <1>2 DEF ReadingStates, Unpolled
<1> QED
  BY <1>0, <1>2, <1>8, <1>9, ServedStep DEF ReadIn, coreRest

\* A step of a driver that sends nothing.
LEMMA StepServes ==
    ASSUME IInv, DInv, NEW b \in Buses, OInv(b), NEW x \in Data, drvdata[Root(b)] = x,
           refused = NoPacket, UNCHANGED <<coreRest, dpstate, drvdata, overlapped>>,
           NEW next, NEW told, Step(x, next, told),
           next \in ReadingStates <=> data[x].state \in ReadingStates,
           data[x].state \notin DescriptorStates, next \notin DescriptorStates,
           next \notin Unpolled,
           \/ told = {} /\ data[x].state \notin Unpolled
           \/ told = {x} /\ data[x].state # "INACTIVE" /\ x \in Midi \cup Xbox
    PROVE  OInv(b)'
<1> DEFINE d == Root(b)
<1>0. DataTypeOK /\ channels \in [Chan -> Carried] /\ x # Null
  BY DriversAssumption DEF DInv, IInv, TypeOK, BusTypeOK, Carried
<1>1. Served(d, x)
  BY <1>0 DEF OInv
<1>2. Changes(x) /\ SameButState(x) /\ data'[x].state = next
  BY <1>0, StateSet DEF Step
<1>3. NoIssue(channels) /\ control' = control /\ notified' = notified \cup told
  BY DEF Step
<1>4. refused' = refused /\ channels' = channels
  BY <1>3 DEF NoIssue
<1>5. Served(d, x)'
  BY <1>1, <1>2, <1>3, <1>4 DEF Served, OwnFields, SameButState, ReadServed, WriteServed,
     PipeServed, DescriptorStates
<1>6. CASE told = {} /\ data[x].state \notin Unpolled
  BY <1>0, <1>2, <1>3, <1>5, <1>6, ServedStep DEF coreRest
<1>7. CASE told = {x} /\ data[x].state # "INACTIVE" /\ x \in Midi \cup Xbox
  <2>1. drv[d] = "READY"
    BY <1>1, <1>7 DEF DInv, Backed, Present, Served
  <2> QED
    BY <1>0, <1>2, <1>3, <1>5, <1>7, <2>1, ServedStep DEF coreRest
<1> QED
  BY <1>6, <1>7

LEMMA HidPollServes ==
    ASSUME IInv, DInv, NEW b \in Buses, OInv(b), NEW x \in Hid, drvdata[Root(b)] = x,
           drv[Root(b)] # "NULL", refused = NoPacket, HidPoll(x),
           UNCHANGED <<coreRest, dpstate, drvdata, overlapped>>
    PROVE  OInv(b)'
<1> DEFINE d == Root(b)
<1>0. /\ d \in Device /\ DataTypeOK /\ channels \in [Chan -> Carried]
      /\ control \in [Device -> Control] /\ x # Null /\ x \in Data
  BY RootIsDevice, DriversAssumption, DataKinds DEF DInv, IInv, TypeOK, BusTypeOK, Carried
<1>1. CASE /\ data[x].state = "READING_REQUEST"
           /\ ReadIn(x, "READING_COMPLETE_AND_CHECK_REPORT")
  BY <1>0, <1>1, ReadInServes DEF ReadingStates, DescriptorStates, Unpolled
<1>2. CASE /\ data[x].state = "GET_REPORT_DESCRIPTOR_READ_SETUP"
           /\ data' = [data EXCEPT ![x].state = "GET_REPORT_DESCRIPTOR_READ_COMPLETE"]
           /\ UNCHANGED notified
           /\ DeviceControl(data[x].usbh_device, "event", "IN", control, channels)
  <2>1. Served(d, x)
    BY <1>0 DEF OInv
  <2>2. /\ Changes(x) /\ SameButState(x)
        /\ data'[x].state = "GET_REPORT_DESCRIPTOR_READ_COMPLETE"
    BY <1>0, <1>2, StateSet
  <2>3. \A request \in Request : ~Requests(control[d], request)
    BY <1>2, <2>1 DEF Served, PipeServed, Request
  <2>4. control[d].state = "NONE"
    BY <2>3, PipeFree
  <2>5. DeviceControl(d, "event", "IN", control, channels)
    BY <1>2, <2>1 DEF Served
  <2>6. /\ \A other \in Request : Requests(control'[d], other) <=> other = "IN"
        /\ NoneAdded(d, "IN", channels) /\ NoneAdded(d, "OUT", channels)
    BY <1>0, <2>4, <2>5, DriverRequests DEF NoneAdded, Request
  <2>7. ReadServed(d, data'[x], refused', channels')
    <3>1. ReadServed(d, data[x], NoPacket, channels)
      BY <2>1 DEF Served
    <3> QED
      BY <1>0, <1>2, <2>2, <2>6, <3>1, ReadKept DEF ReadingStates
  <2>8. WriteServed(d, data'[x], x \in overlapped', refused', channels')
    <3>1. WriteServed(d, data[x], x \in overlapped, NoPacket, channels)
      BY <2>1 DEF Served
    <3>2. WriteServed(d, data'[x], x \in overlapped, refused', channels')
      BY <1>0, <2>2, <2>6, <3>1, WriteKept DEF SameButState
    <3> QED
      BY <3>2
  <2>9. PipeServed(data'[x], control'[d])
    BY <1>2, <2>1, <2>2, <2>6 DEF Served, PipeServed, SameButState, Request
  <2>10. Served(d, x)'
    BY <2>1, <2>2, <2>7, <2>8, <2>9 DEF Served, OwnFields, SameButState
  <2> QED
    BY <1>0, <1>2, <2>2, <2>10, ServedStep DEF coreRest
<1> QED
  BY <1>1, <1>2 DEF HidPoll

LEMMA MidiPollServes ==
    ASSUME IInv, DInv, NEW b \in Buses, OInv(b), NEW x \in Midi, drvdata[Root(b)] = x,
           refused = NoPacket, MidiPoll(x),
           UNCHANGED <<coreRest, dpstate, drvdata, overlapped>>
    PROVE  OInv(b)'
<1>0. x \in Data
  BY DataKinds
<1>1. CASE data[x].state = "1" /\ Step(x, "100", {x})
  BY <1>0, <1>1, StepServes DEF ReadingStates, DescriptorStates, Unpolled
<1>2. CASE data[x].state = "100" /\ Step(x, "101", {})
  BY <1>0, <1>2, StepServes DEF ReadingStates, DescriptorStates, Unpolled
<1>3. CASE data[x].state = "101" /\ ReadIn(x, "102")
  BY <1>0, <1>3, ReadInServes DEF ReadingStates, DescriptorStates, Unpolled
<1>4. CASE data[x].state = "102" /\ Step(x, "26", {})
  BY <1>0, <1>4, StepServes DEF ReadingStates, DescriptorStates, Unpolled
<1>5. CASE data[x].state = "25" /\ ReadIn(x, "26")
  BY <1>0, <1>5, ReadInServes DEF ReadingStates, DescriptorStates, Unpolled
<1> QED
  BY <1>1, <1>2, <1>3, <1>4, <1>5 DEF MidiPoll

LEMMA XboxPollServes ==
    ASSUME IInv, DInv, NEW b \in Buses, OInv(b), NEW x \in Xbox, drvdata[Root(b)] = x,
           refused = NoPacket, XboxPoll(x),
           UNCHANGED <<coreRest, dpstate, drvdata, overlapped>>
    PROVE  OInv(b)'
<1>0. x \in Data
  BY DataKinds
<1>1. CASE data[x].state = "INITIAL" /\ Step(x, "READING_REQUEST", {x})
  BY <1>0, <1>1, StepServes DEF ReadingStates, DescriptorStates, Unpolled
<1>2. CASE data[x].state = "READING_REQUEST" /\ ReadIn(x, "READING_COMPLETE")
  BY <1>0, <1>2, ReadInServes DEF ReadingStates, DescriptorStates, Unpolled
<1> QED
  BY <1>1, <1>2 DEF XboxPoll

LEMMA PollServes ==
    ASSUME IInv, DInv, NEW b \in Buses, OInv(b), DriverPoll(b)
    PROVE  OInv(b)'
<1> DEFINE x == drvdata[Root(b)]
<1>1. /\ refused = NoPacket /\ drv[Root(b)] # "NULL"
      /\ UNCHANGED <<coreRest, dpstate, drvdata, overlapped>>
  BY DEF DriverPoll
<1>2. CASE x \in Hid /\ HidPoll(x)
  BY <1>1, <1>2, HidPollServes
<1>3. CASE x \in Midi /\ MidiPoll(x)
  BY <1>1, <1>3, MidiPollServes
<1>4. CASE x \in Xbox /\ XboxPoll(x)
  BY <1>1, <1>4, XboxPollServes
<1> QED
  BY <1>2, <1>3, <1>4 DEF DriverPoll

-----------------------------------------------------------------------------
(* The calls of the application.                                           *)

LEMMA SetReportServes ==
    ASSUME IInv, DInv, NEW b, Buses = {b}, OInv(b), NEW x \in Hid, SetReport(x)
    PROVE  OInv(b)'
<1> DEFINE d == Root(b)
<1>0. /\ d \in Device /\ DataTypeOK /\ channels \in [Chan -> Carried]
      /\ control \in [Device -> Control] /\ x # Null /\ x \in Data
  BY RootIsDevice, DriversAssumption, DataKinds DEF DInv, IInv, TypeOK, BusTypeOK, Carried
<1>1. data[x].usbh_device = d /\ drvdata[d] = x /\ drv[d] = "READY"
  BY DEF SetReport, Present
<1>2. Served(d, x)
  BY <1>0, <1>1 DEF OInv
<1>3. /\ refused = NoPacket /\ data[x].report_state = "READY"
      /\ UNCHANGED <<coreRest, dpstate, drvdata, notified, overlapped>>
      /\ DeviceControl(d, "event", "OUT", control, channels)
  BY <1>1 DEF SetReport
<1>4. /\ Changes(x)
      /\ data'[x].usbh_device = data[x].usbh_device
      /\ data'[x].state = data[x].state
      /\ data'[x].report_state = "PENDING"
      /\ data'[x].sending = data[x].sending
  BY <1>0, ReportSet DEF SetReport
<1>5. \A request \in Request : ~Requests(control[d], request)
  BY <1>2, <1>3 DEF Served, PipeServed, Request
<1>6. control[d].state = "NONE"
  BY <1>1, <1>5, PipeFree
<1>7. /\ \A other \in Request : Requests(control'[d], other) <=> other = "OUT"
      /\ NoneAdded(d, "IN", channels) /\ NoneAdded(d, "OUT", channels)
  BY <1>0, <1>3, <1>6, DriverRequests DEF NoneAdded, Request
<1>8. ReadServed(d, data'[x], refused', channels')
  <2>1. ReadServed(d, data[x], NoPacket, channels)
    BY <1>2, <1>3 DEF Served
  <2> QED
    BY <1>0, <1>4, <1>7, <2>1, ReadKept
<1>9. WriteServed(d, data'[x], x \in overlapped', refused', channels')
  <2>1. WriteServed(d, data[x], x \in overlapped, NoPacket, channels)
    BY <1>2, <1>3 DEF Served
  <2>2. WriteServed(d, data'[x], x \in overlapped, refused', channels')
    BY <1>0, <1>4, <1>7, <2>1, WriteKept
  <2> QED
    BY <1>3, <2>2
<1>10. PipeServed(data'[x], control'[d])
  BY <1>2, <1>3, <1>4, <1>7 DEF Served, PipeServed, Request
<1>11. Served(d, x)'
  BY <1>2, <1>4, <1>8, <1>9, <1>10 DEF Served, OwnFields
<1> QED
  BY <1>0, <1>1, <1>3, <1>4, <1>11, ServedStep DEF coreRest

\* The application writes, with or without a write under way.
LEMMA MidiWriteServes ==
    ASSUME IInv, DInv, NEW b, Buses = {b}, OInv(b), NEW x \in Midi, MidiWrite(x)
    PROVE  OInv(b)'
<1> DEFINE d == Root(b)
<1>0. /\ d \in Device /\ DataTypeOK /\ channels \in [Chan -> Carried]
      /\ x # Null /\ x \in Data
  BY RootIsDevice, DriversAssumption, DataKinds DEF DInv, IInv, TypeOK, BusTypeOK, Carried
<1>1. drvdata[d] = x
  BY <1>0 DEF MidiWrite, DInv, Backed, Present
<1>2. Served(d, x)
  BY <1>0, <1>1 DEF OInv
<1>3. /\ refused = NoPacket
      /\ UNCHANGED <<coreVars, dpstate, drvdata, notified>>
      /\ Issue(NewPacket(d, "OUT", "event"), channels)
      /\ overlapped' = IF data[x].sending THEN overlapped \cup {x} ELSE overlapped
  BY <1>2 DEF MidiWrite, Served
<1>4. /\ Changes(x)
      /\ data'[x].usbh_device = data[x].usbh_device
      /\ data'[x].state = data[x].state
      /\ data'[x].report_state = data[x].report_state
      /\ data'[x].sending = TRUE
  BY <1>0, SendingSet DEF MidiWrite
<1>5. address'[d] \in Address
  BY <1>0, <1>3 DEF coreVars, IInv, TypeOK
<1>6. /\ \E q : Transfer(q, d, "OUT") /\ Issue(q, channels)
      /\ NoneAdded(d, "IN", channels)
  BY <1>0, <1>3, <1>5, EventPacketIssued
<1>7. ReadServed(d, data'[x], refused', channels')
  <2>1. ReadServed(d, data[x], NoPacket, channels)
    BY <1>2, <1>3 DEF Served
  <2> QED
    BY <1>0, <1>4, <1>6, <2>1, ReadKept
<1>8. WriteServed(d, data'[x], x \in overlapped', refused', channels')
  <2>1. WriteServed(d, data[x], x \in overlapped, NoPacket, channels)
    BY <1>2, <1>3 DEF Served
  <2>2. SomeOf(d, "OUT", refused', channels')
    BY <1>0, <1>6, SubmitAdds
  <2>3. CASE x \in overlapped'
    BY <2>2, <2>3 DEF WriteServed
  <2>4. CASE x \notin overlapped'
    <3>1. x \notin overlapped /\ data[x].sending # TRUE
      BY <1>3, <2>4
    <3>2. data[x].sending = FALSE
      BY <1>0, <3>1 DEF DataTypeOK, DataOf
    <3>3. NoneOf(d, "OUT", NoPacket, channels)
      BY <2>1, <3>1, <3>2 DEF WriteServed
    <3>4. OneOf(d, "OUT", refused', channels')
      BY <1>0, <1>6, <3>3, SubmitAdds
    <3> QED
      BY <1>4, <2>4, <3>4 DEF WriteServed
  <2> QED
    BY <2>3, <2>4
<1>9. PipeServed(data'[x], control'[d])
  BY <1>2, <1>3, <1>4 DEF Served, PipeServed, coreVars
<1>10. Served(d, x)'
  BY <1>2, <1>4, <1>7, <1>8, <1>9 DEF Served, OwnFields
<1> QED
  BY <1>0, <1>1, <1>3, <1>4, <1>10, ServedStep DEF coreVars

-----------------------------------------------------------------------------
(* The callbacks of the drivers.                                           *)

LEMMA SettlesTyped ==
    ASSUME IInv, NEW p, NEW chs, Settles(p, chs)
    PROVE  chs \in [Chan -> Carried] /\ channels \in [Chan -> Carried]
BY ReleasedTyped DEF Settles, IInv, TypeOK, BusTypeOK, Carried

\* A read has ended: the driver waited for it, and for no other.
LEMMA ReadEnds ==
    ASSUME IInv, DInv, NEW b \in Buses, OInv(b), NEW p \in Packet, p.dev = Root(b),
           NEW r, NEW chs, Settles(p, chs), p.callback = "event", p.kind = "IN",
           NEW x \in Data, drvdata[Root(b)] = x,
           \/ x \in Hid /\ HidEvent(x, r)
           \/ x \in Midi /\ MidiEvent(x, r)
           \/ x \in Xbox /\ XboxEvent(x, r),
           control' = control, NoIssue(chs),
           UNCHANGED <<coreRest, drvdata, notified, overlapped>>
    PROVE  OInv(b)'
<1> DEFINE d == Root(b)
<1>0. /\ DataTypeOK /\ x # Null
      /\ channels \in [Chan -> Carried] /\ chs \in [Chan -> Carried]
  BY SettlesTyped, DriversAssumption DEF DInv
<1>1. Served(d, x)
  BY <1>0 DEF OInv
<1>2. Transfer(p, d, "IN") /\ ~Transfer(p, d, "OUT")
  BY DEF Transfer, Carries
<1>3. data[x].state \in ReadingStates /\ OneOf(d, "IN", refused, channels)
  <2>1. SomeOf(d, "IN", refused, channels)
    BY <1>2 DEF Settles, SomeOf
  <2> QED
    BY <1>1, <2>1 DEF Served, ReadServed, NoneOf, SomeOf
<1>4. NoneOf(d, "IN", NoPacket, chs)
  BY <1>0, <1>2, <1>3, AnswerTakes
<1>5. PICK s \in {"READING_REQUEST", "INACTIVE", "25", "101"} :
         data' = [data EXCEPT ![x].state = s]
  BY <1>3, DataKinds DEF HidEvent, MidiEvent, XboxEvent, ReadingStates, DInv, DataTypeOK,
     DataOf, HidState, MidiState, XboxState
<1>6. Changes(x) /\ SameButState(x) /\ data'[x].state = s
  BY <1>0, <1>5, StateSet
<1>7. NoneAdded(d, "OUT", chs) /\ NoneAdded(d, "IN", chs)
  BY DEF NoneAdded
<1>8. ReadServed(d, data'[x], refused', channels')
  BY <1>0, <1>4, <1>6, SubmitKeeps DEF ReadServed, ReadingStates
<1>9. WriteServed(d, data'[x], x \in overlapped', refused', channels')
  <2>1. WriteServed(d, data[x], x \in overlapped, NoPacket, chs)
    BY <1>0, <1>1, <1>2, AnswerKeeps DEF Served, WriteServed
  <2>2. WriteServed(d, data'[x], x \in overlapped, refused', channels')
    BY <1>0, <1>6, <1>7, <2>1, WriteKept DEF SameButState
  <2> QED
    BY <2>2
<1>10. PipeServed(data'[x], control'[d])
  BY <1>1, <1>3, <1>6 DEF Served, PipeServed, SameButState, ReadingStates
<1>11. Served(d, x)'
  BY <1>1, <1>6, <1>8, <1>9, <1>10 DEF Served, OwnFields, SameButState
<1>12. data[x].state \notin Unpolled /\ data'[x].state \notin Unpolled
  BY <1>3, <1>6 DEF ReadingStates, Unpolled
<1> QED
  BY <1>0, <1>6, <1>11, <1>12, ServedStep DEF coreRest

\* A write has ended: it was one of MIDI.
LEMMA WriteEnds ==
    ASSUME IInv, DInv, NEW b \in Buses, OInv(b), NEW p \in Packet, p.dev = Root(b),
           NEW chs, Settles(p, chs), p.callback = "event", p.kind = "OUT",
           NEW x \in Data, drvdata[Root(b)] = x, WriteCallback(x),
           control' = control, NoIssue(chs),
           UNCHANGED <<coreRest, drvdata, notified, overlapped>>
    PROVE  OInv(b)'
<1> DEFINE d == Root(b)
<1>0. /\ DataTypeOK /\ x # Null
      /\ channels \in [Chan -> Carried] /\ chs \in [Chan -> Carried]
  BY SettlesTyped, DriversAssumption DEF DInv
<1>1. Served(d, x)
  BY <1>0 DEF OInv
<1>2. Transfer(p, d, "OUT") /\ ~Transfer(p, d, "IN")
  BY DEF Transfer, Carries
<1>3. SomeOf(d, "OUT", refused, channels) /\ ~NoneOf(d, "OUT", refused, channels)
  BY <1>2 DEF Settles, SomeOf, NoneOf
<1>4. /\ Changes(x)
      /\ data'[x].usbh_device = data[x].usbh_device
      /\ data'[x].state = data[x].state
      /\ data'[x].report_state = data[x].report_state
      /\ data'[x].sending = FALSE
  BY <1>0, SendingSet DEF WriteCallback
<1>5. NoneAdded(d, "IN", chs)
  BY DEF NoneAdded
<1>6. ReadServed(d, data'[x], refused', channels')
  <2>1. ReadServed(d, data[x], NoPacket, chs)
    BY <1>0, <1>1, <1>2, AnswerKeeps DEF Served, ReadServed
  <2> QED
    BY <1>0, <1>4, <1>5, <2>1, ReadKept
<1>7. WriteServed(d, data'[x], x \in overlapped', refused', channels')
  <2>1. CASE x \in overlapped
    BY <1>4, <2>1 DEF WriteServed
  <2>2. CASE x \notin overlapped
    <3>1. OneOf(d, "OUT", refused, channels)
      BY <1>1, <1>3, <2>2 DEF Served, WriteServed
    <3>2. NoneOf(d, "OUT", NoPacket, chs)
      BY <1>0, <1>2, <3>1, AnswerTakes
    <3>3. NoneOf(d, "OUT", refused', channels')
      BY <1>0, <3>2, SubmitKeeps
    <3> QED
      BY <1>4, <2>2, <3>3 DEF WriteServed
  <2> QED
    BY <2>1, <2>2
<1>8. PipeServed(data'[x], control'[d])
  BY <1>1, <1>4 DEF Served, PipeServed
<1>9. Served(d, x)'
  BY <1>1, <1>4, <1>6, <1>7, <1>8 DEF Served, OwnFields
<1> QED
  BY <1>0, <1>4, <1>9, ServedStep DEF coreRest

\* A request of HID has ended: the descriptor, or the report.
LEMMA RequestEnds ==
    ASSUME IInv, DInv, NEW b \in Buses, OInv(b), NEW p \in Packet, p.dev = Root(b),
           NEW r, NEW chs, Settles(p, chs), p.callback = "control_state_machine",
           NEW x \in Data, drvdata[Root(b)] = x,
           control[Root(b)].state # "NONE", control[Root(b)].callback = "event",
           DriverCallback(Root(b), control[Root(b)].request, r, PipeIdle(Root(b)), chs)
    PROVE  OInv(b)'
<1> DEFINE d == Root(b)
           request == control[d].request
<1>0. /\ DataTypeOK /\ x # Null /\ d \in Device /\ CoreTypeOK
      /\ channels \in [Chan -> Carried] /\ chs \in [Chan -> Carried]
  BY SettlesTyped, DriversAssumption, RootIsDevice DEF DInv, IInv, TypeOK, CoreTypeOK
<1>1. Served(d, x) /\ Requests(control[d], request)
  BY <1>0 DEF OInv, Requests
<1>2. control'[d].state = "NONE" /\ NoIssue(chs)
      /\ UNCHANGED <<coreRest, drvdata, notified, overlapped>>
  BY <1>0, PipeIdleTyped DEF DriverCallback, IdleControl
<1>3. \A other : ~Requests(control'[d], other)
  BY <1>2, IdleServes
<1>4. ~Transfer(p, d, "IN") /\ ~Transfer(p, d, "OUT")
  BY DEF Transfer, Carries
<1>5. /\ NoneAdded(d, "IN", chs) /\ NoneAdded(d, "OUT", chs)
      /\ ReadServed(d, data[x], NoPacket, chs)
      /\ WriteServed(d, data[x], x \in overlapped, NoPacket, chs)
  BY <1>0, <1>1, <1>2, <1>4, AnswerKeeps DEF Served, ReadServed, WriteServed, NoneAdded
<1>6. ASSUME Changes(x), data'[x].usbh_device = data[x].usbh_device, x \in Hid,
             data'[x].state \in ReadingStates <=> data[x].state \in ReadingStates,
             data'[x].sending = data[x].sending,
             PipeServed(data'[x], control'[d])
      PROVE  OInv(b)'
  <2>1. ReadServed(d, data'[x], refused', channels')
    BY <1>0, <1>5, <1>6, ReadKept
  <2>2. WriteServed(d, data'[x], x \in overlapped', refused', channels')
    <3>1. WriteServed(d, data'[x], x \in overlapped, refused', channels')
      BY <1>0, <1>5, <1>6, WriteKept
    <3> QED
      BY <1>2, <3>1
  <2>3. Served(d, x)'
    BY <1>1, <1>6, <2>1, <2>2 DEF Served, OwnFields
  <2> QED
    BY <1>0, <1>2, <1>6, <2>3, ServedStep DEF coreRest
<1>7. CASE request = "IN"
  <2>1. data[x].state = "GET_REPORT_DESCRIPTOR_READ_COMPLETE" /\ data[x].report_state = "NULL"
    BY <1>1, <1>7 DEF Served, PipeServed
  <2>2. x \in Hid
    BY <1>0, <2>1, DataKinds DEF DataTypeOK, DataOf, Data, MidiState, XboxState
  <2>3. HidEvent(x, r)
    BY <1>7, <2>2, DataKinds, DriversAssumption DEF DriverCallback
  <2>4. CASE data' = [data EXCEPT ![x].state = "READING_REQUEST",
                                  ![x].report_state = "READY"]
    <3>1. /\ Changes(x)
          /\ data'[x] = [data[x] EXCEPT !.state = "READING_REQUEST",
                                        !.report_state = "READY"]
      BY <1>0, <2>4 DEF DataTypeOK, Changes
    <3>2. /\ data'[x].usbh_device = data[x].usbh_device
          /\ data'[x].state = "READING_REQUEST"
          /\ data'[x].report_state = "READY"
          /\ data'[x].sending = data[x].sending
      BY <1>0, <3>1 DEF DataTypeOK, DataOf
    <3>3. PipeServed(data'[x], control'[d])
      BY <1>3, <3>2 DEF PipeServed
    <3> QED
      BY <1>6, <2>1, <2>2, <3>1, <3>2, <3>3 DEF ReadingStates
  <2>5. CASE data' = [data EXCEPT ![x].state = "INACTIVE"]
    <3>1. Changes(x) /\ SameButState(x) /\ data'[x].state = "INACTIVE"
      BY <1>0, <2>5, StateSet
    <3>2. PipeServed(data'[x], control'[d])
      BY <1>3, <2>1, <3>1 DEF PipeServed, SameButState
    <3> QED
      BY <1>6, <2>1, <2>2, <3>1, <3>2 DEF ReadingStates, SameButState
  <2> QED
    BY <2>1, <2>3, <2>4, <2>5 DEF HidEvent
<1>8. CASE request = "OUT"
  <2>1. data[x].report_state = "PENDING" /\ data[x].state \notin DescriptorStates
    BY <1>1, <1>8 DEF Served, PipeServed, DescriptorStates
  <2>2. x \in Hid
    BY <1>1, <2>1 DEF Served, OwnFields
  <2>3. ReportEvent(x)
    BY <1>8, <2>2, DataKinds, DriversAssumption DEF DriverCallback
  <2>4. /\ Changes(x)
        /\ data'[x].usbh_device = data[x].usbh_device
        /\ data'[x].state = data[x].state
        /\ data'[x].report_state = "READY"
        /\ data'[x].sending = data[x].sending
    BY <1>0, <2>3, ReportSet DEF ReportEvent
  <2>5. PipeServed(data'[x], control'[d])
    BY <1>3, <2>1, <2>4 DEF PipeServed, DescriptorStates
  <2> QED
    BY <1>6, <2>2, <2>4, <2>5
<1>9. request # "NODATA" /\ request \in Request
  BY <1>0, <1>1 DEF Served, PipeServed, CoreTypeOK, Control
<1> QED
  BY <1>7, <1>8, <1>9 DEF Request

\* A callback of a driver.
LEMMA DriverCallbackServes ==
    ASSUME IInv, DInv, NEW b \in Buses, OInv(b), NEW p \in Packet, p.dev = Root(b),
           NEW r, NEW chs, Settles(p, chs),
           \/ /\ DriverRequestEnds(p, r)
              /\ DriverCallback(p.dev, control[p.dev].request, ControlResult(p.dev, r),
                                PipeIdle(p.dev), chs)
           \/ /\ p.callback = "event"
              /\ DriverCallback(p.dev, p.kind, r, control, chs)
    PROVE  OInv(b)'
<1> DEFINE d == Root(b)
<1>0. d \in Device /\ drvdata[d] \in Data \cup {Null}
  BY RootIsDevice DEF DInv, DataTypeOK
<1>1. CASE drvdata[d] = Null
  <2>1. UNCHANGED <<coreRest, drvdata, notified, overlapped, data>>
    BY <1>1, DataKinds, DriversAssumption DEF DriverCallback
  <2> QED
    BY <1>1, <2>1 DEF OInv, OnlyRoot, Known, Introduced, coreRest
<1>2. CASE drvdata[d] # Null
  <2>1. CASE p.callback = "event" /\ DriverCallback(d, p.kind, r, control, chs)
    <3> DEFINE x == drvdata[d]
    <3>1. /\ control' = control /\ NoIssue(chs)
          /\ UNCHANGED <<coreRest, drvdata, notified, overlapped>>
      BY <2>1 DEF DriverCallback
    <3>2. CASE /\ p.kind = "IN"
               /\ \/ x \in Hid /\ HidEvent(x, r)
                  \/ x \in Midi /\ MidiEvent(x, r)
                  \/ x \in Xbox /\ XboxEvent(x, r)
      BY <1>0, <1>2, <2>1, <3>1, <3>2, ReadEnds
    <3>3. CASE p.kind = "OUT" /\ x \in Midi /\ WriteCallback(x)
      BY <1>0, <1>2, <2>1, <3>1, <3>3, WriteEnds
    <3>4. CASE p.kind = "OUT" /\ x \in Hid
      <4>1. Served(d, x) /\ x \notin Midi /\ x \notin overlapped
        BY <1>2, <3>4, DataKinds DEF OInv, DInv, DataTypeOK
      <4>2. NoneOf(d, "OUT", refused, channels)
        BY <4>1 DEF Served, OwnFields, WriteServed
      <4> QED
        BY <2>1, <3>4, <4>2 DEF NoneOf, Settles, Transfer, Carries
    <3> QED
      BY <1>2, <2>1, <3>2, <3>3, <3>4 DEF DriverCallback
  <2>2. CASE /\ DriverRequestEnds(p, r)
             /\ DriverCallback(d, control[d].request, ControlResult(d, r), PipeIdle(d), chs)
    BY <1>0, <1>2, <2>2, RequestEnds DEF DriverRequestEnds, ControlEnds
  <2> QED
    BY <2>1, <2>2
<1> QED
  BY <1>1, <1>2

-----------------------------------------------------------------------------
(* The callbacks of the core.                                              *)

\* An answer that is no transfer, and after which none is submitted.
LEMMA NoTransferKeepsServed ==
    ASSUME IInv, NEW d, NEW x, Served(d, x), NEW p, NEW chs, Settles(p, chs),
           p.callback # "event",
           NoneAdded(d, "IN", chs), NoneAdded(d, "OUT", chs),
           UNCHANGED <<data, overlapped>>,
           \A request : Requests(control'[d], request) <=> Requests(control[d], request)
    PROVE  Served(d, x)'
<1>0. channels \in [Chan -> Carried] /\ chs \in [Chan -> Carried]
  BY SettlesTyped
<1>1. ~Transfer(p, d, "IN") /\ ~Transfer(p, d, "OUT")
  BY DEF Transfer, Carries
<1>2. ReadServed(d, data[x], refused', channels')
  <2>1. ReadServed(d, data[x], NoPacket, chs)
    BY <1>0, <1>1, AnswerKeeps DEF Served, ReadServed
  <2> QED
    BY <1>0, <2>1, ReadKept
<1>3. WriteServed(d, data[x], x \in overlapped, refused', channels')
  <2>1. WriteServed(d, data[x], x \in overlapped, NoPacket, chs)
    BY <1>0, <1>1, AnswerKeeps DEF Served, WriteServed
  <2> QED
    BY <1>0, <2>1, WriteKept
<1>4. PipeServed(data[x], control'[d])
  BY DEF Served, PipeServed
<1> QED
  BY <1>2, <1>3, <1>4 DEF Served

\* While a driver is bound, only a request of its own makes the core act.
LEMMA CoreCallbackServes ==
    ASSUME IInv, DInv, NEW b \in Buses, OInv(b), NEW p \in Packet, p.dev = Root(b),
           NEW r, NEW chs, Settles(p, chs), CoreCallback(p, r, chs), drv' = drv,
           UNCHANGED driversVars
    PROVE  OInv(b)'
<1> DEFINE d == Root(b)
<1>0. d \in Device /\ control \in [Device -> Control] /\ p.kind \in Kind
  BY RootIsDevice DEF IInv, TypeOK, Packet
<1>1. ASSUME NEW x, drvdata[d] = x, x # Null
      PROVE  Served(d, x)'
  <2>1. Served(d, x)
    BY <1>1 DEF OInv
  <2>2. /\ control[d].state = "NONE" \/ control[d].callback = "event"
        /\ \A k \in Kind : ~Awaits(d, "device_enumerate", k)
    BY <1>1, BoundPort DEF OInv, OnlyRoot
  <2>3. p.callback # "device_enumerate"
    BY <1>0, <2>2 DEF Settles, Awaits, Carries
  <2>4. CASE ControlAdvance(d, r, chs)
    <3>1. /\ control[d].state # "NONE"
          /\ control'[d] = [control[d] EXCEPT !.state = NextStage(d)]
          /\ NextStage(d) # "NONE"
      BY <1>0, <2>4 DEF ControlAdvance, NextStage
    <3>2. \A request : Requests(control'[d], request) <=> Requests(control[d], request)
      BY <1>0, <3>1 DEF Requests, Control
    <3>3. NoneAdded(d, "IN", chs) /\ NoneAdded(d, "OUT", chs)
      BY <2>4 DEF ControlAdvance, NoneAdded, NewPacket, Transfer, Carries
    <3>4. p.callback # "event"
      BY <2>3 DEF CoreCallback
    <3> QED
      BY <2>1, <3>2, <3>3, <3>4, NoTransferKeepsServed DEF driversVars
  <2>5. CASE ControlIgnored(d, chs)
    <3>1. NoneAdded(d, "IN", chs) /\ NoneAdded(d, "OUT", chs) /\ control' = control
      BY <2>5 DEF ControlIgnored, NoneAdded, coreVars
    <3>2. p.callback # "event"
      BY <2>3 DEF CoreCallback
    <3> QED
      BY <2>1, <3>1, <3>2, NoTransferKeepsServed DEF driversVars
  <2> QED
    BY <2>2, <2>3, <2>4, <2>5 DEF CoreCallback, ControlEnds
<1> QED
  BY <1>1 DEF OInv, OnlyRoot, Known, Introduced, driversVars

\* The callback that registers a device submits nothing and leaves no request.
LEMMA RegistrationQuiet ==
    ASSUME IInv, NEW b \in Buses, NEW p, p.dev = Root(b), NEW r, NEW chs,
           Registers(p, r), CoreCallback(p, r, chs)
    PROVE  /\ NoIssue(chs) /\ p.callback # "event"
           /\ control' = control \/ control'[Root(b)].state = "NONE"
<1> DEFINE d == Root(b)
<1>0. CoreTypeOK /\ d \in Device
  BY RootIsDevice DEF IInv, TypeOK, CoreTypeOK
<1>1. CASE p.callback = "device_enumerate"
  <2>1. DeviceEnumerate(d, "OK", control, chs) /\ estate[d] = "SET_CONFIGURATION_COMPLETE"
    BY <1>1 DEF Registers, CoreCallback
  <2>2. SetConfigurationComplete(d, "OK", control, chs)
    BY <2>1 DEF DeviceEnumerate, SetAddressComplete, DeviceDtReadComplete,
       ConfigurationSetupSent, HeaderReadComplete, ConfigurationReadComplete
  <2> QED
    BY <1>1, <2>2 DEF SetConfigurationComplete
<1>2. CASE p.callback = "control_state_machine"
  <2>1. /\ estate[d] = "SET_CONFIGURATION_COMPLETE"
        /\ ControlEnds(d, r) /\ ControlResult(d, r) = "OK"
    BY <1>2 DEF Registers
  <2>2. ~ControlAdvance(d, r, chs) /\ ~ControlIgnored(d, chs)
    BY <2>1 DEF ControlEnds, ControlAdvance, ControlIgnored
  <2>3. DeviceEnumerate(d, "OK", PipeIdle(d), chs)
    BY <1>2, <2>1, <2>2 DEF CoreCallback
  <2>4. SetConfigurationComplete(d, "OK", PipeIdle(d), chs)
    BY <2>1, <2>3 DEF DeviceEnumerate, SetAddressComplete, DeviceDtReadComplete,
       ConfigurationSetupSent, HeaderReadComplete, ConfigurationReadComplete
  <2> QED
    BY <1>0, <1>2, <2>4, PipeIdleTyped DEF SetConfigurationComplete, IdleControl
<1> QED
  BY <1>1, <1>2 DEF Registers

\* No driver data are in use while the root device is unbound.
LEMMA UnboundUnused ==
    ASSUME DInv, NEW b, Buses = {b}, OInv(b), drv[Root(b)] = "NULL"
    PROVE  /\ drvdata[Root(b)] = Null
           /\ \A y \in Data : data[y].state = "INACTIVE"
           /\ notified = {}
<1>1. drvdata[Root(b)] = Null
  BY DEF OInv, OnlyRoot
<1>2. \A y \in Data : y # Null
  BY DriversAssumption
<1> QED
  BY <1>1, <1>2, DataKinds DEF DInv, DataTypeOK, Backed, Present, OInv, Known

\* The fields of data that are given to a device.
LEMMA AnalyzedFields ==
    ASSUME NEW x \in Data, NEW d
    PROVE  LET dt == Analyzed(x, d)
           IN  /\ dt.usbh_device = d
               /\ dt.report_state = "NULL"
               /\ dt.sending = FALSE
               /\ dt.state \notin ReadingStates
               /\ dt.state # "GET_REPORT_DESCRIPTOR_READ_COMPLETE"
               /\ x \notin Hid /\ drv'[d] = "READY" => dt.state \in Unpolled
<1>1. /\ FirstState(x) \in {"GET_REPORT_DESCRIPTOR_READ_SETUP", "1", "INITIAL"}
      /\ x \notin Hid => FirstState(x) \in Unpolled
  BY DEF FirstState, Unpolled
<1>2. CASE drv'[d] = "READY"
  <2>1. /\ Analyzed(x, d).state = FirstState(x)
        /\ Analyzed(x, d).usbh_device = d
        /\ Analyzed(x, d).report_state = "NULL"
        /\ Analyzed(x, d).sending = FALSE
    BY <1>2 DEF Analyzed, Fresh
  <2> QED
    BY <1>1, <2>1 DEF ReadingStates
<1>3. CASE drv'[d] # "READY"
  <2>1. Analyzed(x, d) = Fresh(d)
    BY <1>3 DEF Analyzed
  <2> QED
    BY <1>3, <2>1 DEF Fresh, ReadingStates
<1> QED
  BY <1>2, <1>3

\* A driver starts with nothing outstanding, since the port was up and the device
\* had no driver.
LEMMA RegisteredServes ==
    ASSUME IInv, DInv, DriverOnlyWhenSettled', NEW b, Buses = {b}, OInv(b),
           NEW p \in Packet, p.dev = Root(b), NEW r, NEW chs, Settles(p, chs), UNCHANGED dpstate,
           Registers(p, r), CoreCallback(p, r, chs), Registered(Root(b))
    PROVE  OInv(b)'
<1> DEFINE d == Root(b)
<1>0. /\ d \in Device /\ channels \in [Chan -> Carried] /\ chs \in [Chan -> Carried]
      /\ DataTypeOK
  BY RootIsDevice, SettlesTyped DEF DInv
<1>1. PICK tried \in SUBSET {y \in Data : FirstFree(y)},
           x \in {y \in Data : FirstFree(y)} \cup {Null} :
       /\ IF x # Null THEN drv'[d] # "NULL"
          ELSE drv'[d] = "NULL" \/ drv'[d] = "UNREADY"
       /\ drvdata' = [drvdata EXCEPT ![d] = x]
       /\ data' = [y \in Data |->
             IF y = x THEN Analyzed(x, d) ELSE IF y \in tried THEN Fresh(d) ELSE data[y]]
       /\ notified' = notified \ tried
       /\ overlapped' = overlapped \ (tried \cup {x})
  BY DEF Registered
<1>2. /\ drv[d] = "NULL" /\ drvdata[d] = Null
      /\ \A y \in Data : data[y].state = "INACTIVE"
      /\ notified = {}
  BY RegistersUnbound, UnboundUnused
<1>3. drvdata'[d] = x /\ \A e \in Device \ {d} : drvdata'[e] = Null
  BY <1>0, <1>1 DEF DataTypeOK, OInv, OnlyRoot
<1>4. OnlyRoot(b)'
  BY <1>1, <1>3 DEF OnlyRoot
<1>5. Known(b)'
  <2>1. ~Introduced(d)'
    <3> SUFFICES ASSUME drv'[d] = "READY", x \in Midi \cup Xbox
                 PROVE  data'[x].state \in Unpolled
      BY <1>3 DEF Introduced, Unpolled
    <3>1. x \in Data /\ x \notin Hid
      BY DataKinds
    <3>2. data'[x] = Analyzed(x, d)
      BY <1>1, <3>1
    <3> QED
      BY <3>1, <3>2, AnalyzedFields
  <2> QED
    BY <1>1, <1>2, <2>1 DEF Known
<1>6. ASSUME x # Null
      PROVE  Served(d, x)'
  <2>1. dpstate[b] = "RUN"
    BY <1>1, <1>6 DEF DriverOnlyWhenSettled
  <2>2. NoEvents(d)
    BY <1>2, <2>1 DEF IInv, PortInv, Up
  <2>3. NoIssue(chs) /\ p.callback # "event"
    BY RegistrationQuiet
  <2>4. \A kind \in {"IN", "OUT"} : NoneOf(d, kind, refused', channels')
    <3>1. TAKE kind \in {"IN", "OUT"}
    <3>2. NoneOf(d, kind, refused, channels) /\ ~Transfer(p, d, kind)
      BY <2>2, <2>3 DEF NoneOf, NoEvents, EventPacket, Transfer, Carries
    <3>3. NoneOf(d, kind, NoPacket, chs)
      BY <1>0, <3>2, AnswerKeeps
    <3> QED
      BY <1>0, <2>3, <3>3, SubmitKeeps
  <2>5. \A request : ~Requests(control'[d], request)
    <3>1. control[d].state = "NONE" \/ control[d].callback # "event"
      BY <1>2, <2>1, InvCallback DEF CallbackHasDriver
    <3> QED
      BY <3>1, RegistrationQuiet DEF Requests
  <2>6. x \in Data /\ data'[x] = Analyzed(x, d) /\ x \notin overlapped'
    BY <1>1, <1>6
  <2>7. /\ data'[x].usbh_device = d
        /\ data'[x].report_state = "NULL"
        /\ data'[x].sending = FALSE
        /\ data'[x].state \notin ReadingStates
        /\ data'[x].state # "GET_REPORT_DESCRIPTOR_READ_COMPLETE"
    <3> DEFINE dt == Analyzed(x, d)
    <3>1. /\ dt.usbh_device = d
          /\ dt.report_state = "NULL"
          /\ dt.sending = FALSE
          /\ dt.state \notin ReadingStates
          /\ dt.state # "GET_REPORT_DESCRIPTOR_READ_COMPLETE"
      BY <2>6, AnalyzedFields
    <3> QED
      BY <2>6, <3>1
  <2>8. ReadServed(d, data'[x], refused', channels')
    BY <2>4, <2>7 DEF ReadServed
  <2>9. WriteServed(d, data'[x], x \in overlapped', refused', channels')
    BY <2>4, <2>6, <2>7 DEF WriteServed
  <2>10. PipeServed(data'[x], control'[d]) /\ OwnFields(x, data'[x])
    BY <2>5, <2>7 DEF PipeServed, OwnFields
  <2> QED
    BY <2>7, <2>8, <2>9, <2>10 DEF Served
<1> QED
  BY <1>3, <1>4, <1>5, <1>6 DEF OInv

-----------------------------------------------------------------------------
(* The steps.                                                              *)

LEMMA InvDriverNext == IInv' => DriverOnlyWhenSettled'
BY InvDriver, PTL

LEMMA PacketCallbackServes ==
    ASSUME IInv, DInv, DriverOnlyWhenSettled', NEW b, Buses = {b}, OInv(b),
           NEW p \in Packet, p.dev = Root(b), NEW r, NEW chs, Settles(p, chs),
           UNCHANGED dpstate, DriversPacketCallback(p, r, chs)
    PROVE  OInv(b)'
<1>1. CASE DriversCoreCallback(p, r, chs) /\ Registers(p, r)
  BY <1>1, RegisteredServes DEF DriversCoreCallback
<1>2. CASE DriversCoreCallback(p, r, chs) /\ ~Registers(p, r)
  BY <1>2, OnlyRegistrationBinds, CoreCallbackServes DEF DriversCoreCallback
<1>3. CASE \/ /\ DriverRequestEnds(p, r)
              /\ DriverCallback(p.dev, control[p.dev].request, ControlResult(p.dev, r),
                                PipeIdle(p.dev), chs)
           \/ p.callback = "event" /\ DriverCallback(p.dev, p.kind, r, control, chs)
  BY <1>3, DriverCallbackServes
<1> QED
  BY <1>1, <1>2, <1>3 DEF DriversPacketCallback

LEMMA CompletionServes ==
    ASSUME IInv, DInv, DriverOnlyWhenSettled', NEW b, Buses = {b}, OInv(b),
           NEW c \in Chan, DriversCompletion(c)
    PROVE  OInv(b)'
<1> DEFINE p == channels[c]
<1>1. PICK r \in Responses(p), left \in {NoPacket, Halting} :
         DriversPacketCallback(p, r, Released(c, left))
  BY DEF DriversCompletion
<1>2. p \in Packet /\ refused = NoPacket /\ UNCHANGED dpstate
  BY DEF DriversCompletion, Answerable
<1>3. p.dev = Root(b)
  BY <1>2 DEF IInv, RootPackets, Chan
<1>4. Settles(p, Released(c, left))
  BY <1>2 DEF Settles
<1> QED
  BY <1>1, <1>2, <1>3, <1>4, PacketCallbackServes

LEMMA RefusalServes ==
    ASSUME IInv, DInv, DriverOnlyWhenSettled', NEW b, Buses = {b}, OInv(b),
           DriversRefusal
    PROVE  OInv(b)'
<1>1. refused \in Packet
  BY DEF DriversRefusal, IInv, TypeOK, BusTypeOK
<1>2. refused.dev = Root(b)
  BY <1>1 DEF IInv, RootPackets
<1>3. Settles(refused, channels)
  BY DEF Settles
<1> QED
  BY <1>1, <1>2, <1>3, PacketCallbackServes DEF DriversRefusal

\* A channel that had been told to stop is free again.
LEMMA HaltedServes ==
    ASSUME IInv, DInv, NEW b \in Buses, OInv(b), NEW c \in Chan, Halted(c),
           UNCHANGED driversVars
    PROVE  OInv(b)'
<1> DEFINE d == Root(b)
           chs == Released(c, NoPacket)
<1>1. /\ refused = NoPacket /\ channels[c] = Halting
      /\ NoIssue(chs) /\ UNCHANGED coreVars
  BY DEF Halted, ChannelHalted, NoIssue, Released
<1>2. /\ channels \in [Chan -> Carried] /\ chs \in [Chan -> Carried]
      /\ Settles(Halting, chs)
  BY <1>1, ReleasedTyped DEF Settles, IInv, TypeOK, BusTypeOK, Carried
<1>3. \A kind : ~Transfer(Halting, d, kind) /\ NoneAdded(d, kind, chs)
  BY <1>1, NoTransfer DEF NoneAdded
<1>4. ASSUME NEW x, drvdata[d] = x, x # Null
      PROVE  Served(d, x)'
  <2>1. Served(d, x)
    BY <1>4 DEF OInv
  <2>2. ReadServed(d, data[x], refused', channels')
    <3>1. ReadServed(d, data[x], NoPacket, chs)
      BY <1>2, <1>3, <2>1, AnswerKeeps DEF Served, ReadServed
    <3> QED
      BY <1>2, <1>3, <3>1, ReadKept
  <2>3. WriteServed(d, data[x], x \in overlapped, refused', channels')
    <3>1. WriteServed(d, data[x], x \in overlapped, NoPacket, chs)
      BY <1>2, <1>3, <2>1, AnswerKeeps DEF Served, WriteServed
    <3> QED
      BY <1>2, <1>3, <3>1, WriteKept
  <2> QED
    BY <1>1, <2>1, <2>2, <2>3 DEF Served, driversVars, coreVars
<1> QED
  BY <1>1, <1>4 DEF OInv, OnlyRoot, Known, Introduced, driversVars, coreVars

\* A port that comes up has no driver yet.
LEMMA PortComesServes ==
    ASSUME IInv, NEW b \in Buses, OInv(b), Reset(b) \/ Connected(b),
           UNCHANGED driversVars
    PROVE  OInv(b)'
<1>1. dpstate[b] # "RUN" /\ drv' = drv
  BY DEF Reset, PortReset, Connected, PortEnabled, coreVars
<1>2. drvdata[Root(b)] = Null
  BY <1>1, InvDriver DEF OInv, OnlyRoot, DriverOnlyWhenSettled
<1> QED
  BY <1>1, <1>2 DEF OInv, OnlyRoot, Known, Introduced, driversVars

\* With the port go the driver and what the application knows.
LEMMA DisconnectedServes ==
    ASSUME DInv, NEW b, Buses = {b}, OInv(b), DriversDisconnected(b)
    PROVE  OInv(b)'
<1> DEFINE d == Root(b)
           x == drvdata[d]
           removed == {drvdata[e] : e \in {f \in Device : f[1] = b}} \ {Null}
<1>0. d \in Device /\ d[1] = b /\ (\A e \in Device : e[1] = b) /\ DataTypeOK
  BY RootIsDevice DEF Device, DInv
<1>1. /\ drvdata' = [e \in Device |-> IF e[1] = b THEN Null ELSE drvdata[e]]
      /\ data' = [y \in Data |-> IF y \in removed THEN [data[y] EXCEPT !.state = "INACTIVE"]
                                 ELSE data[y]]
      /\ notified' = notified \ removed
      /\ drv' = [e \in Device |-> IF e \in {f \in Device : f[1] = b} THEN "NULL" ELSE drv[e]]
  BY DEF DriversDisconnected, Removed, Disconnected, DeviceRemove
<1>2. \A e \in Device : drvdata'[e] = Null /\ drv'[e] = "NULL"
  BY <1>0, <1>1
<1>3. notified' = {}
  <2>1. \A y \in notified : y = x /\ y # Null
    BY DataKinds, DriversAssumption DEF OInv, Known, DInv, DataTypeOK
  <2> QED
    BY <1>0, <1>1, <2>1
<1> QED
  BY <1>0, <1>2, <1>3 DEF OInv, OnlyRoot, Known, Introduced

LEMMA OneBusStep ==
    ASSUME NEW b, Buses = {b}
    PROVE  IInv /\ DInv /\ OInv(b) /\ [DriversNext]_dvars => OInv(b)'
<1> SUFFICES ASSUME IInv, DInv, OInv(b), [DriversNext]_dvars
             PROVE  OInv(b)'
  OBVIOUS
<1>0. DriverOnlyWhenSettled'
  BY DriversStep, InvStep, InvDriverNext
<1>1. CASE (Reset(b) \/ Connected(b)) /\ UNCHANGED driversVars
  BY <1>1, PortComesServes
<1>2. CASE DriversDisconnected(b)
  BY <1>2, DisconnectedServes
<1>3. CASE DriverPoll(b)
  BY <1>3, PollServes
<1>4. ASSUME NEW x \in Hid, SetReport(x)
      PROVE  OInv(b)'
  BY <1>4, SetReportServes
<1>5. ASSUME NEW x \in Midi, MidiWrite(x)
      PROVE  OInv(b)'
  BY <1>5, MidiWriteServes
<1>6. ASSUME NEW c \in Chan, DriversCompletion(c)
      PROVE  OInv(b)'
  BY <1>0, <1>6, CompletionServes
<1>7. ASSUME NEW c \in Chan, Halted(c), UNCHANGED driversVars
      PROVE  OInv(b)'
  BY <1>7, HaltedServes
<1>8. CASE DriversRefusal
  BY <1>0, <1>8, RefusalServes
<1>9. CASE UNCHANGED dvars
  BY <1>9 DEF dvars, driversVars, vars, busVars, coreVars, OInv, OnlyRoot, Known, Introduced,
     Served
<1> QED
  BY <1>1, <1>2, <1>3, <1>4, <1>5, <1>6, <1>7, <1>8, <1>9 DEF DriversNext

LEMMA OneBusInit ==
    ASSUME NEW b, Buses = {b}
    PROVE  DriversInit => OInv(b)
<1> SUFFICES ASSUME DriversInit
             PROVE  OInv(b)
  OBVIOUS
<1>1. /\ \A d \in Device : drvdata[d] = Null /\ drv[d] = "NULL"
      /\ notified = {} /\ Root(b) \in Device
  BY RootIsDevice DEF DriversInit, Init
<1> QED
  BY <1>1 DEF OInv, OnlyRoot, Known, Introduced

-----------------------------------------------------------------------------
(* The theorems.                                                           *)

\* With one bus, the data bound to the root device say what is outstanding for
\* it, no other device has any, and the application knows nobody else.
THEOREM OneBusInvariance ==
    ASSUME NEW b, Buses = {b}
    PROVE  DriversSpec => [](IInv /\ DInv /\ OInv(b))
<1>1. DriversInit => IInv /\ DInv /\ OInv(b)
  BY InvInit, DriversInitInv, OneBusInit DEF DriversInit
<1>2. IInv /\ DInv /\ OInv(b) /\ [DriversNext]_dvars => IInv' /\ DInv' /\ OInv(b)'
  BY DriversStep, InvStep, OneBusStep
<1> QED
  BY <1>1, <1>2, PTL DEF DriversSpec

\* Nothing of a driver is outstanding for a device that has no data.
LEMMA DatalessSilent ==
    ASSUME IInv, NEW b \in Buses, OInv(b), dpstate[b] = "RUN", drvdata[Root(b)] = Null
    PROVE  /\ \A kind \in Kind : NoneOf(Root(b), kind, refused, channels)
           /\ \A request : ~RequestUnderWay(Root(b), request)
<1>1. drv[Root(b)] # "READY"
  BY DEF OInv, OnlyRoot
<1> QED
  BY <1>1, InvCallback DEF CallbackHasDriver, NoneOf, Transfer, Awaits, RequestUnderWay

LEMMA OutstandingAwaited ==
    ASSUME NEW d, NEW kind
    PROVE  /\ Awaits(d, "event", kind) <=> SomeOf(d, kind, refused, channels)
           /\ NoneOf(d, kind, refused, channels) => ~SomeOf(d, kind, refused, channels)
           /\ OneOf(d, kind, refused, channels) => SomeOf(d, kind, refused, channels)
BY DEF Awaits, SomeOf, NoneOf, OneOf, Transfer

LEMMA ReadsCounted ==
    ASSUME NEW d, \/ NoneOf(d, "IN", refused, channels)
                  \/ OneOf(d, "IN", refused, channels)
    PROVE  \A c, e \in Reads(d) : c = e
BY DEF Reads, NoneOf, OneOf, Transfer

\* With one bus, a driver waits for a read exactly while one is outstanding, and
\* never for two: through delays, refusals, errors, channels that stay alive over
\* a disconnection, and any number of connections.
THEOREM ReadsAwaited ==
    ASSUME NEW b, Buses = {b}
    PROVE  DriversSpec => []WaitsForItsRead
<1>1. ASSUME IInv, DInv, OInv(b)
      PROVE  WaitsForItsRead
  <2> DEFINE d == Root(b)
             x == drvdata[d]
             waiting == x # Null /\ Reading(x)
             requesting == x # Null /\ data[x].state = "GET_REPORT_DESCRIPTOR_READ_COMPLETE"
  <2> SUFFICES ASSUME dpstate[b] = "RUN"
               PROVE  /\ waiting <=> Awaits(d, "event", "IN")
                      /\ requesting <=> RequestUnderWay(d, "IN")
                      /\ \A c, e \in Reads(d) : c = e
    BY DEF WaitsForItsRead
  <2>1. CASE x = Null
    <3>1. /\ NoneOf(d, "IN", refused, channels)
          /\ ~RequestUnderWay(d, "IN")
      BY <1>1, <2>1, DatalessSilent DEF Kind
    <3> QED
      BY <2>1, <3>1, OutstandingAwaited, ReadsCounted
  <2>2. CASE x # Null
    <3>1. Served(d, x)
      BY <1>1, <2>2 DEF OInv
    <3>2. IF Reading(x) THEN OneOf(d, "IN", refused, channels)
          ELSE NoneOf(d, "IN", refused, channels)
      BY <3>1 DEF Served, ReadServed, Reading, ReadingStates
    <3>3. requesting <=> RequestUnderWay(d, "IN")
      BY <2>2, <3>1 DEF Served, PipeServed, Requests, RequestUnderWay
    <3> QED
      BY <2>2, <3>2, <3>3, OutstandingAwaited, ReadsCounted
  <2> QED
    BY <2>1, <2>2
<1> QED
  BY <1>1, OneBusInvariance, PTL

\* With one bus, hid_set_report never says that a report is under way that is not:
\* no request of the enumeration or of the driver holds the pipe when it is allowed.
THEOREM ReportsUnderWay ==
    ASSUME NEW b, Buses = {b}
    PROVE  DriversSpec => []ReportUnderWay
<1>1. ASSUME IInv, DInv, OInv(b)
      PROVE  ReportUnderWay
  <2> DEFINE d == Root(b)
             x == drvdata[d]
  <2> SUFFICES ASSUME dpstate[b] = "RUN"
               PROVE  (x # Null /\ data[x].report_state = "PENDING")
                         <=> RequestUnderWay(d, "OUT")
    BY DEF ReportUnderWay
  <2>1. CASE x = Null
    BY <1>1, <2>1, DatalessSilent
  <2>2. CASE x # Null
    BY <1>1, <2>2 DEF OInv, Served, PipeServed, Requests, RequestUnderWay
  <2> QED
    BY <2>1, <2>2
<1> QED
  BY <1>1, OneBusInvariance, PTL

\* With one bus, the callback of usbh_midi_write is expected as long as the write
\* is outstanding and only then, if writes do not overlap.
THEOREM WritesCallBack ==
    ASSUME NEW b, Buses = {b}
    PROVE  DriversSpec => []WriteCallsBack
<1>1. ASSUME IInv, DInv, OInv(b)
      PROVE  WriteCallsBack
  <2> SUFFICES ASSUME NEW x \in Midi, InUse(x)
               PROVE  LET outstanding == Awaits(data[x].usbh_device, "event", "OUT")
                      IN  /\ data[x].sending => outstanding
                          /\ outstanding => data[x].sending \/ x \in overlapped
    BY DEF WriteCallsBack
  <2>1. drvdata[Root(b)] = x /\ x # Null
    BY DataKinds, DriversAssumption DEF InUse, Bound
  <2>2. Served(Root(b), x)
    BY <1>1, <2>1 DEF OInv
  <2> QED
    BY <2>2, OutstandingAwaited DEF Served, WriteServed
<1> QED
  BY <1>1, OneBusInvariance, PTL

\* With one bus, the application knows a MIDI device or a gamepad exactly from the
\* first poll of its driver until the port goes down, also when a fatal error has
\* stopped the driver: it never holds a device that is gone, and never loses one
\* that is there.
THEOREM ApplicationKnows ==
    ASSUME NEW b, Buses = {b}
    PROVE  DriversSpec => []KnownWhileBound
<1>1. ASSUME IInv, DInv, OInv(b)
      PROVE  KnownWhileBound
  <2>1. ASSUME NEW x \in notified
        PROVE  InUse(x)
    <3>1. x # Null /\ drvdata[Root(b)] = x
      BY <1>1, DataKinds, DriversAssumption DEF OInv, Known, DInv, DataTypeOK
    <3>2. drv[Root(b)] # "NULL"
      BY <1>1, <3>1 DEF OInv, OnlyRoot
    <3>3. dpstate[b] = "RUN"
      BY <1>1, <3>2, BoundPort
    <3> QED
      BY <3>1, <3>3 DEF InUse, Bound
  <2> QED
    BY <1>1, <2>1 DEF KnownWhileBound, OInv, Known
<1> QED
  BY <1>1, OneBusInvariance, PTL
=============================================================================
