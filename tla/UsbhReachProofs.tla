----------------------------- MODULE UsbhReachProofs -----------------------------
(***************************************************************************)
(* With one bus, no device behind a hub is forgotten: a port is reset only *)
(* while no device is known in it, so that the slot of a new device never  *)
(* takes the place of another one.                                         *)
(***************************************************************************)
EXTENDS UsbhOneHubProofs

-----------------------------------------------------------------------------
(* The driver and the ports of its hub.                                    *)

\* The port is being reset, or was and has not been looked at since.
HasReset(x) == x.stage = "resetting" \/ "C_PORT_RESET" \in x.stc

\* Driver data h, and the ports P of the hub.
Orderly(h, P) ==
    LET p == h.current_port
    IN  /\ \A q \in PortNum : HasReset(P[q]) => h.device[q] = Unused
        /\ h.request = "SET_PORT_RESET" /\ h.wIndex # 0 => h.device[h.wIndex] = Unused
        /\ h.state \in {"POLL_REQ", "POLL"} => h.status = NothingPlugged
        /\ h.state = "GET_STATUS_COMPLETE" =>
              /\ h.wIndex = p /\ h.request = "GET_STATUS"
              /\ "C_PORT_RESET" \in h.status.stc => p # 0 /\ h.device[p] = Unused
        /\ h.state = "PORT_RESET_COMPLETE" =>
              h.wIndex = p /\ h.request = "CLEAR_C_PORT_RESET" /\ h.device[p] = Unused
        /\ h.state \in {"GET_STATUS_COMPLETE", "PORT_RESET_COMPLETE"}
              /\ h.status.stage = "enabled" => p # 0 /\ P[p].stage # "resetting"

\* The request in the control pipe of the hub is the one the driver sent last.
Matched(b) ==
    Asked(Root(b)) =>
        LET request == control[Root(b)].request
        IN  /\ request = IF hub[b].request \in {"GET_DESCRIPTOR", "GET_STATUS"}
                         THEN "IN" ELSE "NODATA"
            /\ control[Root(b)].state = "DATA" => request # "NODATA"

\* A device that is polled and removed through the hub, or about to be.
Claims(d) == Engaged(d) \/ (drv[d] # "NULL" /\ address[d] > 0)

Known(b, s) == drv[Root(b)] = "READY" /\ \E p \in PortNum : hub[b].device[p] = s

AllKnown(b) ==
    dpstate[b] = "RUN" => \A d \in Device \ {Root(b)} : Claims(d) => Known(b, d[2])

ReachInv(b) == Orderly(hub[b], port[b]) /\ Matched(b) /\ AllKnown(b)

-----------------------------------------------------------------------------
(* An event leaves the driver and the ports in order.                      *)

\* The driver is not busy with the status of a port.
LEMMA AwayOrderly ==
    ASSUME NEW h, NEW P, Orderly(h, P), NEW x, x.device = h.device,
           x.state \notin {"GET_STATUS_COMPLETE", "PORT_RESET_COMPLETE"},
           x.state \in {"POLL_REQ", "POLL"} => x.status = NothingPlugged,
           x.request = "SET_PORT_RESET" /\ x.wIndex # 0 => h.device[x.wIndex] = Unused
    PROVE  Orderly(x, P)
BY DEF Orderly

LEMMA AskAwayOrderly ==
    ASSUME hub \in [Buses -> HubState], NEW b \in Buses, NEW h, NEW P, Orderly(h, P),
           NEW g \in HubState, g.device = h.device,
           NEW state \in {"READ_HUB_DESCRIPTOR_COMPLETE", "ENABLE_PORTS", "GET_PORT_STATUS",
                          "PORT_RESET_REQ"},
           NEW request, NEW w, request = "SET_PORT_RESET" => h.device[w] = Unused,
           NEW ctl, NEW chs, Ask(b, g, state, request, w, ctl, chs)
    PROVE  Orderly(hub'[b], P)
<1> DEFINE x == [g EXCEPT !.state = state, !.request = request, !.wIndex = w]
<1>1. x.device = h.device /\ x.state = state /\ x.request = request /\ x.wIndex = w
  BY DEF HubState
<1>2. hub'[b] = x
  BY DEF Ask
<1> HIDE DEF x
<1> QED
  BY <1>1, <1>2, AwayOrderly

LEMMA IdleOrderly ==
    ASSUME NEW h \in HubState, NEW P, Orderly(h, P), NEW busy, NEW q
    PROVE  /\ Orderly(Idle(h), P)
           /\ Orderly([Idle(h) EXCEPT !.busy = busy], P)
           /\ Orderly([Idle(h) EXCEPT !.busy = busy, !.current_port = q], P)
           /\ Orderly([Idle(h) EXCEPT !.state = "NONE"], P)
<1> DEFINE g == Idle(h)
<1>1. /\ g \in HubState /\ g.device = h.device /\ g.state = "POLL_REQ"
      /\ g.request = "GET_STATUS" /\ g.status = NothingPlugged
  BY IdleTyped DEF Idle, HubState
<1> HIDE DEF g
<1>2. Orderly(g, P)
  BY <1>1, AwayOrderly
<1>3. ASSUME NEW x, x.device = h.device, x.state \in {"POLL_REQ", "NONE"},
             x.request = "GET_STATUS", x.status = NothingPlugged
      PROVE  Orderly(x, P)
  BY <1>3, AwayOrderly
<1>4. Orderly([g EXCEPT !.busy = busy], P)
  <2> DEFINE x == [g EXCEPT !.busy = busy]
  <2>1. /\ x.device = h.device /\ x.state \in {"POLL_REQ", "NONE"}
        /\ x.request = "GET_STATUS" /\ x.status = NothingPlugged
    BY <1>1 DEF HubState
  <2> HIDE DEF x
  <2>2. Orderly(x, P)
    BY <1>3, <2>1
  <2> QED
    BY <2>2 DEF x
<1>5. Orderly([g EXCEPT !.busy = busy, !.current_port = q], P)
  <2> DEFINE x == [g EXCEPT !.busy = busy, !.current_port = q]
  <2>1. /\ x.device = h.device /\ x.state \in {"POLL_REQ", "NONE"}
        /\ x.request = "GET_STATUS" /\ x.status = NothingPlugged
    BY <1>1 DEF HubState
  <2> HIDE DEF x
  <2>2. Orderly(x, P)
    BY <1>3, <2>1
  <2> QED
    BY <2>2 DEF x
<1>6. Orderly([g EXCEPT !.state = "NONE"], P)
  <2> DEFINE x == [g EXCEPT !.state = "NONE"]
  <2>1. /\ x.device = h.device /\ x.state \in {"POLL_REQ", "NONE"}
        /\ x.request = "GET_STATUS" /\ x.status = NothingPlugged
    BY <1>1 DEF HubState
  <2> HIDE DEF x
  <2>2. Orderly(x, P)
    BY <1>3, <2>1
  <2> QED
    BY <2>2 DEF x
<1> QED
  BY <1>2, <1>4, <1>5, <1>6 DEF g

LEMMA EnablePortsOrderly ==
    ASSUME hub \in [Buses -> HubState], NEW b \in Buses, NEW h \in HubState,
           NEW P, Orderly(h, P), NEW g \in HubState, g.device = h.device,
           NEW ctl, NEW chs, EnablePorts(b, g, ctl, chs)
    PROVE  Orderly(hub'[b], P)
<1>1. g.index \in 0 .. ports_num /\ ports_num \in Nat /\ 0 \in 0 .. ports_num
  BY HubAssumption DEF HubState
<1>2. CASE g.index < ports_num
  <2> DEFINE x == [g EXCEPT !.index = g.index + 1]
  <2>1. x \in HubState /\ x.device = h.device
    BY <1>1, <1>2, FieldsTyped
  <2>2. Ask(b, x, "ENABLE_PORTS", "SET_PORT_POWER", g.index + 1, ctl, chs)
    BY <1>2 DEF EnablePorts
  <2> HIDE DEF x
  <2> QED
    BY <2>1, <2>2, AskAwayOrderly
<1>3. CASE ~(g.index < ports_num)
  <2> DEFINE x == [g EXCEPT !.index = 0]
  <2>1. x \in HubState /\ x.device = h.device
    BY <1>1, FieldsTyped
  <2>2. Ask(b, x, "GET_PORT_STATUS", "GET_STATUS", 0, ctl, chs)
    BY <1>3 DEF EnablePorts
  <2> HIDE DEF x
  <2> QED
    BY <2>1, <2>2, AskAwayOrderly
<1> QED
  BY <1>2, <1>3

LEMMA InitialisationOrderly ==
    ASSUME hub \in [Buses -> HubState], NEW b \in Buses, NEW h \in HubState,
           NEW P, Orderly(h, P), NEW r, NEW ctl, NEW chs,
           \/ HubDescriptorRead(b, h, r, ctl, chs) \/ PortsPowered(b, h, r, ctl, chs)
           \/ PortStatusRead(b, h, r, ctl, chs)
    PROVE  Orderly(hub'[b], P)
<1>0. /\ h.index \in 0 .. ports_num /\ ports_num \in Nat /\ 0 \in 0 .. ports_num
      /\ h.state \in {"READ_HUB_DESCRIPTOR_COMPLETE", "ENABLE_PORTS", "GET_PORT_STATUS"}
  BY HubAssumption DEF HubState, HubDescriptorRead, PortsPowered, PortStatusRead
<1>1. CASE EnablePorts(b, h, ctl, chs)
  BY <1>1, EnablePortsOrderly
<1>2. CASE EnablePorts(b, [h EXCEPT !.index = 0], ctl, chs)
  <2> DEFINE g == [h EXCEPT !.index = 0]
  <2>1. g \in HubState /\ g.device = h.device /\ EnablePorts(b, g, ctl, chs)
    BY <1>0, <1>2, FieldsTyped
  <2> HIDE DEF g
  <2> QED
    BY <2>1, EnablePortsOrderly
<1>3. CASE Rest(b, h, ctl, chs)
  BY <1>3, RestState
<1>4. CASE Ask(b, h, h.state, "GET_DESCRIPTOR", 0, ctl, chs)
  BY <1>0, <1>4, AskAwayOrderly
<1>5. CASE /\ h.index < ports_num
           /\ Ask(b, [h EXCEPT !.index = @ + 1], h.state, "GET_STATUS", h.index + 1, ctl, chs)
  <2> DEFINE g == [h EXCEPT !.index = h.index + 1]
  <2>1. /\ g \in HubState /\ g.device = h.device
        /\ Ask(b, g, h.state, "GET_STATUS", h.index + 1, ctl, chs)
    BY <1>0, <1>5, FieldsTyped
  <2> HIDE DEF g
  <2> QED
    BY <1>0, <2>1, AskAwayOrderly
<1>6. CASE Rest(b, [Idle(h) EXCEPT !.busy = FALSE], ctl, chs)
  <2>1. Orderly([Idle(h) EXCEPT !.busy = FALSE], P)
    BY IdleOrderly
  <2>2. hub'[b] = [Idle(h) EXCEPT !.busy = FALSE]
    BY <1>6, RestState
  <2> QED
    BY <2>1, <2>2
<1> QED
  BY <1>1, <1>2, <1>3, <1>4, <1>5, <1>6 DEF HubDescriptorRead, PortsPowered, PortStatusRead

LEMMA StatusChangeOrderly ==
    ASSUME hub \in [Buses -> HubState], NEW b \in Buses, NEW h \in HubState,
           NEW P, Orderly(h, P), NEW r, NEW ctl, NEW chs, StatusChange(b, h, r, ctl, chs)
    PROVE  Orderly(hub'[b], P)
<1>0. /\ h.state = "POLL" /\ h.status = NothingPlugged
      /\ Orderly(Idle(h), P) /\ Orderly([Idle(h) EXCEPT !.state = "NONE"], P)
  BY IdleOrderly DEF StatusChange, Orderly
<1>1. CASE Rest(b, Idle(h), ctl, chs)
  BY <1>0, <1>1, RestState
<1>2. CASE Rest(b, [Idle(h) EXCEPT !.state = "NONE"], ctl, chs)
  BY <1>0, <1>2, RestState
<1>3. ASSUME NEW p \in {0} \cup PortNum,
             Ask(b, [h EXCEPT !.current_port = p], "GET_STATUS_COMPLETE", "GET_STATUS", p, ctl, chs)
      PROVE  Orderly(hub'[b], P)
  <2> DEFINE x == hub'[b]
  <2>1. /\ x.state = "GET_STATUS_COMPLETE" /\ x.request = "GET_STATUS" /\ x.wIndex = p
        /\ x.current_port = p /\ x.device = h.device /\ x.status = NothingPlugged
    BY <1>0, <1>3 DEF Ask, HubState
  <2>2. NothingPlugged.stage = "off" /\ NothingPlugged.stc = {}
    BY DEF NothingPlugged
  <2> HIDE DEF x
  <2>3. Orderly(x, P)
    BY <2>1, <2>2 DEF Orderly
  <2> QED
    BY <2>3 DEF x
<1> QED
  BY <1>1, <1>2, <1>3 DEF StatusChange

LEMMA StatusReadOrderly ==
    ASSUME hub \in [Buses -> HubState], NEW b \in Buses, NEW h \in HubState,
           NEW P, Orderly(h, P), NEW r, NEW ctl, NEW chs, StatusRead(b, h, r, ctl, chs)
    PROVE  Orderly(hub'[b], P)
<1> DEFINE p == h.current_port
<1>0. h.state = "GET_STATUS_COMPLETE" /\ Orderly(Idle(h), P)
  BY IdleOrderly DEF StatusRead
<1>1. CASE Rest(b, Idle(h), ctl, chs)
  BY <1>0, <1>1, RestState
<1>2. CASE Rest(b, h, ctl, chs)
  BY <1>2, RestState
<1>3. CASE Ask(b, h, "PORT_RESET_REQ", "CLEAR_C_PORT_CONNECTION", p, ctl, chs)
  BY <1>3, AskAwayOrderly
<1>4. CASE /\ p # 0 /\ "C_PORT_RESET" \in h.status.stc
           /\ Ask(b, h, "PORT_RESET_COMPLETE", "CLEAR_C_PORT_RESET", p, ctl, chs)
  <2> DEFINE x == hub'[b]
  <2>1. /\ x.state = "PORT_RESET_COMPLETE" /\ x.request = "CLEAR_C_PORT_RESET"
        /\ x.wIndex = p /\ x.current_port = p /\ x.device = h.device /\ x.status = h.status
    BY <1>4 DEF Ask, HubState
  <2>2. h.device[p] = Unused
    BY <1>0, <1>4 DEF Orderly
  <2> HIDE DEF x
  <2>3. Orderly(x, P)
    BY <1>0, <2>1, <2>2 DEF Orderly
  <2> QED
    BY <2>3 DEF x
<1> QED
  BY <1>1, <1>2, <1>3, <1>4 DEF StatusRead

\* A port without a device is told to reset.
LEMMA ConnectionClearedOrderly ==
    ASSUME hub \in [Buses -> HubState], NEW b \in Buses, NEW h, Found(b, h),
           NEW P, Orderly(h, P), NEW r, NEW ctl, NEW chs, ConnectionCleared(b, h, r, ctl, chs)
    PROVE  Orderly(hub'[b], P)
<1> DEFINE p == h.current_port
<1>0. /\ h \in HubState /\ h.state = "PORT_RESET_REQ" /\ p \in PortNum
      /\ Orderly(Idle(h), P)
  BY IdleOrderly DEF ConnectionCleared, Found, HubWork
<1>1. CASE /\ h.device[p] = Unused
           /\ Ask(b, [h EXCEPT !.busy = TRUE], "GET_PORT_STATUS", "SET_PORT_RESET", p, ctl, chs)
  <2> DEFINE g == [h EXCEPT !.busy = TRUE]
  <2>1. g \in HubState /\ g.device = h.device
    BY <1>0, FieldsTyped
  <2>2. Ask(b, g, "GET_PORT_STATUS", "SET_PORT_RESET", p, ctl, chs)
    BY <1>1
  <2> HIDE DEF g
  <2> QED
    BY <1>0, <1>1, <2>1, <2>2, AskAwayOrderly
<1>2. CASE Rest(b, [Idle(h) EXCEPT !.device[p] = Unused, !.busy = FALSE,
                                   !.current_port = Unused], ctl, chs)
  <2> DEFINE g == Idle(h)
             x == hub'[b]
  <2>1. /\ g \in HubState /\ g.device = h.device /\ g.state = "POLL_REQ"
        /\ g.request = "GET_STATUS" /\ g.status = NothingPlugged
    BY <1>0, IdleTyped DEF Idle, HubState
  <2>2. x = [g EXCEPT !.device[p] = Unused, !.busy = FALSE, !.current_port = Unused]
    BY <1>2, RestState
  <2> HIDE DEF g, x
  <2>3. /\ x.device = [h.device EXCEPT ![p] = Unused] /\ x.state = "POLL_REQ"
        /\ x.request = "GET_STATUS" /\ x.status = NothingPlugged
    BY <2>1, <2>2 DEF HubState
  <2>4. h.device \in [PortNum -> Slot \cup {Unused}]
    BY <1>0 DEF HubState
  <2>5. \A q \in PortNum : h.device[q] = Unused => x.device[q] = Unused
    BY <2>3, <2>4
  <2>6. Orderly(x, P)
    BY <2>3, <2>5 DEF Orderly
  <2> QED
    BY <2>6 DEF x
<1>3. CASE Rest(b, Idle(h), ctl, chs)
  BY <1>0, <1>3, RestState
<1> QED
  BY <1>0, <1>1, <1>2, <1>3 DEF ConnectionCleared

\* The new device is in a port whose reset is over.
LEMMA ResetClearedOrderly ==
    ASSUME hub \in [Buses -> HubState], NEW b \in Buses, NEW h, Found(b, h),
           NEW P, Orderly(h, P), NEW r, r = "OK" => "C_PORT_RESET" \notin P[h.current_port].stc,
           NEW ctl, NEW chs, ResetCleared(b, h, r, ctl, chs)
    PROVE  Orderly(hub'[b], P)
<1> DEFINE p == h.current_port
<1>0. /\ h \in HubState /\ h.state = "PORT_RESET_COMPLETE" /\ p \in PortNum
      /\ h.request = "CLEAR_C_PORT_RESET" /\ Orderly(Idle(h), P)
      /\ h.device \in [PortNum -> Slot \cup {Unused}]
  BY IdleOrderly DEF ResetCleared, Found, HubWork, HubState, Orderly
<1>1. CASE Rest(b, Idle(h), ctl, chs)
  BY <1>0, <1>1, RestState
<1>2. CASE Rest(b, h, ctl, chs)
  BY <1>2, RestState
<1>3. ASSUME r = "OK", h.status.stage = "enabled", NEW s \in Slot,
             NEW x, x = hub'[b], x.device = [h.device EXCEPT ![p] = s],
             x.state \in {"GET_PORT_STATUS", "SLEEP_500_MS"},
             x.request \in {"CLEAR_PORT_ENABLE", "CLEAR_C_PORT_RESET"}
      PROVE  Orderly(hub'[b], P)
  <2>1. ~HasReset(P[p])
    BY <1>0, <1>3 DEF Orderly, HasReset
  <2>2. \A q \in PortNum : HasReset(P[q]) => x.device[q] = Unused
    <3> SUFFICES ASSUME NEW q \in PortNum, HasReset(P[q]) PROVE x.device[q] = Unused
      OBVIOUS
    <3>1. q # p
      BY <2>1
    <3> QED
      BY <1>0, <1>3, <3>1 DEF Orderly
  <2>3. Orderly(x, P)
    BY <1>3, <2>2 DEF Orderly
  <2> QED
    BY <1>3, <2>3
<1>4. ASSUME r = "OK", h.status.stage = "enabled", NEW s \in Slot,
             Ask(b, [h EXCEPT !.device[p] = s, !.current_port = Unused],
                 "GET_PORT_STATUS", "CLEAR_PORT_ENABLE", p, ctl, chs)
      PROVE  Orderly(hub'[b], P)
  <2> DEFINE x == hub'[b]
  <2>1. /\ x.device = [h.device EXCEPT ![p] = s] /\ x.state = "GET_PORT_STATUS"
        /\ x.request = "CLEAR_PORT_ENABLE"
    BY <1>0, <1>4 DEF Ask, HubState
  <2> HIDE DEF x
  <2>2. x = hub'[b]
    BY DEF x
  <2> QED
    BY <1>3, <1>4, <2>1, <2>2
<1>5. ASSUME r = "OK", h.status.stage = "enabled", NEW s \in Slot,
             Rest(b, [h EXCEPT !.device[p] = s, !.state = "SLEEP_500_MS"], ctl, chs)
      PROVE  Orderly(hub'[b], P)
  <2> DEFINE x == [h EXCEPT !.device[p] = s, !.state = "SLEEP_500_MS"]
  <2>1. /\ x.device = [h.device EXCEPT ![p] = s] /\ x.state = "SLEEP_500_MS"
        /\ x.request = "CLEAR_C_PORT_RESET"
    BY <1>0 DEF HubState
  <2>2. x = hub'[b]
    BY <1>5, RestState
  <2> HIDE DEF x
  <2> QED
    BY <1>3, <1>5, <2>1, <2>2
<1> QED
  BY <1>1, <1>2, <1>4, <1>5 DEF ResetCleared

LEMMA HubEventOrderly ==
    ASSUME hub \in [Buses -> HubState], NEW b \in Buses, NEW h, Found(b, h),
           NEW P, Orderly(h, P), NEW r,
           h.state = "PORT_RESET_COMPLETE" /\ r = "OK"
              => "C_PORT_RESET" \notin P[h.current_port].stc,
           NEW ctl, NEW chs, HubEvent(b, h, r, ctl, chs)
    PROVE  Orderly(hub'[b], P)
<1>0. h \in HubState
  BY DEF Found
<1>1. CASE EventIgnored(b, h, ctl, chs)
  BY <1>0, <1>1, RestState DEF EventIgnored
<1>2. CASE ResetCleared(b, h, r, ctl, chs)
  <2>1. h.state = "PORT_RESET_COMPLETE"
    BY <1>2 DEF ResetCleared
  <2> QED
    BY <1>2, <2>1, ResetClearedOrderly
<1> QED
  BY <1>0, <1>1, <1>2, StatusChangeOrderly, InitialisationOrderly, StatusReadOrderly,
     ConnectionClearedOrderly DEF HubEvent

-----------------------------------------------------------------------------
(* The ports of the hub.                                                   *)

\* The ports become Q, and no port is reset that was not, unless it has no device.
Calmer(h, P, Q) ==
    /\ \A q \in PortNum : HasReset(Q[q]) => HasReset(P[q]) \/ h.device[q] = Unused
    /\ h.state \in {"GET_STATUS_COMPLETE", "PORT_RESET_COMPLETE"} =>
          \A q \in PortNum : Q[q].stage = "resetting" => P[q].stage = "resetting"

LEMMA CalmerOrderly ==
    ASSUME NEW h \in HubState, HubWork(h), NEW P, NEW Q, Orderly(h, P), Calmer(h, P, Q)
    PROVE  Orderly(h, Q)
<1>1. \A q \in PortNum : HasReset(Q[q]) => h.device[q] = Unused
  BY DEF Orderly, Calmer
<1>2. h.state \in {"GET_STATUS_COMPLETE", "PORT_RESET_COMPLETE"} /\ h.status.stage = "enabled"
         => h.current_port # 0 /\ Q[h.current_port].stage # "resetting"
  <2>1. h.state \in {"GET_STATUS_COMPLETE", "PORT_RESET_COMPLETE"} =>
           h.current_port \in {0} \cup PortNum
    BY DEF HubState, HubWork
  <2> QED
    BY <2>1 DEF Orderly, Calmer
<1> QED
  BY <1>1, <1>2 DEF Orderly

\* One port changes.
LEMMA OnePortCalmer ==
    ASSUME NEW h, port \in [Buses -> [PortNum -> PortState]], NEW b \in Buses,
           NEW p \in PortNum, NEW x, port' = [port EXCEPT ![b][p] = x],
           HasReset(x) => HasReset(port[b][p]) \/ h.device[p] = Unused,
           h.state \in {"GET_STATUS_COMPLETE", "PORT_RESET_COMPLETE"} =>
              (x.stage = "resetting" => port[b][p].stage = "resetting")
    PROVE  Calmer(h, port[b], port'[b]) /\ port'[b][p] = x
<1>1. port'[b] = [port[b] EXCEPT ![p] = x] /\ port[b] \in [PortNum -> PortState]
  OBVIOUS
<1>2. port'[b][p] = x /\ \A q \in PortNum \ {p} : port'[b][q] = port[b][q]
  BY <1>1
<1> QED
  BY <1>2 DEF Calmer

LEMMA PortChangeCalmer ==
    ASSUME HInv, NEW b \in Buses, NEW p \in PortNum,
           \/ \E s \in Speeds : Plug(b, p, s)
           \/ Unplug(b, p) \/ PortResetDone(b, p) \/ PortFault(b, p)
    PROVE  Calmer(hub[b], port[b], port'[b])
<1> DEFINE now == port[b][p]
<1>0. now \in PortState /\ port \in [Buses -> [PortNum -> PortState]]
  BY DEF HInv
<1>1. ASSUME NEW x, port' = [port EXCEPT ![b][p] = x],
             x.stage = "resetting" => now.stage = "resetting",
             "C_PORT_RESET" \in x.stc => HasReset(now)
      PROVE  Calmer(hub[b], port[b], port'[b])
  <2>1. HasReset(x) => HasReset(port[b][p])
    BY <1>1 DEF HasReset
  <2> QED
    BY <1>0, <1>1, <2>1, OnePortCalmer
<1>2. ASSUME NEW s \in Speeds, Plug(b, p, s) PROVE Calmer(hub[b], port[b], port'[b])
  <2> DEFINE stc == IF now.stage = "off" THEN {} ELSE now.stc \cup {"C_PORT_CONNECTION"}
             x == [now EXCEPT !.speed = s, !.stc = stc]
  <2>1. port' = [port EXCEPT ![b][p] = x]
    BY <1>2 DEF Plug
  <2>2. x.stage = now.stage /\ x.stc = stc
    BY <1>0 DEF PortState
  <2>3. "C_PORT_RESET" \in stc => HasReset(now)
    BY DEF HasReset
  <2> HIDE DEF x, stc, now
  <2> QED
    BY <1>1, <2>1, <2>2, <2>3
<1>3. CASE Unplug(b, p)
  <2> DEFINE stc == IF now.stage = "off" THEN {} ELSE now.stc \cup {"C_PORT_CONNECTION"}
             stage == IF now.stage = "enabled" THEN "on" ELSE now.stage
             x == [speed |-> "none", stage |-> stage, stc |-> stc]
  <2>1. port' = [port EXCEPT ![b][p] = x]
    BY <1>3 DEF Unplug
  <2>2. x.stage = stage /\ x.stc = stc /\ (stage = "resetting" => now.stage = "resetting")
    OBVIOUS
  <2>3. "C_PORT_RESET" \in stc => HasReset(now)
    BY DEF HasReset
  <2> HIDE DEF x, stc, stage, now
  <2> QED
    BY <1>1, <2>1, <2>2, <2>3
<1>4. CASE PortResetDone(b, p)
  <2> DEFINE stc == now.stc \cup {"C_PORT_RESET"}
             stage == IF now.speed = "none" THEN "on" ELSE "enabled"
             x == [now EXCEPT !.stage = stage, !.stc = stc]
  <2>1. port' = [port EXCEPT ![b][p] = x]
    BY <1>4 DEF PortResetDone
  <2>2. x.stage = stage /\ x.stc = stc /\ stage # "resetting"
    BY <1>0 DEF PortState
  <2>3. HasReset(now)
    BY <1>4 DEF HasReset, PortResetDone
  <2> HIDE DEF x, stc, stage, now
  <2> QED
    BY <1>1, <2>1, <2>2, <2>3
<1>5. CASE PortFault(b, p)
  <2> PICK f \in Faults : port' = [port EXCEPT ![b][p] = [now EXCEPT !.stage = "on",
                                                             !.stc = now.stc \cup {f}]]
    BY <1>5 DEF PortFault
  <2> DEFINE x == [now EXCEPT !.stage = "on", !.stc = now.stc \cup {f}]
  <2>1. port' = [port EXCEPT ![b][p] = x]
    OBVIOUS
  <2>2. x.stage = "on" /\ x.stc = now.stc \cup {f}
    BY <1>0 DEF PortState
  <2>3. "C_PORT_RESET" \in now.stc \cup {f} => HasReset(now)
    BY HubAssumption DEF HasReset
  <2> HIDE DEF x, now
  <2> QED
    BY <1>1, <2>1, <2>2, <2>3
<1> QED
  BY <1>2, <1>3, <1>4, <1>5

\* A request that the hub has taken.
LEMMA EffectCalmer ==
    ASSUME HInv, NEW b \in Buses, Orderly(hub[b], port[b]), hub[b].wIndex # 0, Effect(b)
    PROVE  /\ Calmer(hub[b], port[b], port'[b])
           /\ hub[b].request = "CLEAR_C_PORT_RESET" =>
                 "C_PORT_RESET" \notin port'[b][hub[b].wIndex].stc
<1> DEFINE p == hub[b].wIndex
           now == port[b][p]
           request == hub[b].request
<1>0. /\ hub[b] \in HubState /\ p \in PortNum /\ request \in HubRequest
      /\ port \in [Buses -> [PortNum -> PortState]] /\ now \in PortState
  <2>1. hub[b] \in HubState /\ port \in [Buses -> [PortNum -> PortState]]
    BY DEF HInv, DriversInv
  <2>2. p \in PortNum /\ request \in HubRequest
    BY <2>1, HubAssumption DEF HubState, PortNum
  <2> QED
    BY <2>1, <2>2
<1>1. ASSUME NEW x, port' = [port EXCEPT ![b][p] = x],
             HasReset(x) => HasReset(now) \/ request = "SET_PORT_RESET",
             request # "SET_PORT_RESET" =>
                (x.stage = "resetting" => now.stage = "resetting"),
             request = "CLEAR_C_PORT_RESET" => "C_PORT_RESET" \notin x.stc
      PROVE  /\ Calmer(hub[b], port[b], port'[b])
             /\ request = "CLEAR_C_PORT_RESET" => "C_PORT_RESET" \notin port'[b][p].stc
  <2>1. request = "SET_PORT_RESET" => /\ hub[b].device[p] = Unused
                                      /\ hub[b].state \notin {"GET_STATUS_COMPLETE", "PORT_RESET_COMPLETE"}
    BY DEF Orderly
  <2>2. /\ HasReset(x) => HasReset(port[b][p]) \/ hub[b].device[p] = Unused
        /\ hub[b].state \in {"GET_STATUS_COMPLETE", "PORT_RESET_COMPLETE"} =>
              (x.stage = "resetting" => port[b][p].stage = "resetting")
    BY <1>1, <2>1
  <2> PICK h : h = hub[b]
    OBVIOUS
  <2>3. PICK q \in PortNum : q = p /\ h = hub[b]
    BY <1>0
  <2> HIDE DEF p, now, request
  <2>4. /\ port \in [Buses -> [PortNum -> PortState]] /\ port' = [port EXCEPT ![b][q] = x]
        /\ HasReset(x) => HasReset(port[b][q]) \/ h.device[q] = Unused
        /\ h.state \in {"GET_STATUS_COMPLETE", "PORT_RESET_COMPLETE"} =>
              (x.stage = "resetting" => port[b][q].stage = "resetting")
    BY <1>0, <1>1, <2>2, <2>3
  <2>5. Calmer(h, port[b], port'[b]) /\ port'[b][q] = x
    <3>1. port'[b] = [port[b] EXCEPT ![q] = x] /\ port[b] \in [PortNum -> PortState]
      BY <2>4
    <3>2. port'[b][q] = x /\ \A i \in PortNum \ {q} : port'[b][i] = port[b][i]
      BY <3>1
    <3> QED
      BY <2>4, <3>2 DEF Calmer
  <2> QED
    BY <1>1, <2>3, <2>5
<1>2. CASE request = "SET_PORT_POWER"
  <2> DEFINE stc == IF now.speed # "none" THEN {"C_PORT_CONNECTION"} ELSE {}
  <2> PICK x : /\ port' = [port EXCEPT ![b][p] = x]
               /\ x = now \/ x = [now EXCEPT !.stage = "on", !.stc = stc]
    BY <1>2 DEF Effect
  <2>0. "C_PORT_RESET" \notin stc
    OBVIOUS
  <2> HIDE DEF stc
  <2>1. (x = now \/ x.stage = "on") /\ (x = now \/ x.stc = stc)
    <3> HIDE DEF now
    <3> QED
      BY <1>0 DEF PortState
  <2> QED
    BY <1>1, <1>2, <2>0, <2>1 DEF HasReset
<1>3. CASE request = "SET_PORT_RESET"
  <2> PICK x : port' = [port EXCEPT ![b][p] = x]
    BY DEF Effect
  <2> QED
    BY <1>1, <1>3
<1>4. CASE request \in {"CLEAR_C_PORT_CONNECTION", "CLEAR_C_PORT_RESET"}
  <2> PICK change : /\ port' = [port EXCEPT ![b][p] = [now EXCEPT !.stc = now.stc \ {change}]]
                    /\ request = "CLEAR_C_PORT_RESET" => change = "C_PORT_RESET"
    <3>1. CASE request = "CLEAR_C_PORT_CONNECTION"
      BY <3>1 DEF Effect
    <3>2. CASE request = "CLEAR_C_PORT_RESET"
      BY <3>2 DEF Effect
    <3> QED
      BY <1>4, <3>1, <3>2
  <2> DEFINE x == [now EXCEPT !.stc = now.stc \ {change}]
  <2>1. x.stage = now.stage /\ x.stc = now.stc \ {change}
    BY <1>0 DEF PortState
  <2>2. port' = [port EXCEPT ![b][p] = x]
    OBVIOUS
  <2>3. HasReset(x) => HasReset(now)
    BY <2>1 DEF HasReset
  <2>4. request = "CLEAR_C_PORT_RESET" => "C_PORT_RESET" \notin x.stc
    BY <2>1
  <2> HIDE DEF x
  <2> QED
    BY <1>1, <2>1, <2>2, <2>3, <2>4
<1>5. CASE request = "CLEAR_PORT_ENABLE"
  <2> PICK x : /\ port' = [port EXCEPT ![b][p] = x]
               /\ x = now \/ x = [now EXCEPT !.stage = "on"]
    BY <1>5 DEF Effect
  <2>1. (x = now \/ x.stage = "on") /\ x.stc = now.stc
    BY <1>0 DEF PortState
  <2> QED
    BY <1>1, <1>5, <2>1 DEF HasReset
<1>6. CASE request \in {"GET_DESCRIPTOR", "GET_STATUS"}
  <2>1. port' = [port EXCEPT ![b][p] = now]
    BY <1>6 DEF Effect
  <2> QED
    BY <1>1, <1>6, <2>1
<1> QED
  BY <1>0, <1>2, <1>3, <1>4, <1>5, <1>6 DEF HubRequest

LEMMA PortsAfterOrderly ==
    ASSUME NEW b, Buses = {b}, HInv, NEW p \in Packet, NEW r, PortsAfter(p, r),
           Orderly(hub[b], port[b])
    PROVE  Orderly(hub[b], port'[b])
<1>1. p.dev[1] = b /\ hub[b] \in HubState /\ HubWork(hub[b])
  BY DEF HInv, DriversInv, DriverInv, Packet, Device
<1>2. CASE hub[b].wIndex # 0 /\ Effect(b)
  <2>1. Calmer(hub[b], port[b], port'[b])
    BY <1>2, EffectCalmer
  <2> QED
    BY <1>1, <2>1, CalmerOrderly
<1>3. CASE UNCHANGED port
  BY <1>3
<1> QED
  BY <1>1, <1>2, <1>3 DEF PortsAfter

\* The status of a port as the hub reported it.
LEMMA LatchedOrderly ==
    ASSUME NEW b, Buses = {b}, HInv, NEW p \in Packet, NEW r, Orderly(hub[b], port[b])
    PROVE  Orderly(Latched(p, r), port[b])
<1>1. p.dev[1] = b /\ hub[b] \in HubState /\ port[b] \in [PortNum -> PortState]
  BY DEF HInv, DriversInv, Packet, Device
<1>2. CASE Latched(p, r) = hub[b]
  BY <1>2
<1>3. ASSUME hub[b].state = "GET_STATUS_COMPLETE", hub[b].wIndex # 0,
             Latched(p, r) = [hub[b] EXCEPT !.status = port[b][hub[b].wIndex]]
      PROVE  Orderly(Latched(p, r), port[b])
  <2> DEFINE h == hub[b]
             x == Latched(p, r)
  <2>1. /\ x.state = h.state /\ x.wIndex = h.wIndex /\ x.request = h.request
        /\ x.current_port = h.current_port /\ x.device = h.device
        /\ x.status = port[b][h.wIndex]
    BY <1>1, <1>3 DEF HubState
  <2>2. h.wIndex \in PortNum /\ h.wIndex = h.current_port
    BY <1>1, <1>3, HubAssumption DEF HubState, Orderly, PortNum
  <2> HIDE DEF h, x
  <2>3. Orderly(h, port[b]) /\ h.state = "GET_STATUS_COMPLETE"
    BY <1>3 DEF h
  <2>4. Orderly(x, port[b])
    BY <2>1, <2>2, <2>3 DEF Orderly, HasReset, PortNum
  <2> QED
    BY <2>4 DEF x
<1> QED
  BY <1>1, <1>2, <1>3 DEF Latched

\* A callback, which leaves the ports in the state P.
LEMMA CallbackOrderly ==
    ASSUME NEW b, Buses = {b}, HInv, NEW p \in Packet, NEW r \in Status, NEW chs,
           Reported(p, r, chs), HubPacketCallback(p, r, chs),
           NEW P, Orderly(hub[b], P), Orderly(Latched(p, r), P),
           hub[b].state = "PORT_RESET_COMPLETE" /\ DriverRequestEnds(p, r)
              /\ p.dev = Root(b) /\ drv[Root(b)] # "NULL" /\ ControlResult(p.dev, r) = "OK"
              => "C_PORT_RESET" \notin P[hub[b].current_port].stc
    PROVE  Orderly(hub'[b], P)
<1>1. p.dev[1] = b /\ hub \in [Buses -> HubState] /\ b \in Buses /\ DriversInv
      /\ port \in [Buses -> [PortNum -> PortState]]
  BY DEF HInv, DriversInv, Packet, Device
<1>2. CASE HubCoreCallback(p, r, chs)
  <2>1. hub'[b] = hub[b] \/ hub'[b] = HubBound(hub[b])
    BY <1>1, <1>2 DEF HubCoreCallback
  <2>2. Orderly(HubBound(hub[b]), P)
    <3> DEFINE h == hub[b]
               x == HubBound(h)
    <3>1. /\ x.device = h.device /\ x.state = "INITIAL" /\ x.request = h.request
          /\ x.wIndex = h.wIndex
      BY <1>1 DEF HubBound, HubState
    <3> HIDE DEF h, x
    <3>2. Orderly(h, P)
      BY DEF h
    <3>3. Orderly(x, P)
      BY <3>1, <3>2 DEF Orderly
    <3> QED
      BY <3>3 DEF x, h
  <2> QED
    BY <2>1, <2>2
<1>3. CASE LeafEvent(p, chs)
  BY <1>3 DEF LeafEvent
<1>4. ASSUME p.dev = Root(b), drv[Root(b)] # "NULL", DriverRequestEnds(p, r),
             HubEvent(b, Latched(p, r), ControlResult(p.dev, r), PipeIdle(p.dev), chs)
      PROVE  Orderly(hub'[b], P)
  <2>1. /\ Found(b, Latched(p, r)) /\ Latched(p, r).state = hub[b].state
        /\ Latched(p, r).current_port = hub[b].current_port
    <3>1. Latched(p, r) = hub[b]
          \/ Latched(p, r) = [hub[b] EXCEPT !.status = port[b][hub[b].wIndex]]
      BY <1>1 DEF Latched
    <3>2. Latched(p, r).current_port = hub[b].current_port
      BY <1>1, <3>1 DEF HubState
    <3> QED
      BY <1>1, <1>4, <3>2, LatchedFound
  <2> QED
    BY <1>1, <1>4, <2>1, HubEventOrderly
<1>5. ASSUME p.dev = Root(b), drv[Root(b)] # "NULL", p.callback = "event",
             HubEvent(b, hub[b], r, control, chs)
      PROVE  Orderly(hub'[b], P)
  <2>1. Found(b, hub[b])
    BY <1>1, <1>5, LatchedFound
  <2>2. hub[b].state = "POLL"
    <3>1. SingleFile(b) /\ ~Ep0Packet(p, Root(b))
      BY <1>1, <1>5, DriverUp DEF Ep0Packet
    <3>2. ~NoEvents(Root(b))
      BY <1>1, <1>5, <3>1 DEF Reported, Answers
    <3> QED
      BY <3>1, <3>2 DEF SingleFile
  <2> QED
    BY <1>1, <1>5, <2>1, <2>2, HubEventOrderly
<1> QED
  BY <1>1, <1>2, <1>3, <1>4, <1>5 DEF HubPacketCallback

\* The hub has cleared the reset change by the time it answers.
LEMMA CompletionOrderly ==
    ASSUME NEW b, Buses = {b}, HInv, OneHub(b), Matched(b), Orderly(hub[b], port[b]),
           NEW c \in Chan, HubCompletion(c)
    PROVE  Orderly(hub'[b], port'[b])
<1>1. PICK r \in Responses(channels[c]), left \in {NoPacket, Halting} :
         /\ HubPacketCallback(channels[c], r, Released(c, left))
         /\ PortsAfter(channels[c], r)
  BY DEF HubCompletion
<1>2. Answerable(c) /\ dpstate' = dpstate
  BY DEF HubCompletion
<1>3. PICK p \in Packet, chs \in [Chan -> Carried] :
         p = channels[c] /\ chs = Released(c, left)
  BY <1>2, HubCompletionReports
<1>4. r \in Status /\ Reported(p, r, chs)
  BY <1>2, <1>3, HubCompletionReports
<1>5. Orderly(hub[b], port'[b])
  BY <1>1, <1>3, PortsAfterOrderly
<1>6. Orderly(Latched(p, r), port'[b])
  <2>1. CASE Latched(p, r) = hub[b]
    BY <1>5, <2>1
  <2>2. CASE p.kind = "IN"
    <3>1. port' = port
      BY <1>1, <1>3, <2>2 DEF PortsAfter
    <3> QED
      BY <3>1, LatchedOrderly
  <2> QED
    BY <2>1, <2>2 DEF Latched, Packet, Device
<1>7. ASSUME hub[b].state = "PORT_RESET_COMPLETE", DriverRequestEnds(p, r),
             p.dev = Root(b), drv[Root(b)] # "NULL", ControlResult(p.dev, r) = "OK"
      PROVE  "C_PORT_RESET" \notin port'[b][hub[b].current_port].stc
  <2>1. /\ hub[b].wIndex = hub[b].current_port /\ hub[b].request = "CLEAR_C_PORT_RESET"
        /\ hub[b].wIndex # 0
    <3>1. DriversInv /\ b \in Buses
      BY DEF HInv
    <3>2. HubWork(hub[b])
      BY <1>7, <3>1, DriverUp
    <3> QED
      BY <1>7, <3>2 DEF Orderly, HubWork, PortNum
  <2>2. /\ p.callback = "control_state_machine" /\ control[Root(b)].callback = "event"
        /\ control[Root(b)].state \in {"SETUP", "DATA", "STATUS"}
    BY <1>7 DEF DriverRequestEnds, ControlEnds
  <2>3. control[Root(b)].state = "STATUS" /\ r = "OK"
    <3>1. Asked(Root(b))
      BY <2>2 DEF Asked
    <3>2. control[Root(b)].request = "NODATA" /\ control[Root(b)].state # "DATA"
      BY <2>1, <3>1 DEF Matched
    <3> QED
      BY <1>7, <2>2, <3>2 DEF ControlResult
  <2>4. p.kind = "STATUS"
    <3>1. Ep0Packet(p, Root(b)) /\ Root(b) \in Device /\ b \in Buses /\ DriversInv
      BY <1>7, <2>2, RootIsDevice DEF Ep0Packet, HInv
    <3>2. Answers(Root(b), p, chs) /\ dpstate[b] = "RUN" /\ OneDevice(b, Root(b))
      BY <1>4, <1>7, <3>1, DriverUp DEF Reported, OneHub
    <3>3. \A q \in Packet : Alone(Root(b), q) => q = p
      BY <3>1, <3>2 DEF Answers
    <3>4. PipePacket(Root(b), p) \/ RawPacket(Root(b), p)
      BY <3>1, <3>2, <3>3, EndsEngaged DEF Answers
    <3> QED
      BY <2>2, <2>3, <3>4 DEF PipePacket, RawPacket, StateKind
  <2>6. Effect(b)
    BY <1>1, <1>3, <1>7, <2>1, <2>2, <2>3, <2>4 DEF PortsAfter, Root
  <2> QED
    BY <2>1, <2>6, EffectCalmer
<1>8. PICK P : P = port'[b]
  OBVIOUS
<1>9. /\ Orderly(hub[b], P) /\ Orderly(Latched(p, r), P) /\ HubPacketCallback(p, r, chs)
      /\ /\ hub[b].state = "PORT_RESET_COMPLETE" /\ DriverRequestEnds(p, r)
         /\ p.dev = Root(b) /\ drv[Root(b)] # "NULL" /\ ControlResult(p.dev, r) = "OK"
         => "C_PORT_RESET" \notin P[hub[b].current_port].stc
  BY <1>1, <1>3, <1>5, <1>6, <1>7, <1>8
<1>10. Orderly(hub'[b], P)
  BY <1>4, <1>9, CallbackOrderly
<1> QED
  BY <1>8, <1>10

LEMMA RefusalOrderly ==
    ASSUME NEW b, Buses = {b}, HInv, Orderly(hub[b], port[b]), HubRefusal
    PROVE  Orderly(hub'[b], port'[b])
<1>1. /\ refused # NoPacket /\ dpstate' = dpstate /\ port' = port
      /\ HubPacketCallback(refused, "EFATAL", channels)
  BY DEF HubRefusal
<1>2. /\ refused \in Packet /\ "EFATAL" \in Status
      /\ Reported(refused, "EFATAL", channels)
  BY <1>1, HubRefusalReports
<1>3. ControlResult(refused.dev, "EFATAL") # "OK"
  BY DEF ControlResult
<1>4. Orderly(Latched(refused, "EFATAL"), port[b])
  BY <1>2, LatchedOrderly
<1>5. PICK P : P = port[b]
  OBVIOUS
<1>6. Orderly(hub[b], P) /\ Orderly(Latched(refused, "EFATAL"), P)
  BY <1>4, <1>5
<1>7. Orderly(hub'[b], P)
  BY <1>1, <1>2, <1>3, <1>6, CallbackOrderly
<1> QED
  BY <1>1, <1>5, <1>7

LEMMA OrderlyStep ==
    ASSUME NEW b, Buses = {b}, HInv, OneHub(b), Matched(b), Orderly(hub[b], port[b]),
           [HubNext]_hvars
    PROVE  Orderly(hub'[b], port'[b])
<1> DEFINE h == hub[b]
<1>0. /\ b \in Buses /\ hub \in [Buses -> HubState] /\ DriversInv /\ h \in HubState
      /\ HubWork(h) /\ port \in [Buses -> [PortNum -> PortState]]
  BY DEF HInv, DriversInv, DriverInv
<1>1. CASE UNCHANGED hubVars
  BY <1>1 DEF hubVars
<1>2. CASE HubDisconnected(b)
  <2>1. \A q \in PortNum : port'[b][q].stage = "off" /\ ~HasReset(port'[b][q])
    <3> SUFFICES ASSUME NEW q \in PortNum
                 PROVE  port'[b][q].stage = "off" /\ ~HasReset(port'[b][q])
      OBVIOUS
    <3>1. port'[b][q] = [NothingPlugged EXCEPT !.speed = port[b][q].speed]
      BY <1>0, <1>2 DEF HubDisconnected
    <3>2. port'[b][q].stage = "off" /\ port'[b][q].stc = {}
      BY <3>1 DEF NothingPlugged
    <3> QED
      BY <3>2 DEF HasReset
  <2>2. CASE hub'[b] = h
    <3>1. Calmer(h, port[b], port'[b])
      BY <2>1 DEF Calmer
    <3> QED
      BY <1>0, <2>2, <3>1, CalmerOrderly
  <2>3. CASE hub'[b] = HubRemoved(h)
    <3> DEFINE x == hub'[b]
               g == Idle(h)
    <3>1. g \in HubState /\ g.request = "GET_STATUS"
      BY <1>0, IdleTyped DEF Idle, HubState
    <3>2. x = [g EXCEPT !.state = "NONE", !.busy = FALSE, !.device = NoDevices, !.index = 0]
      BY <2>3 DEF HubRemoved
    <3> HIDE DEF x, g
    <3>3. x.state = "NONE" /\ x.request = "GET_STATUS"
      BY <3>1, <3>2 DEF HubState
    <3>4. Orderly(x, port'[b])
      BY <2>1, <3>3 DEF Orderly
    <3> QED
      BY <3>4 DEF x
  <2> QED
    BY <1>0, <1>2, <2>2, <2>3 DEF HubDisconnected
<1>3. CASE PollStatusChange(b)
  <2> DEFINE x == hub'[b]
  <2>1. /\ x.device = h.device /\ x.state = "POLL" /\ x.request = h.request
        /\ x.wIndex = h.wIndex /\ x.status = h.status /\ h.state = "POLL_REQ" /\ port' = port
    BY <1>0, <1>3 DEF PollStatusChange, HubState
  <2>2. h.status = NothingPlugged
    BY <2>1 DEF Orderly
  <2> HIDE DEF x, h
  <2>3. Orderly(h, port[b])
    BY DEF h
  <2>4. Orderly(x, port[b])
    BY <2>1, <2>2, <2>3 DEF Orderly
  <2> QED
    BY <2>1, <2>4 DEF x
<1>4. CASE PollInitial(b)
  <2>1. port' = port
    BY <1>4 DEF PollInitial
  <2>2. CASE Ask(b, hub[b], "READ_HUB_DESCRIPTOR_COMPLETE", "GET_DESCRIPTOR", 0,
                 control, channels)
    <3> PICK P : P = port[b]
      OBVIOUS
    <3> PICK g : g = h
      OBVIOUS
    <3>1. /\ Orderly(g, P) /\ g \in HubState
          /\ Ask(b, g, "READ_HUB_DESCRIPTOR_COMPLETE", "GET_DESCRIPTOR", 0, control, channels)
      BY <1>0, <2>2
    <3>2. Orderly(hub'[b], P)
      BY <1>0, <3>1, AskAwayOrderly
    <3> QED
      BY <2>1, <3>2
  <2>3. CASE EnablePorts(b, [hub[b] EXCEPT !.index = 0], control, channels)
    <3> PICK P : P = port[b]
      OBVIOUS
    <3> DEFINE g == [h EXCEPT !.index = 0]
    <3>1. 0 \in 0 .. ports_num
      BY HubAssumption
    <3>2. g \in HubState /\ g.device = h.device
      BY <1>0, <3>1, FieldsTyped
    <3>3. EnablePorts(b, g, control, channels)
      BY <2>3
    <3> HIDE DEF g
    <3>4. Orderly(hub'[b], P)
      BY <1>0, <3>2, <3>3, EnablePortsOrderly
    <3> QED
      BY <2>1, <3>4
  <2> QED
    BY <1>4, <2>2, <2>3 DEF PollInitial
<1>5. CASE PollStartEnumeration(b)
  <2>1. /\ hub'[b] = [Idle(hub[b]) EXCEPT !.busy = FALSE, !.current_port = Unused]
        /\ port' = port
    BY <1>0, <1>5 DEF PollStartEnumeration
  <2>2. PICK g \in HubState : g = h
    BY <1>0
  <2>3. Orderly(g, port[b])
    BY <2>2
  <2>4. Orderly([Idle(g) EXCEPT !.busy = FALSE, !.current_port = Unused], port[b])
    BY <2>3, IdleOrderly
  <2> QED
    BY <2>1, <2>2, <2>4
<1>6. ASSUME NEW p \in PortNum,
             \/ \E s \in Speeds : Plug(b, p, s)
             \/ Unplug(b, p) \/ PortResetDone(b, p) \/ PortFault(b, p)
      PROVE  Orderly(hub'[b], port'[b])
  <2>1. Calmer(h, port[b], port'[b])
    BY <1>0, <1>6, PortChangeCalmer
  <2>2. hub' = hub
    BY <1>6 DEF Plug, Unplug, PortResetDone, PortFault
  <2> QED
    BY <1>0, <2>1, <2>2, CalmerOrderly
<1>7. ASSUME NEW p \in PortNum, LeafTransfer(b, p) PROVE UNCHANGED hubVars
  BY <1>7 DEF LeafTransfer
<1>8. CASE HubRefusal
  BY <1>8, RefusalOrderly
<1>9. ASSUME NEW c \in Chan, HubCompletion(c) PROVE Orderly(hub'[b], port'[b])
  BY <1>9, CompletionOrderly
<1> HIDE DEF h
<1> QED
  BY <1>0, <1>1, <1>2, <1>3, <1>4, <1>5, <1>6, <1>7, <1>8, <1>9 DEF HubNext, hvars

-----------------------------------------------------------------------------
(* The request in the control pipe.                                        *)

\* Nothing new is in the pipe of the hub.
LEMMA MatchedKept ==
    ASSUME NEW b, Matched(b), control'[Root(b)] = control[Root(b)],
           hub'[b].request = hub[b].request \/ ~Asked(Root(b))
    PROVE  Matched(b)'
BY DEF Matched, Asked, Root

LEMMA NotAskedMatched ==
    ASSUME NEW b, \/ control'[Root(b)].state = "NONE"
                  \/ control'[Root(b)].callback # "event"
    PROVE  Matched(b)'
BY DEF Matched, Asked, Root

LEMMA AskMatched ==
    ASSUME hub \in [Buses -> HubState], NEW b \in Buses, NEW g, "request" \in DOMAIN g,
           NEW state, NEW request, NEW w, NEW ctl \in [Device -> Control],
           ctl[Root(b)].state = "NONE", NEW chs, Ask(b, g, state, request, w, ctl, chs)
    PROVE  Matched(b)'
<1> DEFINE in == IF request \in {"GET_DESCRIPTOR", "GET_STATUS"} THEN "IN" ELSE "NODATA"
<1>1. hub'[b].request = request
  BY DEF Ask
<1>2. Root(b) \in Device
  BY RootIsDevice
<1>3. control'[Root(b)] = [state |-> "SETUP", callback |-> "event", request |-> in]
  BY <1>2 DEF Ask, DeviceControl
<1>4. control'[Root(b)].state = "SETUP" /\ control'[Root(b)].request = in
  BY <1>3
<1> QED
  BY <1>1, <1>4 DEF Matched, Root

LEMMA HubEventMatched ==
    ASSUME hub \in [Buses -> HubState], NEW b \in Buses, NEW h \in HubState, NEW r,
           NEW ctl \in [Device -> Control], ctl[Root(b)].state = "NONE",
           NEW chs, HubEvent(b, h, r, ctl, chs)
    PROVE  Matched(b)'
<1>1. "request" \in DOMAIN h
  BY DEF HubState
<1>2. ASSUME NEW g, Rest(b, g, ctl, chs) PROVE Matched(b)'
  BY <1>2, NotAskedMatched DEF Rest
<1>3. ASSUME NEW g, "request" \in DOMAIN g, NEW state, NEW request, NEW w,
             Ask(b, g, state, request, w, ctl, chs)
      PROVE  Matched(b)'
  BY <1>3, AskMatched
<1>4. /\ \A i : "request" \in DOMAIN [h EXCEPT !.index = i]
      /\ \A i : "request" \in DOMAIN [h EXCEPT !.busy = i]
      /\ \A i : "request" \in DOMAIN [h EXCEPT !.current_port = i]
      /\ \A p, s : "request" \in DOMAIN [h EXCEPT !.device[p] = s, !.current_port = Unused]
  BY <1>1
<1>5. ASSUME NEW g, "request" \in DOMAIN g, EnablePorts(b, g, ctl, chs) PROVE Matched(b)'
  <2>1. "request" \in DOMAIN [g EXCEPT !.index = g.index + 1]
        /\ "request" \in DOMAIN [g EXCEPT !.index = 0]
    BY <1>5
  <2> QED
    BY <1>3, <1>5, <2>1 DEF EnablePorts
<1>6. CASE HubDescriptorRead(b, h, r, ctl, chs)
  <2>1. CASE EnablePorts(b, [h EXCEPT !.index = 0], ctl, chs)
    BY <1>4, <1>5, <2>1
  <2> QED
    BY <1>1, <1>2, <1>3, <1>6, <2>1 DEF HubDescriptorRead
<1>7. CASE PortsPowered(b, h, r, ctl, chs) \/ PortStatusRead(b, h, r, ctl, chs)
  BY <1>1, <1>2, <1>3, <1>4, <1>5, <1>7 DEF PortsPowered, PortStatusRead
<1>8. CASE StatusChange(b, h, r, ctl, chs) \/ StatusRead(b, h, r, ctl, chs)
  BY <1>1, <1>2, <1>3, <1>4, <1>8 DEF StatusChange, StatusRead
<1>9. CASE ConnectionCleared(b, h, r, ctl, chs)
  BY <1>1, <1>2, <1>3, <1>4, <1>9 DEF ConnectionCleared
<1>10. CASE ResetCleared(b, h, r, ctl, chs)
  BY <1>1, <1>2, <1>3, <1>4, <1>10 DEF ResetCleared
<1>11. CASE EventIgnored(b, h, ctl, chs)
  BY <1>2, <1>11 DEF EventIgnored
<1> QED
  BY <1>6, <1>7, <1>8, <1>9, <1>10, <1>11 DEF HubEvent

\* The enumeration of a hub asks through the pipe for itself only.
LEMMA EnumerateMatched ==
    ASSUME NEW d \in Device, NEW ctl \in [Device -> Control], NEW r, NEW chs,
           DeviceEnumerate(d, r, ctl, chs)
    PROVE  control'[d] = ctl[d] \/ control'[d].callback = "device_enumerate"
<1>1. ASSUME NEW next, NEW request, EnumRequest(d, next, request, ctl, chs)
      PROVE  control'[d] = ctl[d] \/ control'[d].callback = "device_enumerate"
  BY <1>1 DEF EnumRequest, DeviceControl
<1>2. ASSUME control' = ctl
      PROVE  control'[d] = ctl[d] \/ control'[d].callback = "device_enumerate"
  BY <1>2
<1> QED
  BY <1>1, <1>2 DEF DeviceEnumerate, SetAddressComplete, DeviceDtReadComplete,
     ConfigurationSetupSent, HeaderReadComplete, ConfigurationReadComplete,
     SetConfigurationComplete, EnumTerminate, EnumRaw

\* The driver of a hub that is called back finds its pipe idle.
LEMMA EventFindsIdle ==
    ASSUME NEW b \in Buses, HInv, drv[Root(b)] # "NULL", NEW p \in Packet,
           p.dev = Root(b), p.callback = "event", NEW r, NEW chs, Reported(p, r, chs)
    PROVE  hub[b].state = "POLL" /\ control[Root(b)].state = "NONE" /\ ~Asked(Root(b))
<1>1. DriversInv /\ CoreTypeOK /\ Root(b) \in Device
  BY RootIsDevice DEF HInv, DriversInv, TypeOK, CoreTypeOK
<1>2. /\ SingleFile(b) /\ Up(Root(b)) /\ drv[Root(b)] = "READY"
      /\ ~Ep0Packet(p, Root(b))
  BY <1>1, DriverUp DEF Ep0Packet
<1>3. ~NoEvents(Root(b))
  BY <1>2 DEF Reported, Answers
<1>4. hub[b].state = "POLL" /\ ~Asked(Root(b))
  BY <1>2, <1>3 DEF SingleFile, RequestState
<1> QED
  BY <1>1, <1>2, <1>4, NothingAskedIdle

LEMMA CallbackMatched ==
    ASSUME NEW b, Buses = {b}, HInv, Matched(b), NEW p \in Packet, NEW r \in Status,
           NEW chs, Reported(p, r, chs), HubPacketCallback(p, r, chs)
    PROVE  Matched(b)'
<1>0. /\ b \in Buses /\ hub \in [Buses -> HubState] /\ DriversInv /\ CoreTypeOK
      /\ p.dev[1] = b /\ p.dev \in Device /\ Root(b) \in Device
      /\ port \in [Buses -> [PortNum -> PortState]]
  BY RootIsDevice DEF HInv, DriversInv, TypeOK, CoreTypeOK, Packet, Device
<1>1. CASE HubCoreCallback(p, r, chs)
  <2>1. hub'[b].request = hub[b].request
    <3>1. hub'[b] = hub[b] \/ hub'[b] = HubBound(hub[b])
      BY <1>0, <1>1 DEF HubCoreCallback
    <3>2. HubBound(hub[b]).request = hub[b].request
      BY <1>0 DEF HubBound, HubState
    <3> QED
      BY <3>1, <3>2
  <2>2. CASE p.dev # Root(b)
    <3>1. control'[Root(b)] = control[Root(b)]
      BY <1>0, <1>1, <2>2, CallbackTyped DEF HubCoreCallback, PacketCallback, OthersKept
    <3> QED
      BY <2>1, <3>1, MatchedKept
  <2>3. CASE p.dev = Root(b)
    <3> DEFINE d == Root(b)
    <3>0. d \in Device /\ control \in [Device -> Control]
      BY <1>0 DEF CoreTypeOK
    <3>1. CASE ControlAdvance(d, r, chs)
      <4>1. /\ control'[d].state = NextStage(d) /\ control'[d].request = control[d].request
            /\ control'[d].callback = control[d].callback /\ control[d].state # "NONE"
        <5>1. control' = [control EXCEPT ![d].state = NextStage(d)]
              /\ control[d].state \in {"SETUP", "DATA"}
          BY <3>1 DEF ControlAdvance
        <5>2. control[d] \in Control
          BY <3>0
        <5> QED
          BY <3>0, <5>1, <5>2 DEF Control
      <4>2. NextStage(d) = "DATA" => control[d].request # "NODATA"
        BY DEF NextStage
      <4> QED
        BY <2>1, <4>1, <4>2 DEF Matched, Asked, Root
    <3>2. CASE control'[d] = control[d]
      BY <2>1, <3>2, MatchedKept
    <3>3. CASE control'[d].callback # "event" \/ control'[d].state = "NONE"
      BY <3>3, NotAskedMatched
    <3>4. CASE DeviceEnumerate(d, ControlResult(d, r), PipeIdle(d), chs)
      <4>1. PipeIdle(d) \in [Device -> Control] /\ PipeIdle(d)[d].state = "NONE"
        BY <1>0, PipeIdleTyped DEF IdleControl
      <4> QED
        BY <1>0, <3>3, <3>4, <4>1, EnumerateMatched
    <3>5. CASE DeviceEnumerate(d, r, control, chs)
      BY <3>0, <3>2, <3>3, <3>5, EnumerateMatched
    <3>6. CASE ControlIgnored(d, chs)
      BY <3>2, <3>6 DEF ControlIgnored, coreVars
    <3> QED
      BY <1>1, <2>3, <3>1, <3>4, <3>5, <3>6 DEF HubCoreCallback, CoreCallback
  <2> QED
    BY <2>2, <2>3
<1>2. CASE LeafEvent(p, chs)
  BY <1>2, MatchedKept DEF LeafEvent, coreVars
<1>3. ASSUME p.dev = Root(b), drv[Root(b)] # "NULL",
             HubEvent(b, Latched(p, r), ControlResult(p.dev, r), PipeIdle(p.dev), chs)
      PROVE  Matched(b)'
  <2>1. Latched(p, r) \in HubState
    BY <1>0, <1>3, LatchedFound
  <2>2. PipeIdle(Root(b)) \in [Device -> Control] /\ PipeIdle(Root(b))[Root(b)].state = "NONE"
    BY <1>0, PipeIdleTyped DEF IdleControl
  <2> QED
    BY <1>0, <1>3, <2>1, <2>2, HubEventMatched
<1>4. ASSUME p.dev = Root(b), drv[Root(b)] # "NULL", p.callback = "event",
             HubEvent(b, hub[b], r, control, chs)
      PROVE  Matched(b)'
  <2>1. control[Root(b)].state = "NONE" /\ control \in [Device -> Control]
    BY <1>0, <1>4, EventFindsIdle DEF CoreTypeOK
  <2> QED
    BY <1>0, <1>4, <2>1, HubEventMatched
<1> QED
  BY <1>0, <1>1, <1>2, <1>3, <1>4 DEF HubPacketCallback

LEMMA MatchedStep ==
    ASSUME NEW b, Buses = {b}, HInv, Matched(b), [HubNext]_hvars
    PROVE  Matched(b)'
<1>0. /\ b \in Buses /\ hub \in [Buses -> HubState] /\ DriversInv /\ CoreTypeOK
      /\ Root(b) \in Device
  BY RootIsDevice DEF HInv, DriversInv, TypeOK, CoreTypeOK
<1>1. CASE hub' = hub /\ control' = control
  BY <1>1, MatchedKept
<1>2. CASE Connected(b)
  <2>1. PipeIdle(Root(b)) \in [Device -> Control] /\ PipeIdle(Root(b))[Root(b)].state = "NONE"
    BY <1>0, PipeIdleTyped DEF IdleControl
  <2>2. control'[Root(b)].callback = "device_enumerate"
    BY <1>0, <1>2, <2>1 DEF Connected, EnumerationStart, DeviceControl
  <2> QED
    BY <2>2, NotAskedMatched
<1>3. CASE HubDisconnected(b)
  <2>1. control'[Root(b)].state = "NONE"
    BY <1>0, <1>3, PipeIdleTyped DEF HubDisconnected, Disconnected, IdleControl
  <2> QED
    BY <2>1, NotAskedMatched
<1>4. CASE PollStatusChange(b)
  <2>1. control' = control /\ hub'[b].request = hub[b].request
    BY <1>0, <1>4 DEF PollStatusChange, coreVars, HubState
  <2> QED
    BY <2>1, MatchedKept
<1>5. CASE PollInitial(b)
  <2>1. control[Root(b)].state = "NONE" /\ control \in [Device -> Control]
    <3>1. drv[Root(b)] # "NULL" /\ hub[b].state = "INITIAL"
      BY <1>5 DEF PollInitial, Polled
    <3>2. Up(Root(b)) /\ drv[Root(b)] = "READY" /\ ~Asked(Root(b))
      BY <1>0, <3>1, DriverUp DEF SingleFile, RequestState
    <3> QED
      BY <1>0, <3>2, NothingAskedIdle DEF CoreTypeOK
  <2>2. ASSUME NEW g, "request" \in DOMAIN g, NEW state, NEW request, NEW w,
               Ask(b, g, state, request, w, control, channels)
        PROVE  Matched(b)'
    BY <1>0, <2>1, <2>2, AskMatched
  <2>3. "request" \in DOMAIN hub[b]
    BY <1>0 DEF HubState
  <2>4. \A i, j : /\ "request" \in DOMAIN [[hub[b] EXCEPT !.index = i] EXCEPT !.index = j]
    BY <2>3
  <2>5. CASE EnablePorts(b, [hub[b] EXCEPT !.index = 0], control, channels)
    BY <2>2, <2>4, <2>5 DEF EnablePorts
  <2> QED
    BY <1>5, <2>2, <2>3, <2>5 DEF PollInitial
<1>6. CASE PollStartEnumeration(b)
  <2> PICK d \in {<<b, hub[b].device[hub[b].current_port]>>} : TRUE
    OBVIOUS
  <2>1. /\ drv[Root(b)] # "NULL" /\ hub[b].state = "SLEEP_500_MS"
        /\ EnumerationStart(d, address[d], control, channels)
    BY <1>6 DEF PollStartEnumeration, Polled
  <2>2. HubWork(hub[b]) /\ Ports(b) /\ ~Asked(Root(b))
    BY <1>0, <2>1, DriverUp DEF SingleFile, RequestState
  <2>3. d # Root(b)
    BY <2>1, <2>2 DEF HubWork, Ports, Root
  <2>4. control'[Root(b)] = control[Root(b)]
    BY <1>0, <2>1, <2>3 DEF EnumerationStart, DeviceControl, CoreTypeOK
  <2> QED
    BY <2>2, <2>4, MatchedKept
<1>7. CASE HubRefusal
  <2>1. refused # NoPacket /\ HubPacketCallback(refused, "EFATAL", channels) /\ dpstate' = dpstate
    BY <1>7 DEF HubRefusal
  <2>2. refused \in Packet /\ "EFATAL" \in Status /\ Reported(refused, "EFATAL", channels)
    BY <2>1, HubRefusalReports
  <2> QED
    BY <2>1, <2>2, CallbackMatched
<1>8. ASSUME NEW c \in Chan, HubCompletion(c) PROVE Matched(b)'
  <2>1. PICK r \in Responses(channels[c]), left \in {NoPacket, Halting} :
           HubPacketCallback(channels[c], r, Released(c, left))
    BY <1>8 DEF HubCompletion
  <2>2. /\ channels[c] \in Packet /\ r \in Status
        /\ Reported(channels[c], r, Released(c, left))
    BY <1>8, HubCompletionReports DEF HubCompletion
  <2> QED
    BY <2>1, <2>2, CallbackMatched
<1> QED
  BY <1>0, <1>1, <1>2, <1>3, <1>4, <1>5, <1>6, <1>7, <1>8
     DEF HubNext, hvars, vars, hubVars, coreVars, Reset, Plug, Unplug, PortResetDone,
         PortFault, LeafTransfer, DriverTransfer, Halted

-----------------------------------------------------------------------------
(* The devices the driver knows.                                           *)

LEMMA AskDevice ==
    ASSUME hub \in [Buses -> HubState], NEW b \in Buses, NEW g \in HubState,
           NEW state, NEW request, NEW w, NEW ctl, NEW chs,
           Ask(b, g, state, request, w, ctl, chs)
    PROVE  hub'[b].device = g.device
BY DEF Ask, HubState

LEMMA EnablePortsDevice ==
    ASSUME hub \in [Buses -> HubState], NEW b \in Buses, NEW g \in HubState,
           NEW ctl, NEW chs, EnablePorts(b, g, ctl, chs)
    PROVE  hub'[b].device = g.device
<1>1. g.index \in 0 .. ports_num /\ ports_num \in Nat /\ 0 \in 0 .. ports_num
  BY HubAssumption DEF HubState
<1>2. CASE g.index < ports_num
  <2> DEFINE x == [g EXCEPT !.index = g.index + 1]
  <2>1. x \in HubState /\ x.device = g.device
    BY <1>1, <1>2, FieldsTyped
  <2>2. Ask(b, x, "ENABLE_PORTS", "SET_PORT_POWER", g.index + 1, ctl, chs)
    BY <1>2 DEF EnablePorts
  <2> HIDE DEF x
  <2> QED
    BY <2>1, <2>2, AskDevice
<1>3. CASE ~(g.index < ports_num)
  <2> DEFINE x == [g EXCEPT !.index = 0]
  <2>1. x \in HubState /\ x.device = g.device
    BY <1>1, FieldsTyped
  <2>2. Ask(b, x, "GET_PORT_STATUS", "GET_STATUS", 0, ctl, chs)
    BY <1>3 DEF EnablePorts
  <2> HIDE DEF x
  <2> QED
    BY <2>1, <2>2, AskDevice
<1> QED
  BY <1>2, <1>3

LEMMA IdleDevice ==
    ASSUME NEW h \in HubState
    PROVE  /\ Idle(h).device = h.device
           /\ [Idle(h) EXCEPT !.state = "NONE"].device = h.device
           /\ [Idle(h) EXCEPT !.busy = FALSE].device = h.device
<1> DEFINE g == Idle(h)
<1>1. g \in HubState /\ g.device = h.device
  BY IdleTyped
<1> HIDE DEF g
<1>2. /\ [g EXCEPT !.state = "NONE"].device = h.device
      /\ [g EXCEPT !.busy = FALSE].device = h.device
  BY <1>1 DEF HubState
<1> QED
  BY <1>1, <1>2 DEF g

\* The driver and the ports of its hub are about the same devices after an event.
SameDevices(b, h) == UNCHANGED <<address, drv>> /\ hub'[b].device = h.device

\* The device in the current port is removed.
LosesDevice(b, h) ==
    LET p == h.current_port
    IN  /\ h.state = "PORT_RESET_REQ" /\ p \in PortNum /\ h.device[p] # Unused
        /\ DeviceRemove({<<b, h.device[p]>>})
        /\ hub'[b].device = [h.device EXCEPT ![p] = Unused]

\* A device gets slot s, in the current port.
GetsDevice(b, h, s) ==
    LET p == h.current_port
    IN  /\ h.state = "PORT_RESET_COMPLETE" /\ p \in PortNum
        /\ address' = [address EXCEPT ![<<b, s>>] = s + 1] /\ drv' = drv
        /\ hub'[b].device = [h.device EXCEPT ![p] = s]

LEMMA ConnectionClearedDevices ==
    ASSUME hub \in [Buses -> HubState], NEW b \in Buses, NEW h, Found(b, h),
           NEW r, NEW ctl, NEW chs, ConnectionCleared(b, h, r, ctl, chs)
    PROVE  SameDevices(b, h) \/ LosesDevice(b, h)
<1> DEFINE p == h.current_port
<1>0. h \in HubState /\ h.state = "PORT_RESET_REQ" /\ p \in PortNum
  BY DEF Found, HubWork, ConnectionCleared
<1>1. CASE /\ UNCHANGED <<address, drv>>
           /\ Ask(b, [h EXCEPT !.busy = TRUE], "GET_PORT_STATUS", "SET_PORT_RESET", p, ctl, chs)
  <2> DEFINE g == [h EXCEPT !.busy = TRUE]
  <2>1. g \in HubState /\ g.device = h.device
    BY <1>0, FieldsTyped
  <2>2. Ask(b, g, "GET_PORT_STATUS", "SET_PORT_RESET", p, ctl, chs)
    BY <1>1
  <2> HIDE DEF g
  <2>3. hub'[b].device = h.device
    BY <2>1, <2>2, AskDevice
  <2> QED
    BY <1>1, <2>3 DEF SameDevices
<1>2. CASE /\ h.device[p] # Unused /\ DeviceRemove({<<b, h.device[p]>>})
           /\ Rest(b, [Idle(h) EXCEPT !.device[p] = Unused, !.busy = FALSE,
                                      !.current_port = Unused], ctl, chs)
  <2> DEFINE g == Idle(h)
  <2>1. g \in HubState /\ g.device = h.device
    BY <1>0, IdleTyped
  <2>2. hub'[b] = [g EXCEPT !.device[p] = Unused, !.busy = FALSE, !.current_port = Unused]
    BY <1>2, RestState
  <2> HIDE DEF g
  <2>3. hub'[b].device = [h.device EXCEPT ![p] = Unused]
    BY <2>1, <2>2 DEF HubState
  <2> QED
    BY <1>0, <1>2, <2>3 DEF LosesDevice
<1>3. CASE UNCHANGED <<address, drv>> /\ Rest(b, Idle(h), ctl, chs)
  BY <1>0, <1>3, RestState, IdleDevice DEF SameDevices
<1> QED
  BY <1>1, <1>2, <1>3 DEF ConnectionCleared

LEMMA ResetClearedDevices ==
    ASSUME hub \in [Buses -> HubState], NEW b \in Buses, NEW h, Found(b, h),
           NEW r, NEW ctl, NEW chs, ResetCleared(b, h, r, ctl, chs)
    PROVE  SameDevices(b, h) \/ \E s \in Slot : GetsDevice(b, h, s)
<1> DEFINE p == h.current_port
<1>0. h \in HubState /\ h.state = "PORT_RESET_COMPLETE" /\ p \in PortNum /\ drv' = drv
  BY DEF Found, HubWork, ResetCleared
<1>1. ASSUME NEW s \in Slot, address' = [address EXCEPT ![<<b, s>>] = s + 1],
             hub'[b].device = [h.device EXCEPT ![p] = s]
      PROVE  \E t \in Slot : GetsDevice(b, h, t)
  BY <1>0, <1>1 DEF GetsDevice
<1>2. ASSUME NEW s \in Slot, address' = [address EXCEPT ![<<b, s>>] = s + 1],
             Ask(b, [h EXCEPT !.device[p] = s, !.current_port = Unused],
                 "GET_PORT_STATUS", "CLEAR_PORT_ENABLE", p, ctl, chs)
      PROVE  \E t \in Slot : GetsDevice(b, h, t)
  <2>1. hub'[b].device = [h.device EXCEPT ![p] = s]
    BY <1>0, <1>2 DEF Ask, HubState
  <2> QED
    BY <1>1, <1>2, <2>1
<1>3. ASSUME NEW s \in Slot, address' = [address EXCEPT ![<<b, s>>] = s + 1],
             Rest(b, [h EXCEPT !.device[p] = s, !.state = "SLEEP_500_MS"], ctl, chs)
      PROVE  \E t \in Slot : GetsDevice(b, h, t)
  <2>1. hub'[b].device = [h.device EXCEPT ![p] = s]
    BY <1>0, <1>3 DEF Rest, HubState
  <2> QED
    BY <1>1, <1>3, <2>1
<1>4. CASE UNCHANGED address /\ (Rest(b, h, ctl, chs) \/ Rest(b, Idle(h), ctl, chs))
  BY <1>0, <1>4, RestState, IdleDevice DEF SameDevices
<1> QED
  BY <1>2, <1>3, <1>4 DEF ResetCleared

LEMMA EventDevices ==
    ASSUME hub \in [Buses -> HubState], NEW b \in Buses, NEW h, Found(b, h),
           NEW r, NEW ctl, NEW chs, HubEvent(b, h, r, ctl, chs)
    PROVE  SameDevices(b, h) \/ LosesDevice(b, h) \/ \E s \in Slot : GetsDevice(b, h, s)
<1>0. /\ h \in HubState /\ h.index \in 0 .. ports_num /\ 0 \in 0 .. ports_num
      /\ h.index < ports_num => h.index + 1 \in 0 .. ports_num
  BY HubAssumption DEF Found, HubState
<1>r. ASSUME NEW x, Rest(b, x, ctl, chs), x.device = h.device
      PROVE  hub'[b].device = h.device
  BY <1>r, RestState
<1>k. ASSUME NEW g \in HubState, g.device = h.device, NEW state, NEW request, NEW w,
             Ask(b, g, state, request, w, ctl, chs)
      PROVE  hub'[b].device = h.device
  BY <1>k, AskDevice
<1>1. CASE HubDescriptorRead(b, h, r, ctl, chs) \/ PortsPowered(b, h, r, ctl, chs)
           \/ PortStatusRead(b, h, r, ctl, chs)
  <2>0. UNCHANGED <<address, drv>>
    BY <1>1 DEF HubDescriptorRead, PortsPowered, PortStatusRead, EnablePorts
  <2>1. CASE EnablePorts(b, h, ctl, chs)
    BY <1>0, <2>0, <2>1, EnablePortsDevice DEF SameDevices
  <2>2. CASE EnablePorts(b, [h EXCEPT !.index = 0], ctl, chs)
    <3> DEFINE g == [h EXCEPT !.index = 0]
    <3>1. g \in HubState /\ g.device = h.device /\ EnablePorts(b, g, ctl, chs)
      BY <1>0, <2>2, FieldsTyped
    <3> HIDE DEF g
    <3> QED
      BY <2>0, <3>1, EnablePortsDevice DEF SameDevices
  <2>3. CASE /\ h.index < ports_num
             /\ Ask(b, [h EXCEPT !.index = @ + 1], h.state, "GET_STATUS", h.index + 1, ctl, chs)
    <3> DEFINE g == [h EXCEPT !.index = h.index + 1]
    <3>1. /\ g \in HubState /\ g.device = h.device
          /\ Ask(b, g, h.state, "GET_STATUS", h.index + 1, ctl, chs)
      BY <1>0, <2>3, FieldsTyped
    <3> HIDE DEF g
    <3> QED
      BY <1>k, <2>0, <3>1 DEF SameDevices
  <2>4. CASE Ask(b, h, h.state, "GET_DESCRIPTOR", 0, ctl, chs)
    BY <1>0, <1>k, <2>0, <2>4 DEF SameDevices
  <2>5. CASE Rest(b, h, ctl, chs) \/ Rest(b, [Idle(h) EXCEPT !.busy = FALSE], ctl, chs)
    BY <1>0, <1>r, <2>0, <2>5, IdleDevice DEF SameDevices
  <2> QED
    BY <1>1, <2>1, <2>2, <2>3, <2>4, <2>5 DEF HubDescriptorRead, PortsPowered, PortStatusRead
<1>2. CASE StatusChange(b, h, r, ctl, chs)
  <2>0. UNCHANGED <<address, drv>>
    BY <1>2 DEF StatusChange
  <2>1. CASE \/ Rest(b, Idle(h), ctl, chs)
             \/ Rest(b, [Idle(h) EXCEPT !.state = "NONE"], ctl, chs)
    BY <1>0, <1>r, <2>0, <2>1, IdleDevice DEF SameDevices
  <2>2. ASSUME NEW p \in {0} \cup PortNum,
               Ask(b, [h EXCEPT !.current_port = p], "GET_STATUS_COMPLETE", "GET_STATUS", p,
                   ctl, chs)
        PROVE  SameDevices(b, h)
    <3> DEFINE g == [h EXCEPT !.current_port = p]
    <3>1. /\ g \in HubState /\ g.device = h.device
          /\ Ask(b, g, "GET_STATUS_COMPLETE", "GET_STATUS", p, ctl, chs)
      BY <1>0, <2>2, FieldsTyped
    <3> HIDE DEF g
    <3> QED
      BY <1>k, <2>0, <3>1 DEF SameDevices
  <2> QED
    BY <1>2, <2>1, <2>2 DEF StatusChange
<1>3. CASE StatusRead(b, h, r, ctl, chs)
  BY <1>0, <1>r, <1>k, <1>3, IdleDevice DEF StatusRead, SameDevices
<1>4. CASE EventIgnored(b, h, ctl, chs)
  BY <1>r, <1>4 DEF EventIgnored, SameDevices
<1> QED
  BY <1>1, <1>2, <1>3, <1>4, ConnectionClearedDevices, ResetClearedDevices DEF HubEvent

\* A device that a step is not about claims nothing new.
LEMMA ClaimKept ==
    ASSUME NEW b, Buses = {b}, OneHub(b), dpstate[b] = "RUN", dpstate' = dpstate,
           NEW e \in Device, e # Root(b), Silent(e) => Silent(e)',
           address'[e] \in {address[e], -1}, drv'[e] = drv[e] \/ address'[e] = -1,
           Claims(e)'
    PROVE  Claims(e)
<1>1. e[2] # 0
  BY OneBus
<1>2. Live(e)' => Live(e)
  <2>1. Live(e)' => ~Silent(e)'
    BY LiveIsLoudNext
  <2>2. Silent(e) \/ Live(e)
    BY DEF OneHub, OneDevice
  <2> QED
    BY <2>1, <2>2
<1>3. address'[e] = 0 => address[e] = 0
  OBVIOUS
<1>4. drv'[e] # "NULL" /\ address'[e] > 0 => drv[e] # "NULL" /\ address[e] > 0
  OBVIOUS
<1> QED
  BY <1>1, <1>2, <1>3, <1>4 DEF Claims, Engaged

\* The driver keeps what it knows.
LEMMA AllKnownKept ==
    ASSUME NEW b, Buses = {b}, OneHub(b), AllKnown(b),
           dpstate[b] = "RUN", dpstate' = dpstate,
           hub'[b].device = hub[b].device, drv[Root(b)] = "READY" => drv'[Root(b)] = "READY",
           \A e \in Device \ {Root(b)} :
              \/ Known(b, e[2])
              \/ /\ Silent(e) => Silent(e)'
                 /\ address'[e] \in {address[e], -1}
                 /\ drv'[e] = drv[e] \/ address'[e] = -1
    PROVE  AllKnown(b)'
<1>1. \A s : Known(b, s) => Known(b, s)'
  BY DEF Known, Root
<1>2. ASSUME NEW e \in Device \ {Root(b)}, Claims(e)'
      PROVE  Known(b, e[2])'
  <2>1. Known(b, e[2])
    BY <1>2, ClaimKept DEF AllKnown
  <2> QED
    BY <1>1, <2>1
<1>3. \A e \in Device : e # Root(b) /\ Claims(e)' => Known(b, e[2])'
  BY <1>2
<1> QED
  BY <1>3 DEF AllKnown, Root

\* Nothing but a channel that halts, a change at a port of the hub, or nothing.
LEMMA QuietKnown ==
    ASSUME NEW b, Buses = {b}, HInv, OneHub(b), AllKnown(b),
           UNCHANGED <<dpstate, refused, coreVars>>, hub' = hub,
           \A c \in Chan : \/ channels'[c] = channels[c]
                           \/ channels[c] = Halting /\ channels'[c] = NoPacket
    PROVE  AllKnown(b)'
<1>1. ASSUME NEW e \in Device PROVE Silent(e) => Silent(e)'
  <2>1. PacketsKept(e)
    BY BusAssumption DEF PacketsKept, Of
  <2> QED
    BY <2>1, PacketsKeptSame
<1>2. CASE dpstate[b] = "RUN"
  BY <1>1, <1>2, AllKnownKept DEF coreVars
<1>3. CASE dpstate[b] # "RUN"
  BY <1>3 DEF AllKnown
<1> QED
  BY <1>2, <1>3

LEMMA ConnectedKnown ==
    ASSUME NEW b, Buses = {b}, HInv, OneHub(b), Connected(b), hub' = hub
    PROVE  AllKnown(b)'
<1> DEFINE r == Root(b)
<1>0. /\ CoreTypeOK /\ b \in Buses /\ r \in Device /\ channels \in [Chan -> Carried]
      /\ refused = NoPacket /\ dpstate[b] = "DEVRST"
  BY OneBus, DriversPorts DEF HInv, BusTypeOK, Carried, Connected, PortEnabled
<1>1. OthersKept(r) /\ Submits(r, channels) /\ TakenFrom(r, channels)
  BY <1>0, ConnectedTyped DEF TakenFrom
<1>2. ASSUME NEW e \in Device, e # r
      PROVE  ~Claims(e)'
  <2>1. PacketsKept(e)
    BY <1>0, <1>1, <1>2, SubmitsKeepsOthers
  <2>2. address[e] = -1 /\ Silent(e)
    BY <1>0 DEF OneHub, OneDevice
  <2>3. address'[e] = -1 /\ Silent(e)' /\ e[2] # 0
    BY <1>1, <1>2, <2>1, <2>2, PacketsKeptSame, OneBus DEF OthersKept
  <2>4. ~Live(e)'
    BY <2>3, LiveIsLoudNext
  <2> QED
    BY <2>3, <2>4 DEF Claims, Engaged
<1> QED
  BY <1>2 DEF AllKnown, Root

\* The hub is asked for something, or its endpoint is read.
LEMMA RootAsksKnown ==
    ASSUME NEW b, Buses = {b}, HInv, OneHub(b), AllKnown(b),
           NEW chs \in [Chan -> Carried], TakenFrom(Root(b), chs),
           refused = NoPacket \/ Of(refused, Root(b)), Submits(Root(b), chs),
           dpstate[b] = "RUN", dpstate' = dpstate, UNCHANGED <<address, drv>>,
           hub'[b].device = hub[b].device
    PROVE  AllKnown(b)'
<1>1. Root(b) \in Device
  BY OneBus
<1>2. ASSUME NEW e \in Device, e # Root(b) PROVE Silent(e) => Silent(e)'
  BY <1>1, <1>2, SubmitsKeepsOthers, PacketsKeptSame
<1> QED
  BY <1>2, AllKnownKept

LEMMA PollKnown ==
    ASSUME NEW b, Buses = {b}, HInv, OneHub(b), AllKnown(b),
           PollStatusChange(b) \/ PollInitial(b)
    PROVE  AllKnown(b)'
<1> DEFINE d == Root(b)
<1>0. /\ CoreTypeOK /\ b \in Buses /\ DriversInv /\ d \in Device
      /\ channels \in [Chan -> Carried] /\ hub \in [Buses -> HubState]
      /\ hub[b] \in HubState /\ control \in [Device -> Control]
  BY OneBus, DriversPorts DEF HInv, DriversInv, BusTypeOK, Carried, CoreTypeOK
<1>1. /\ refused = NoPacket /\ drv[d] = "READY" /\ dpstate' = dpstate
      /\ UNCHANGED <<address, drv>>
  BY DEF PollStatusChange, PollInitial, Polled, EnablePorts, coreVars
<1>2. dpstate[b] = "RUN" /\ TakenFrom(d, channels)
  BY <1>0, <1>1, DriverUp DEF TakenFrom
<1>3. CASE PollStatusChange(b)
  <2>1. hub'[b].device = hub[b].device
    BY <1>0, <1>3 DEF PollStatusChange, HubState
  <2>2. Submits(d, channels)
    <3>1. NewPacket(d, "IN", "event") \in Packet /\ NewPacket(d, "IN", "event").dev = d
      BY <1>0, <1>1, NewPacketTyped DEF Kind, Callback, CoreTypeOK
    <3> QED
      BY <1>3, <3>1 DEF PollStatusChange, Submits
  <2> QED
    BY <1>0, <1>1, <1>2, <2>1, <2>2, RootAsksKnown
<1>4. CASE PollInitial(b)
  <2>1. 0 \in 0 .. ports_num
    BY HubAssumption
  <2>2. hub'[b].device = hub[b].device
    <3>1. CASE Ask(b, hub[b], "READ_HUB_DESCRIPTOR_COMPLETE", "GET_DESCRIPTOR", 0,
                   control, channels)
      BY <1>0, <3>1, AskDevice
    <3>2. CASE EnablePorts(b, [hub[b] EXCEPT !.index = 0], control, channels)
      <4> PICK g : g = [hub[b] EXCEPT !.index = 0]
        OBVIOUS
      <4>1. g \in HubState /\ g.device = hub[b].device
        BY <1>0, <2>1, FieldsTyped
      <4>2. EnablePorts(b, g, control, channels)
        BY <3>2
      <4> QED
        BY <1>0, <4>1, <4>2, EnablePortsDevice
    <3> QED
      BY <1>4, <3>1, <3>2 DEF PollInitial
  <2>3. \E request \in Request : DeviceControl(d, "event", request, control, channels)
    BY <1>4 DEF PollInitial, EnablePorts, Ask, Request
  <2>4. Submits(d, channels)
    <3>1. PICK request \in Request : DeviceControl(d, "event", request, control, channels)
      BY <2>3
    <3> QED
      BY <1>0, <1>1, <3>1, DeviceControlTyped DEF CoreTypeOK
  <2> QED
    BY <1>0, <1>1, <1>2, <2>2, <2>4, RootAsksKnown
<1> QED
  BY <1>3, <1>4

\* The device whose enumeration starts is the one in the current port.
LEMMA PollStartKnown ==
    ASSUME NEW b, Buses = {b}, HInv, OneHub(b), AllKnown(b), PollStartEnumeration(b)
    PROVE  AllKnown(b)'
<1>0. /\ CoreTypeOK /\ b \in Buses /\ DriversInv
      /\ channels \in [Chan -> Carried] /\ hub \in [Buses -> HubState]
      /\ hub[b] \in HubState /\ control \in [Device -> Control]
  BY OneBus, DriversPorts DEF HInv, DriversInv, BusTypeOK, Carried, CoreTypeOK
<1>1. /\ refused = NoPacket /\ drv[Root(b)] = "READY" /\ hub[b].state = "SLEEP_500_MS"
      /\ drv' = drv /\ dpstate' = dpstate
      /\ hub'[b] = [Idle(hub[b]) EXCEPT !.busy = FALSE, !.current_port = Unused]
  BY <1>0 DEF PollStartEnumeration, Polled
<1>2. /\ dpstate[b] = "RUN" /\ hub[b].current_port \in PortNum
      /\ NextSlot(hub[b]) \in Slot \ {0}
  <2>1. dpstate[b] = "RUN" /\ HubWork(hub[b]) /\ Ports(b)
    BY <1>0, <1>1, DriverUp
  <2>2. hub[b].current_port \in PortNum /\ NextSlot(hub[b]) # Unused
    BY <1>1, <2>1 DEF HubWork, NextSlot
  <2> QED
    BY <1>0, <2>1, <2>2 DEF HubState, Ports, NextSlot
<1>s. PICK s \in Slot \ {0} : s = NextSlot(hub[b])
  BY <1>2
<1>d. PICK d \in Device : d = <<b, s>>
  BY <1>0 DEF Device
<1>3. EnumerationStart(d, address[d], control, channels) /\ d[2] = s /\ d # Root(b)
  BY <1>s, <1>d DEF PollStartEnumeration, NextSlot, Root
<1>4. /\ address' = [address EXCEPT ![d] = 0]
      /\ DeviceControl(d, "device_enumerate", "NODATA", control, channels)
  BY <1>3 DEF EnumerationStart
<1>5. address' \in [Device -> Address] /\ \A e \in Device \ {d} : address'[e] = address[e]
  BY <1>0, <1>4, ZeroOneAddress DEF CoreTypeOK
<1>6. Submits(d, channels) /\ TakenFrom(d, channels)
  BY <1>0, <1>4, <1>5, DeviceControlTyped DEF Request, TakenFrom
<1>7. ASSUME NEW e \in Device, e # d PROVE Silent(e) => Silent(e)'
  BY <1>0, <1>1, <1>6, <1>7, SubmitsKeepsOthers, PacketsKeptSame
<1>8. Known(b, d[2])
  BY <1>1, <1>2, <1>3, <1>s DEF Known, NextSlot
<1>9. hub'[b].device = hub[b].device
  <2> PICK g : g = Idle(hub[b])
    OBVIOUS
  <2>1. g \in HubState /\ g.device = hub[b].device
    BY <1>0, IdleTyped
  <2>2. hub'[b] = [g EXCEPT !.busy = FALSE, !.current_port = Unused]
    BY <1>1
  <2> QED
    BY <2>1, <2>2 DEF HubState
<1>10. ASSUME NEW e \in Device \ {Root(b)}
       PROVE  \/ Known(b, e[2])
              \/ /\ Silent(e) => Silent(e)'
                 /\ address'[e] \in {address[e], -1}
                 /\ drv'[e] = drv[e] \/ address'[e] = -1
  BY <1>1, <1>5, <1>7, <1>8
<1> QED
  BY <1>1, <1>2, <1>9, <1>10, AllKnownKept

LEMMA LeafTransferKnown ==
    ASSUME NEW b, Buses = {b}, HInv, OneHub(b), AllKnown(b), NEW q \in PortNum,
           LeafTransfer(b, q)
    PROVE  AllKnown(b)'
<1>0. /\ CoreTypeOK /\ b \in Buses /\ DriversInv /\ hub[b] \in HubState
      /\ channels \in [Chan -> Carried]
  BY OneBus, DriversPorts DEF HInv, DriversInv, BusTypeOK, Carried
<1>1. /\ refused = NoPacket /\ drv[Root(b)] = "READY"
      /\ hub' = hub /\ hub[b].device[q] # Unused
  BY DEF LeafTransfer, Polled, hubVars
<1>2. dpstate[b] = "RUN" /\ Ports(b)
  BY <1>0, <1>1, DriverUp
<1>3. hub[b].device[q] \in Slot \ {0}
  BY <1>0, <1>1, <1>2 DEF HubState, Ports
<1>d. PICK d \in Device : d = <<b, hub[b].device[q]>>
  BY <1>0, <1>3 DEF Device
<1>4. UNCHANGED <<coreVars, dpstate>> /\ Transfers(d, channels) /\ DriverTransfer(d)
  BY <1>d DEF LeafTransfer, DriverTransfer
<1>5. Submits(d, channels) /\ TakenFrom(d, channels)
  BY <1>0, <1>1, <1>4, DriverSubmits DEF TakenFrom
<1>6. ASSUME NEW e \in Device, e # d PROVE Silent(e) => Silent(e)'
  BY <1>0, <1>1, <1>5, <1>6, SubmitsKeepsOthers, PacketsKeptSame
<1>7. Silent(d) => Silent(d)'
  <2>1. KeepsEp0(d, channels)
    BY <1>1, BusAssumption DEF KeepsEp0, Ep0Packet
  <2> QED
    BY <1>0, <1>4, <2>1, TransfersKeep DEF coreVars
<1> QED
  BY <1>1, <1>2, <1>4, <1>6, <1>7, AllKnownKept DEF coreVars

\* A device whose enumeration goes on is one that the driver knows.
LEMMA CoreCallbackKnown ==
    ASSUME NEW b, Buses = {b}, HInv, OneHub(b), AllKnown(b), dpstate[b] = "RUN",
           NEW p \in Packet, NEW r \in Status, NEW chs \in [Chan -> Carried],
           Reported(p, r, chs), Answers(p.dev, p, chs), HubCoreCallback(p, r, chs)
    PROVE  AllKnown(b)'
<1>d. PICK d \in Device : d = p.dev
  BY DEF Packet
<1>0. /\ CoreTypeOK /\ b \in Buses /\ hub \in [Buses -> HubState] /\ hub[b] \in HubState
      /\ control \in [Device -> Control] /\ DriversInv
      /\ OneDevice(b, d) /\ (d[2] = 0 <=> d = Root(b))
  BY OneBus, DriversPorts DEF HInv, DriversInv, CoreTypeOK, OneHub
<1>1. CoreCallback(p, r, chs) /\ PacketCallback(p, r, chs) /\ dpstate' = dpstate
  BY DEF HubCoreCallback, PacketCallback, Reported
<1>2. OthersKept(d) /\ Submits(d, chs)
  BY <1>0, <1>1, <1>d, CallbackTyped
<1>3. /\ TakenFrom(d, chs) /\ (refused = NoPacket \/ Of(refused, d)) /\ Ep0Packet(p, d)
  BY <1>1, <1>d DEF Reported, CoreCallback, Ep0Packet
<1>4. (\A q \in Packet : Alone(d, q) => q = p) /\ ~Silent(d)
  BY <1>3, <1>d DEF Answers
<1>5. hub'[b].device = hub[b].device
  <2>1. hub'[b] = hub[b] \/ hub'[b] = HubBound(hub[b])
    BY <1>0 DEF HubCoreCallback
  <2>2. HubBound(hub[b]).device = hub[b].device
    BY <1>0 DEF HubBound, HubState
  <2> QED
    BY <2>1, <2>2
<1>6. drv[Root(b)] = "READY" => drv'[Root(b)] = "READY"
  <2>1. CASE d # Root(b)
    BY <1>2, <2>1, OneBus DEF OthersKept
  <2>2. ASSUME d = Root(b), drv[Root(b)] = "READY"
        PROVE  drv' = drv
    <3>1. Up(d)
      BY <1>0, <2>2, DriverUp
    <3>2. ~Engaged(d)
      BY <2>2, <3>1, RootEngaged DEF Up
    <3>3. ~Enumerates(d, p) /\ (p.callback = "device_enumerate" => control[d].state = "NONE")
      BY <1>0, <1>3, <1>4, <3>2, EndsEngaged
    <3>4. \/ ControlAdvance(d, r, chs)
          \/ ControlIgnored(d, chs)
          \/ /\ p.callback = "control_state_machine" /\ ControlEnds(d, r)
             /\ control[d].callback = "device_enumerate"
          \/ p.callback = "device_enumerate"
      BY <1>1, <1>d DEF CoreCallback
    <3>5. ~(p.callback = "control_state_machine" /\ ControlEnds(d, r)
              /\ control[d].callback = "device_enumerate")
      BY <3>3 DEF Enumerates, ControlEnds
    <3>6. p.callback # "device_enumerate"
      BY <3>3 DEF Enumerates
    <3> QED
      BY <3>4, <3>5, <3>6 DEF ControlAdvance, ControlIgnored, coreVars
  <2> QED
    BY <2>1, <2>2
<1>7. d # Root(b) => Known(b, d[2])
  <2>1. d # Root(b) => Live(d)
    BY <1>0, <1>4 DEF OneDevice
  <2> QED
    BY <2>1 DEF AllKnown, Claims, Engaged
<1>8. ASSUME NEW e \in Device \ {Root(b)}
      PROVE  \/ Known(b, e[2])
             \/ /\ Silent(e) => Silent(e)'
                /\ address'[e] \in {address[e], -1}
                /\ drv'[e] = drv[e] \/ address'[e] = -1
  <2>1. CASE e = d
    BY <1>7, <2>1
  <2>2. CASE e # d
    <3>1. Silent(e) => Silent(e)'
      BY <1>2, <1>3, <2>2, SubmitsKeepsOthers, PacketsKeptSame
    <3> QED
      BY <1>2, <2>2, <3>1 DEF OthersKept
  <2> QED
    BY <2>1, <2>2
<1> QED
  BY <1>1, <1>5, <1>6, <1>8, AllKnownKept

LEMMA LeafEventKnown ==
    ASSUME NEW b, Buses = {b}, HInv, OneHub(b), AllKnown(b), dpstate[b] = "RUN",
           NEW p \in Packet, NEW r \in Status, NEW chs \in [Chan -> Carried],
           Reported(p, r, chs), Answers(p.dev, p, chs), LeafEvent(p, chs)
    PROVE  AllKnown(b)'
<1>d. PICK d \in Device : d = p.dev
  BY DEF Packet
<1>1. NoIssue(chs) /\ UNCHANGED <<coreVars, hub, dpstate>> /\ ~Ep0Packet(p, d)
  BY DEF LeafEvent, Reported, Ep0Packet
<1>2. /\ TakenFrom(d, chs) /\ (refused = NoPacket \/ Of(refused, d)) /\ KeepsEp0(d, chs)
      /\ Submits(d, chs)
  BY <1>1, <1>d DEF Reported, Answers, Submits
<1>3. ASSUME NEW e \in Device PROVE Silent(e) => Silent(e)'
  <2>1. CASE e = d
    BY <1>1, <1>2, <2>1, NothingSubmittedKeeps
  <2>2. CASE e # d
    BY <1>2, <2>2, SubmitsKeepsOthers, PacketsKeptSame
  <2> QED
    BY <2>1, <2>2
<1> QED
  BY <1>1, <1>3, AllKnownKept DEF coreVars

\* The driver of the hub is called back: a device is removed that nobody enumerates,
\* or one is found in a port where the driver knows none.
LEMMA HubEventKnown ==
    ASSUME NEW b, Buses = {b}, HInv, OneHub(b), AllKnown(b), dpstate[b] = "RUN",
           drv[Root(b)] # "NULL", NEW p \in Packet, p.dev = Root(b),
           NEW r \in Status, NEW chs \in [Chan -> Carried], Reported(p, r, chs),
           NEW h, Found(b, h), h.state = hub[b].state, h.device = hub[b].device,
           h.state = "PORT_RESET_COMPLETE" => h.device[h.current_port] = Unused,
           NEW result, NEW ctl \in [Device -> Control],
           \A e \in Device \ {Root(b)} : ctl[e] = control[e],
           HubEvent(b, h, result, ctl, chs)
    PROVE  AllKnown(b)'
<1>d. PICK d \in Device : d = Root(b)
  BY OneBus
<1>0. /\ CoreTypeOK /\ b \in Buses /\ hub \in [Buses -> HubState] /\ DriversInv
      /\ TakenFrom(d, chs) /\ (refused = NoPacket \/ Of(refused, d)) /\ dpstate' = dpstate
      /\ h.device \in [PortNum -> Slot \cup {Unused}] /\ drv[Root(b)] = "READY"
      /\ \A q \in PortNum : h.device[q] # 0
  BY <1>d, OneBus, DriversPorts, DriverUp
     DEF HInv, DriversInv, TypeOK, CoreTypeOK, Reported, Found, HubState
<1>1. hub[b].state = "PORT_RESET_COMPLETE" => address[d] >= 0
  <2>1. Unheard(b)
    BY <1>0, DriverUp
  <2> QED
    BY <1>0, <1>d, <2>1 DEF Unheard, CoreTypeOK, Address
<1>2. EventDone(b, ctl, chs)
  BY <1>0, <1>1, <1>d, EventCompletes
<1>3. drv'[Root(b)] = "READY" /\ address' \in [Device -> Address]
  BY <1>0, <1>2, <1>d DEF EventDone, BehindHub
<1>4. Submits(d, chs)
  <2>1. CASE control' = ctl /\ NoIssue(chs)
    BY <1>d, <2>1 DEF Submits
  <2>2. CASE \E request \in Request : DeviceControl(d, "event", request, ctl, chs)
    <3>1. PICK request \in Request : DeviceControl(d, "event", request, ctl, chs)
      BY <2>2
    <3> QED
      BY <1>0, <1>3, <1>d, <3>1, DeviceControlTyped DEF CoreTypeOK
  <2> QED
    BY <1>2, <1>d, <2>1, <2>2 DEF EventDone, HubSends
<1>5. ASSUME NEW e \in Device, e # Root(b) PROVE Silent(e) => Silent(e)'
  BY <1>0, <1>4, <1>5, <1>d, SubmitsKeepsOthers, PacketsKeptSame
<1>6. CASE SameDevices(b, h)
  BY <1>0, <1>3, <1>5, <1>6, AllKnownKept DEF SameDevices
<1>7. CASE LosesDevice(b, h)
  <2>1. PICK q \in PortNum, s \in Slot \ {0} :
           /\ q = h.current_port /\ s = h.device[q] /\ DeviceRemove({<<b, s>>})
           /\ hub'[b].device = [h.device EXCEPT ![q] = Unused]
           /\ hub[b].state = "PORT_RESET_REQ"
    <3>1. h.device[h.current_port] \in Slot \ {0}
      BY <1>0, <1>7 DEF LosesDevice
    <3> QED
      BY <1>7, <3>1 DEF LosesDevice
  <2>2. /\ \A e \in Device : address'[e] = IF e = <<b, s>> THEN -1 ELSE address[e]
        /\ \A e \in Device : e # <<b, s>> => drv'[e] = drv[e]
    BY <2>1 DEF DeviceRemove
  <2>3. ASSUME NEW e \in Device, e # Root(b), Claims(e)'
        PROVE  Known(b, e[2])'
    <3>1. Claims(e)
      BY <1>0, <1>5, <2>2, <2>3, ClaimKept
    <3>2. e # <<b, s>>
      <4> SUFFICES ASSUME e = <<b, s>> PROVE FALSE
        OBVIOUS
      <4>1. ~enumeration_run
        BY <2>1 DEF OneHub, Looking
      <4>2. Silent(e) /\ ~Engaged(e)
        BY <2>3, <4>1, FreeLock
      <4>3. address'[e] = -1 /\ Silent(e)'
        BY <1>5, <2>2, <2>3, <4>2
      <4>4. ~Live(e)' /\ e[2] # 0
        BY <2>3, <4>3, LiveIsLoudNext, OneBus
      <4> QED
        BY <2>3, <4>3, <4>4 DEF Claims, Engaged
    <3>3. e[2] # s
      BY <3>2, OneBus
    <3>4. PICK i \in PortNum : h.device[i] = e[2]
      BY <2>3, <3>1 DEF AllKnown, Known
    <3>5. i # q
      BY <2>1, <3>3, <3>4
    <3>6. hub'[b].device[i] = e[2]
      BY <1>0, <2>1, <3>4, <3>5
    <3> QED
      BY <1>3, <3>6 DEF Known, Root
  <2> QED
    BY <2>3 DEF AllKnown, Root
<1>8. ASSUME NEW s \in Slot, GetsDevice(b, h, s)
      PROVE  AllKnown(b)'
  <2>1. PICK q \in PortNum :
           /\ q = h.current_port /\ h.device[q] = Unused /\ drv' = drv
           /\ address' = [address EXCEPT ![<<b, s>>] = s + 1]
           /\ hub'[b].device = [h.device EXCEPT ![q] = s]
    BY <1>8 DEF GetsDevice
  <2>2. ASSUME NEW e \in Device, e # Root(b), Claims(e)'
        PROVE  Known(b, e[2])'
    <3>1. CASE e = <<b, s>>
      <4>1. hub'[b].device[q] = e[2]
        BY <1>0, <2>1, <3>1
      <4> QED
        BY <1>3, <4>1 DEF Known, Root
    <3>2. CASE e # <<b, s>>
      <4>1. address'[e] = address[e]
        BY <1>0, <2>1, <3>2 DEF CoreTypeOK
      <4>2. Claims(e)
        BY <1>0, <1>5, <2>1, <2>2, <4>1, ClaimKept
      <4>3. PICK i \in PortNum : h.device[i] = e[2]
        BY <2>2, <4>2 DEF AllKnown, Known
      <4>4. e[2] # Unused
        <5>1. e[2] \in Nat
          BY OneBus DEF Slot
        <5> QED
          BY <5>1 DEF Unused
      <4>5. hub'[b].device[i] = e[2]
        BY <1>0, <2>1, <4>3, <4>4
      <4> QED
        BY <1>3, <4>5 DEF Known, Root
    <3> QED
      BY <3>1, <3>2
  <2> QED
    BY <2>2 DEF AllKnown, Root
<1> QED
  BY <1>0, <1>6, <1>7, <1>8, EventDevices

LEMMA HubCallbackKnown ==
    ASSUME NEW b, Buses = {b}, HInv, OneHub(b), AllKnown(b), Orderly(hub[b], port[b]),
           dpstate[b] = "RUN",
           NEW p \in Packet, NEW r \in Status, NEW chs \in [Chan -> Carried],
           Reported(p, r, chs), Answers(p.dev, p, chs), HubPacketCallback(p, r, chs)
    PROVE  AllKnown(b)'
<1>0. /\ CoreTypeOK /\ b \in Buses /\ p.dev[1] = b /\ DriversInv /\ Root(b) \in Device
      /\ hub[b] \in HubState /\ port \in [Buses -> [PortNum -> PortState]]
      /\ control \in [Device -> Control]
  BY OneBus, DriversPorts DEF HInv, DriversInv, CoreTypeOK, Packet, Device
<1>1. CASE HubCoreCallback(p, r, chs)
  BY <1>1, CoreCallbackKnown
<1>2. CASE LeafEvent(p, chs)
  BY <1>2, LeafEventKnown
<1>3. ASSUME p.dev = Root(b), drv[Root(b)] # "NULL",
             NEW h, h = hub[b] \/ h = Latched(p, r), NEW result,
             NEW ctl \in [Device -> Control], \A e \in Device \ {Root(b)} : ctl[e] = control[e],
             HubEvent(b, h, result, ctl, chs)
      PROVE  AllKnown(b)'
  <2>1. Found(b, h) /\ h.state = hub[b].state
    BY <1>0, <1>3, LatchedFound
  <2>2. /\ h.device = hub[b].device
        /\ h.state = "PORT_RESET_COMPLETE" => h.current_port = hub[b].current_port
    <3>1. CASE h = hub[b]
      BY <3>1
    <3>2. CASE h = [hub[b] EXCEPT !.status = port[b][hub[b].wIndex]]
      BY <1>0, <3>2 DEF HubState
    <3> QED
      BY <1>0, <1>3, <3>1, <3>2 DEF Latched
  <2>3. h.state = "PORT_RESET_COMPLETE" => h.device[h.current_port] = Unused
    BY <2>1, <2>2 DEF Orderly
  <2> QED
    BY <1>3, <2>1, <2>2, <2>3, HubEventKnown
<1>4. ASSUME p.dev = Root(b), drv[Root(b)] # "NULL",
             HubEvent(b, Latched(p, r), ControlResult(p.dev, r), PipeIdle(p.dev), chs)
      PROVE  AllKnown(b)'
  <2>1. /\ PipeIdle(Root(b)) \in [Device -> Control]
        /\ \A e \in Device \ {Root(b)} : PipeIdle(Root(b))[e] = control[e]
    BY <1>0, PipeIdleTyped
  <2> QED
    BY <1>3, <1>4, <2>1
<1>5. ASSUME p.dev = Root(b), drv[Root(b)] # "NULL", HubEvent(b, hub[b], r, control, chs)
      PROVE  AllKnown(b)'
  BY <1>0, <1>3, <1>5
<1> QED
  BY <1>0, <1>1, <1>2, <1>4, <1>5 DEF HubPacketCallback

LEMMA CompletionKnown ==
    ASSUME NEW b, Buses = {b}, HInv, OneHub(b), AllKnown(b), Orderly(hub[b], port[b]),
           NEW c \in Chan, HubCompletion(c)
    PROVE  AllKnown(b)'
<1>1. PICK r \in Responses(channels[c]), left \in {NoPacket, Halting} :
         HubPacketCallback(channels[c], r, Released(c, left))
  BY DEF HubCompletion
<1>2. Answerable(c) /\ dpstate' = dpstate /\ TypeOK /\ DriversInv
  BY DEF HubCompletion, HInv, DriversInv
<1>3. /\ channels[c] \in Packet /\ r \in Status
      /\ Released(c, left) \in [Chan -> Carried]
      /\ Reported(channels[c], r, Released(c, left))
  BY <1>2, HubCompletionReports
<1>4. CASE dpstate[b] = "RUN"
  <2>1. PICK d \in Device : d = channels[c].dev
    BY <1>3 DEF Packet
  <2>2. Silent(d) \/ \E q \in Packet : Alone(d, q)
    <3>1. CASE d = Root(b)
      BY <1>2, <1>4, <3>1, DriversPorts, SilentOrAlone
    <3>2. CASE d # Root(b)
      BY <1>4, <3>2 DEF OneHub, OneDevice, Live
    <3> QED
      BY <3>1, <3>2
  <2>3. Answers(channels[c].dev, channels[c], Released(c, left))
    BY <1>2, <2>1, <2>2, DeviceAnswers
  <2> QED
    BY <1>1, <1>3, <1>4, <2>3, HubCallbackKnown
<1>5. CASE dpstate[b] # "RUN"
  BY <1>2, <1>5 DEF AllKnown
<1> QED
  BY <1>4, <1>5

LEMMA RefusalKnown ==
    ASSUME NEW b, Buses = {b}, HInv, OneHub(b), AllKnown(b), Orderly(hub[b], port[b]),
           HubRefusal
    PROVE  AllKnown(b)'
<1>1. /\ refused # NoPacket /\ dpstate' = dpstate
      /\ HubPacketCallback(refused, "EFATAL", channels)
      /\ TypeOK /\ DriversInv
  BY DEF HubRefusal, HInv, DriversInv
<1>2. /\ refused \in Packet /\ "EFATAL" \in Status /\ channels \in [Chan -> Carried]
      /\ Reported(refused, "EFATAL", channels)
  BY <1>1, HubRefusalReports
<1>3. PICK p \in Packet : p = refused
  BY <1>2
<1>4. CASE dpstate[b] = "RUN"
  <2>1. PICK d \in Device : d = p.dev
    BY DEF Packet
  <2>2. Silent(d) \/ \E q \in Packet : Alone(d, q)
    <3>1. CASE d = Root(b)
      BY <1>1, <1>4, <3>1, DriversPorts, SilentOrAlone
    <3>2. CASE d # Root(b)
      BY <1>4, <3>2 DEF OneHub, OneDevice, Live
    <3> QED
      BY <3>1, <3>2
  <2>3. Answers(p.dev, p, channels)
    BY <1>2, <1>3, <2>1, <2>2, DeviceRefusalAnswers
  <2> QED
    BY <1>1, <1>2, <1>3, <1>4, <2>3, HubCallbackKnown
<1>5. CASE dpstate[b] # "RUN"
  BY <1>1, <1>5 DEF AllKnown
<1> QED
  BY <1>4, <1>5

LEMMA AllKnownStep ==
    ASSUME NEW b, Buses = {b}, HInv, OneHub(b), AllKnown(b), Orderly(hub[b], port[b]),
           [HubNext]_hvars
    PROVE  AllKnown(b)'
<1>0. TypeOK /\ b \in Buses
  BY OneBus DEF HInv, DriversInv
<1>1. CASE Reset(b) \/ HubDisconnected(b)
  <2>1. dpstate'[b] # "RUN"
    BY <1>0, <1>1 DEF Reset, PortReset, HubDisconnected, Disconnected, PortGone, TypeOK, BusTypeOK
  <2> QED
    BY <2>1 DEF AllKnown
<1>2. CASE Connected(b) /\ UNCHANGED hubVars
  BY <1>2, ConnectedKnown DEF hubVars
<1>3. ASSUME NEW q \in PortNum,
             \/ \E s \in Speeds : Plug(b, q, s)
             \/ Unplug(b, q) \/ PortResetDone(b, q) \/ PortFault(b, q)
      PROVE  AllKnown(b)'
  <2>1. UNCHANGED <<busVars, coreVars, hub>>
    BY <1>3 DEF Plug, Unplug, PortResetDone, PortFault
  <2> QED
    BY <2>1, QuietKnown DEF busVars
<1>4. ASSUME NEW c \in Chan, Halted(c) /\ UNCHANGED hubVars
      PROVE  AllKnown(b)'
  <2>1. /\ UNCHANGED <<dpstate, refused, coreVars>> /\ hub' = hub
        /\ \A e \in Chan : \/ channels'[e] = channels[e]
                           \/ channels[e] = Halting /\ channels'[e] = NoPacket
    BY <1>0, <1>4 DEF Halted, ChannelHalted, TypeOK, BusTypeOK, hubVars
  <2> QED
    BY <2>1, QuietKnown
<1>5. CASE UNCHANGED hvars
  BY <1>5, QuietKnown DEF hvars, hubVars, vars, busVars
<1>6. CASE PollStatusChange(b) \/ PollInitial(b)
  BY <1>6, PollKnown
<1>7. CASE PollStartEnumeration(b)
  BY <1>7, PollStartKnown
<1>8. ASSUME NEW q \in PortNum, LeafTransfer(b, q) PROVE AllKnown(b)'
  BY <1>8, LeafTransferKnown
<1>9. ASSUME NEW c \in Chan, HubCompletion(c) PROVE AllKnown(b)'
  BY <1>9, CompletionKnown
<1>10. CASE HubRefusal
  BY <1>10, RefusalKnown
<1> QED
  BY <1>0, <1>1, <1>2, <1>3, <1>4, <1>5, <1>6, <1>7, <1>8, <1>9, <1>10 DEF HubNext

-----------------------------------------------------------------------------
(* The invariant, and what it means.                                       *)

LEMMA ReachInit == ASSUME NEW b, Buses = {b}, HubInit PROVE ReachInv(b)
<1>0. b \in Buses /\ Root(b) \in Device
  BY OneBus
<1>1. /\ dpstate[b] = "DISCONN" /\ control[Root(b)] = IdleControl
      /\ hub[b].state = "NONE" /\ hub[b].request = "GET_STATUS"
      /\ port[b] = [p \in PortNum |-> NothingPlugged]
  BY <1>0 DEF HubInit, Init, BusInit
<1>2. \A q \in PortNum : ~HasReset(port[b][q])
  BY <1>1 DEF HasReset, NothingPlugged
<1>3. Orderly(hub[b], port[b])
  BY <1>1, <1>2 DEF Orderly
<1>4. Matched(b) /\ AllKnown(b)
  BY <1>1 DEF Matched, Asked, AllKnown, IdleControl
<1> QED
  BY <1>3, <1>4 DEF ReachInv

LEMMA ReachStep ==
    ASSUME NEW b, Buses = {b}, HInv, OneHub(b), ReachInv(b), [HubNext]_hvars
    PROVE  ReachInv(b)'
<1>1. Orderly(hub[b], port[b])' /\ Matched(b)' /\ AllKnown(b)'
  <2>1. Orderly(hub'[b], port'[b])
    BY OrderlyStep DEF ReachInv
  <2> QED
    BY <2>1, MatchedStep, AllKnownStep DEF ReachInv
<1> QED
  BY <1>1 DEF ReachInv

\* The invariant holds in every reachable state.
THEOREM ReachInvariance ==
    ASSUME NEW b, Buses = {b}
    PROVE  HubSpec => [](HInv /\ OneHub(b) /\ ReachInv(b))
<1>1. HubInit => ReachInv(b)
  BY ReachInit
<1>2. HInv /\ OneHub(b) /\ ReachInv(b) /\ [HubNext]_hvars => ReachInv(b)'
  BY ReachStep
<1> QED
  BY <1>1, <1>2, OneHubInvariance, PTL DEF HubSpec

\* With one bus, a device behind the hub that has an address and a driver is in one
\* of the ports the hub driver knows, until it is unplugged or the hub is gone: no
\* new device takes its place there.
THEOREM LeavesReachable ==
    ASSUME NEW b, Buses = {b}
    PROVE  HubSpec => []LeafReachable
<1>1. ASSUME OneHub(b), AllKnown(b)
      PROVE  LeafReachable
  <2> SUFFICES ASSUME NEW s \in Slot \ {0}, drv[<<b, s>>] # "NULL", address[<<b, s>>] > 0
               PROVE  Known(b, s)
    BY DEF LeafReachable, Known
  <2>1. PICK d \in Device : d = <<b, s>>
    BY OneBus DEF Device
  <2>2. dpstate[b] = "RUN"
    <3>1. OneDevice(b, d)
      BY <1>1 DEF OneHub
    <3>2. address[d] > 0
      BY <2>1
    <3> QED
      BY <3>1, <3>2 DEF OneDevice
  <2>3. d # Root(b) /\ d[2] = s /\ Claims(d)
    BY <2>1 DEF Root, Claims
  <2> QED
    BY <1>1, <2>2, <2>3 DEF AllKnown
<1>2. HInv /\ OneHub(b) /\ ReachInv(b) => LeafReachable
  BY <1>1 DEF ReachInv
<1> QED
  BY <1>2, ReachInvariance, PTL
=============================================================================
