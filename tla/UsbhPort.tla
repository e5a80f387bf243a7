------------------------------- MODULE UsbhPort -------------------------------
(***************************************************************************)
(* What usbh_core.c promises of root ports, seen from outside: a device is *)
(* enumerated once for each connection and is then bound to a driver, left *)
(* without one, or given up, until the port goes down; and one lock, which *)
(* every enumeration takes and whichever ends first gives back.            *)
(***************************************************************************)
CONSTANT Buses

VARIABLES phase, lock

Phase == {"absent", "enumerating", "bound", "unclaimed", "failed"}

Init ==
    /\ phase = [b \in Buses |-> "absent"]
    /\ lock = FALSE

Attach(b) ==
    /\ phase[b] = "absent"
    /\ phase' = [phase EXCEPT ![b] = "enumerating"]
    /\ lock' = TRUE

Settle(b) ==
    /\ phase[b] = "enumerating"
    /\ \E p \in {"bound", "unclaimed", "failed"} : phase' = [phase EXCEPT ![b] = p]
    /\ lock' = FALSE

Detach(b) ==
    /\ phase' = [phase EXCEPT ![b] = "absent"]
    /\ UNCHANGED lock

\* An answer that outlived its port ends an enumeration that is no more.
LateEnd(b) ==
    /\ phase[b] = "absent"
    /\ lock' = FALSE
    /\ UNCHANGED phase

Next == \E b \in Buses : Attach(b) \/ Settle(b) \/ Detach(b) \/ LateEnd(b)

Spec == Init /\ [][Next]_<<phase, lock>>
=============================================================================
