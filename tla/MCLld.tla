-------------------------------- MODULE MCLld ---------------------------------
(* The low-level driver on a few channels and one packet of each kind.      *)
EXTENDS UsbhLld

PacketOf(kind, a) ==
    [dev |-> <<lld, 0>>, address |-> a, kind |-> kind,
     callback |-> IF kind = "OUT" THEN "event" ELSE "control_state_machine"]

\* One packet of each direction; nothing but the port.
NoPackets == {}
WriteAndRead == {PacketOf("OUT", 1), PacketOf("IN", 1)}
=============================================================================
