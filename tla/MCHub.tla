------------------------------- MODULE MCHub ---------------------------------
(* The hub driver and the core, with hubs in the root ports.                *)
EXTENDS UsbhHub

\* Bound of hub_two_ports: a hub leaves its root port only between two
\* enumerations.  hub_one_port and hub_live let it leave at any time.
LeavesBetweenEnumerations ==
    \A b \in Buses :
        dpstate[b] = "RUN" /\ dpstate'[b] # "RUN" => ~enumeration_run

TwoPortsSpec == HubInit /\ [][HubNext /\ LeavesBetweenEnumerations]_hvars
=============================================================================
