------------------------------ MODULE MCDrivers -------------------------------
(* The HID, MIDI and Xbox drivers on small sets of buses, channels and data. *)
EXTENDS UsbhDrivers
=============================================================================
