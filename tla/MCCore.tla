-------------------------------- MODULE MCCore --------------------------------
(* usbh_core.c with root devices, on small sets of buses and channels.      *)
EXTENDS UsbhCore, TLC

BusSymmetry == Permutations(Buses)
=============================================================================
