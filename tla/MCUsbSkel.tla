------------------------------ MODULE MCUsbSkel ------------------------------
(* UsbSkel on small instances: the values the .cfg files give it. *)
EXTENDS UsbSkel

CONSTANTS p1, p2, s1, s2, b1, b2
=============================================================================
