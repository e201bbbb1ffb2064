---------------------------- MODULE MCModuleLoad ----------------------------
(* ModuleLoad with each of the modules, also with the parameters that its init
   looks at, sculld with its bus, and two processes that open the devices. *)
EXTENDS ModuleLoad

CONSTANTS p1, p2

EachFamily ==
  {{"scull"}, {"scull", "scull_minor"}, {"scull", "scull_minor", "scull_major"},
   {"lddbus", "sculld"}, {"sbull"}, {"sbull", "sbull_major"}, {"snull"}, {"tiny_tty"},
   {"usb_skeleton"}}
=============================================================================
