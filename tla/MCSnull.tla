------------------------------- MODULE MCSnull -------------------------------
(* Snull with nothing out of the ordinary, unloaded, and with what can go wrong:
   lost interrupts, the watchdog, interfaces that go down, two processors. *)
EXTENDS Snull

CONSTANTS sn0, sn1

NapiUp ==
  [pool |-> 3, napi |-> TRUE, lockup |-> 0, watched |-> {}, closers |-> {}, smp |-> FALSE,
   rmmod |-> "never"]
Smp == [NapiUp EXCEPT !.smp = TRUE, !.napi = FALSE, !.pool = 2]

MCEnvironments ==
  {NapiUp, [NapiUp EXCEPT !.napi = FALSE],
   [NapiUp EXCEPT !.rmmod = "down"],
   [NapiUp EXCEPT !.napi = FALSE, !.lockup = 2, !.watched = Devs, !.closers = {sn1},
                  !.rmmod = "down"],
   Smp, [Smp EXCEPT !.pool = 1, !.lockup = 2, !.watched = {sn0}, !.closers = {sn1}]}
=============================================================================
