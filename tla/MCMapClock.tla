---------------------------- MODULE MCMapClock ----------------------------
(* A clock of 8 milliseconds, which wraps twice before the horizon.        *)
EXTENDS MapClock

===========================================================================
