-------------------------- MODULE MCServerClock --------------------------
(* A page open for seven seconds around a check-out window of one. *)
EXTENDS ServerClock
MCSkews == {0, 3}
=============================================================================
