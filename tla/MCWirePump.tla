------------------------------ MODULE MCWirePump -------------------------------
(***************************************************************************)
(* Model checking WirePump.  Replies of up to two units and ReadyForQuery  *)
(* can be cut at every point and interrupted by silence.  The faults are   *)
(* those under which replies stay exact, or, when the question is only     *)
(* whether every call comes back, all of them.                             *)
(***************************************************************************)
EXTENDS WirePump

SafeFaults == {"trap", "append"}
EveryFault == AllFaults
===============================================================================
