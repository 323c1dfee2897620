------------------------------ MODULE ReplyStream ------------------------------
(***************************************************************************)
(* The backend's reply stream, cut into units small enough to tell apart   *)
(* what the bridge can get wrong: which call a piece answers, its position *)
(* in that answer, and whether it completes a ReadyForQuery frame.         *)
(***************************************************************************)
EXTENDS Integers, Sequences

Unit(x, n, z) == [call |-> x, n |-> n, rfq |-> z]

UnitType == [call : Nat, n : Nat, rfq : BOOLEAN]

Body(x, b) == [i \in 1..b |-> Unit(x, i, FALSE)]

\* ReadyForQuery is 6 bytes long: a channel boundary can cut it in two.
Rfq(x, b) == <<Unit(x, b + 1, FALSE), Unit(x, b + 2, TRUE)>>

(***************************************************************************)
(* has_rfq: is there a complete ReadyForQuery frame in the buffer?  The    *)
(* half of one that has arrived so far does not count.                     *)
(***************************************************************************)
HasRfq(buf) == \E i \in 1..Len(buf) : buf[i].rfq
===============================================================================
