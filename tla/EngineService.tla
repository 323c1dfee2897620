----------------------------- MODULE EngineService -----------------------------
(***************************************************************************)
(* What the wire bridge promises its callers, without channels, ticks or   *)
(* spill files: calls are answered one at a time; a call is answered with  *)
(* exactly the reply the engine produced for that call, whole and in       *)
(* order; a call may instead return no reply, and then the engine is dead  *)
(* and accepts no further call.                                            *)
(*                                                                         *)
(* pglite_bridge.h:35-42 and PGlite.swift:85-86 state this contract.       *)
(***************************************************************************)
EXTENDS ReplyStream

CONSTANTS
  Kinds,         \* the kinds of batch a caller sends
  Terminated,    \* the kinds that end in Sync or are one simple Query
  MaxBody        \* the longest reply, in units before ReadyForQuery

VARIABLES
  calls,         \* how many calls were accepted so far
  open,          \* the kind of the call in progress, or NoCall
  answer,        \* what the last completed call returned
  alive          \* FALSE once the engine is known dead

svars == <<calls, open, answer, alive>>

NoCall       == "none"
NoAnswer     == [reply |-> FALSE, units |-> <<>>]
Reply(units) == [reply |-> TRUE, units |-> units]

\* A reply that ends in ReadyForQuery, and one that does not.
WholeReplies(x) == { Body(x, b) \o Rfq(x, b) : b \in 0..MaxBody }
BareReplies(x)  == { Body(x, b) : b \in 0..MaxBody }

Replies(x, kind) ==
  WholeReplies(x) \cup (IF kind \in Terminated THEN {} ELSE BareReplies(x))

Init ==
  /\ calls = 0
  /\ open = NoCall
  /\ answer = NoAnswer
  /\ alive = TRUE

Call(kind) ==
  /\ open = NoCall
  /\ alive
  /\ calls' = calls + 1
  /\ open' = kind
  /\ answer' = NoAnswer
  /\ UNCHANGED alive

Answer ==
  /\ open # NoCall
  /\ \E units \in Replies(calls, open) : answer' = Reply(units)
  /\ open' = NoCall
  /\ UNCHANGED <<calls, alive>>

Die ==
  /\ open # NoCall
  /\ alive' = FALSE
  /\ answer' = NoAnswer
  /\ open' = NoCall
  /\ UNCHANGED calls

\* A payload the bridge does not accept is turned down without a call.
Refuse ==
  /\ open = NoCall
  /\ answer' = NoAnswer
  /\ UNCHANGED <<calls, open, alive>>

Return == Answer \/ Die

Next == (\E kind \in Kinds : Call(kind)) \/ Return \/ Refuse

Safety == Init /\ [][Next]_svars

Spec == Safety /\ WF_svars(Return)
===============================================================================
