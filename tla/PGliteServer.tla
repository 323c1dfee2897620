----------------------------- MODULE PGliteServer ------------------------------
(***************************************************************************)
(* The localhost server (Sources/PGliteKit/PGliteServer.swift): a listener *)
(* and its connection handlers on one serial dispatch queue, one Swift     *)
(* task per accepted connection (session), stop() on whatever thread the   *)
(* app calls it, and the network framework, which reports what becomes of  *)
(* a link.  What the database answers is left open here; SharedSession     *)
(* joins the server to it.                                                 *)
(***************************************************************************)
EXTENDS Integers, FiniteSets

CONSTANTS
  Conns,         \* the connections clients may make
  NoConn,        \* PGliteServer.active = nil
  Contents,      \* what a batch may ask of the database
  Endings,       \* how a batch may end, see AllEndings
  MaxBatches,    \* bound on the batches of one client
  MaxStops,      \* bound on the calls of stop()
  Resets         \* may the network break a link?

\* A batch ends with Sync or as one simple Query ("complete"), with a Terminate
\* behind other messages ("terminate"), or with the client's end of stream.
AllEndings == {"complete", "terminate", "eof"}

ASSUME PGliteServerAssumption ==
  /\ NoConn \notin Conns
  /\ Endings \subseteq AllEndings
  /\ MaxBatches \in Nat /\ MaxStops \in Nat
  /\ Resets \in BOOLEAN
  /\ Contents # {}

VARIABLES
  listening,     \* is there a listener?
  stopping,      \* where stop() stands
  stops,         \* how often stop() was called
  active,        \* PGliteServer.active
  session,       \* where the session of each connection stands
  link,          \* the link of each connection, as the server sees it
  batch,         \* the batch read from each client and not yet forwarded
  batches,       \* how many batches each client has sent
  passed         \* whose handshake has passed

serverVars == <<listening, stopping, stops, active, session, link, batch,
                batches, passed>>

Batch == [content : Contents, ending : AllEndings]

\* Stands in the variable while there is none.
NoBatch == [content |-> CHOOSE x \in Contents : TRUE, ending |-> "complete"]

Pumping == {"read", "exchange", "send"}
Ending  == {"rollback", "cancel"}

ServerTypeOK ==
  /\ listening \in BOOLEAN
  /\ stopping \in {"no", "unheard", "cancelled"}
  /\ stops \in 0..MaxStops
  /\ active \in { c \in Conns : session[c] \notin {"none", "queued", "admitted"} }
                 \cup {NoConn}
  /\ session \in [Conns -> {"none", "queued", "admitted", "handshake", "over"}
                             \cup Pumping \cup Ending]
  /\ link \in [Conns -> {"none", "up", "eof", "broken", "cancelled"}]
  /\ batch \in [Conns -> Batch]
  /\ batches \in [Conns -> 0..MaxBatches]
  /\ passed \in SUBSET Conns

ServerInit ==
  /\ listening = TRUE
  /\ stopping = "no"
  /\ stops = 0
  /\ active = NoConn
  /\ session = [c \in Conns |-> "none"]
  /\ link = [c \in Conns |-> "none"]
  /\ batch = [c \in Conns |-> NoBatch]
  /\ batches = [c \in Conns |-> 0]
  /\ passed = {}

Goto(c, place) == session' = [session EXCEPT ![c] = place]
Cancel(c)      == link' = [link EXCEPT ![c] = "cancelled"]

\* receive and send throw on such a link.
Unusable(c) == link[c] \in {"broken", "cancelled"}

\* The queue is serial: while it runs accept it runs no other block.
Accepting == \E c \in Conns : session[c] = "admitted"

--------------------------------------------------------------------------------
(***************************************************************************)
(* The clients and the network.                                            *)
(***************************************************************************)

\* A client connects: newConnectionHandler is put on the queue.
Connect(c) ==
  /\ session[c] = "none"
  /\ listening
  /\ link' = [link EXCEPT ![c] = "up"]
  /\ Goto(c, "queued")
  /\ UNCHANGED <<listening, stopping, stops, active, batch, batches, passed>>

\* A client closes its end; what it sent before can still be read.
ClientCloses(c) ==
  /\ link[c] = "up"
  /\ link' = [link EXCEPT ![c] = "eof"]
  /\ UNCHANGED <<listening, stopping, stops, active, session, batch, batches,
                 passed>>

\* The network breaks the link: its state becomes .failed.
LinkBreaks(c) ==
  /\ Resets
  /\ link[c] \in {"up", "eof"}
  /\ link' = [link EXCEPT ![c] = "broken"]
  /\ UNCHANGED <<listening, stopping, stops, active, session, batch, batches,
                 passed>>

--------------------------------------------------------------------------------
(***************************************************************************)
(* On the queue.                                                           *)
(***************************************************************************)

\* accept: is the slot free?  If not, the connection is cancelled.
Refuse(c) ==
  /\ session[c] = "queued"
  /\ ~Accepting
  /\ active # NoConn
  /\ Cancel(c)
  /\ Goto(c, "over")
  /\ UNCHANGED <<listening, stopping, stops, active, batch, batches, passed>>

\* Mutant of Admit: the slot is taken before it is looked at.
AdmitTaking(c) ==
  /\ session[c] = "queued"
  /\ ~Accepting
  /\ active' = c
  /\ Goto(c, IF active = NoConn THEN "admitted" ELSE "over")
  /\ UNCHANGED <<listening, stopping, stops, link, batch, batches, passed>>

\* accept, the slot is free.
Admit(c) ==
  /\ session[c] = "queued"
  /\ ~Accepting
  /\ active = NoConn
  /\ Goto(c, "admitted")
  /\ UNCHANGED <<listening, stopping, stops, active, link, batch, batches, passed>>

\* accept, continued: take the slot, start the connection and its session.
Take(c) ==
  /\ session[c] = "admitted"
  /\ active' = c
  /\ Goto(c, "handshake")
  /\ UNCHANGED <<listening, stopping, stops, link, batch, batches, passed>>

\* A listener that was cancelled drops what it has not delivered.
Drop(c) ==
  /\ session[c] = "queued"
  /\ ~listening
  /\ Cancel(c)
  /\ Goto(c, "over")
  /\ UNCHANGED <<listening, stopping, stops, active, batch, batches, passed>>

\* Mutant of Release: only a failed link frees the slot.
ReleaseFailed(c) ==
  /\ link[c] = "broken"
  /\ active = c
  /\ ~Accepting
  /\ active' = NoConn
  /\ UNCHANGED <<listening, stopping, stops, session, link, batch, batches, passed>>

\* stateUpdateHandler saw .failed or .cancelled: the block it put on the queue
\* frees the slot if the connection still holds it.
Release(c) ==
  /\ Unusable(c)
  /\ active = c
  /\ ~Accepting
  /\ active' = NoConn
  /\ UNCHANGED <<listening, stopping, stops, session, link, batch, batches, passed>>

--------------------------------------------------------------------------------
(***************************************************************************)
(* The session of a connection, a task of its own.                         *)
(***************************************************************************)

\* handshake returned true.
HandshakePasses(c) ==
  /\ session[c] = "handshake"
  /\ link[c] \in {"up", "eof"}
  /\ passed' = passed \cup {c}
  /\ Goto(c, "read")
  /\ UNCHANGED <<listening, stopping, stops, active, link, batch, batches>>

\* handshake returned false: wrong password, wrong protocol, end of stream.
HandshakeRefuses(c) ==
  /\ session[c] = "handshake"
  /\ link[c] \in {"up", "eof"}
  /\ Cancel(c)
  /\ Goto(c, "over")
  /\ UNCHANGED <<listening, stopping, stops, active, batch, batches, passed>>

\* receive or send threw, in handshake, readBatch or after an exchange.
SessionThrows(c) ==
  /\ session[c] \in {"handshake", "read", "send"}
  /\ Unusable(c)
  /\ Goto(c, "rollback")
  /\ UNCHANGED <<listening, stopping, stops, active, link, batch, batches, passed>>

\* readBatch: messages up to Sync, Query or Terminate; what precedes the end of
\* the stream is returned as it is.
ReadBatch(c) ==
  /\ session[c] = "read"
  /\ link[c] \in {"up", "eof"}
  /\ batches[c] < MaxBatches
  /\ \E x \in Contents, e \in Endings :
       /\ e = "eof" => link[c] = "eof"
       /\ batch' = [batch EXCEPT ![c] = [content |-> x, ending |-> e]]
  /\ batches' = [batches EXCEPT ![c] = @ + 1]
  /\ Goto(c, "exchange")
  /\ UNCHANGED <<listening, stopping, stops, active, link, passed>>

\* Mutant of ClientLeaves: the connection is cancelled before the ROLLBACK.
ClientLeavesCancelling(c) ==
  /\ session[c] = "read"
  /\ link[c] \in {"up", "eof"}
  /\ Cancel(c)
  /\ Goto(c, "rollback")
  /\ UNCHANGED <<listening, stopping, stops, active, batch, batches, passed>>

\* readBatch returned nil at the end of the stream, or a lone Terminate.
ClientLeaves(c) ==
  /\ session[c] = "read"
  /\ link[c] \in {"up", "eof"}
  /\ Goto(c, "rollback")
  /\ UNCHANGED <<listening, stopping, stops, active, link, batch, batches, passed>>

\* rawExchange(batch) returned, or threw because the engine is dead.  The batch
\* is forgotten.
Forward(c, answer) ==
  /\ session[c] = "exchange"
  /\ batch' = [batch EXCEPT ![c] = NoBatch]
  /\ Goto(c, IF answer = "dead" THEN "rollback" ELSE "send")
  /\ UNCHANGED <<listening, stopping, stops, active, link, batches, passed>>

\* send(conn, reply) completed.
SendReply(c) ==
  /\ session[c] = "send"
  /\ link[c] \in {"up", "eof"}
  /\ Goto(c, "read")
  /\ UNCHANGED <<listening, stopping, stops, active, link, batch, batches, passed>>

\* try? rawExchange(ROLLBACK): whatever comes of it.
CleanUp(c) ==
  /\ session[c] = "rollback"
  /\ Goto(c, "cancel")
  /\ UNCHANGED <<listening, stopping, stops, active, link, batch, batches, passed>>

\* conn.cancel(), the end of the session.
EndSession(c) ==
  /\ session[c] = "cancel"
  /\ Cancel(c)
  /\ Goto(c, "over")
  /\ UNCHANGED <<listening, stopping, stops, active, batch, batches, passed>>

--------------------------------------------------------------------------------
(***************************************************************************)
(* start() and stop(), on a thread of the app.                             *)
(***************************************************************************)
Start ==
  /\ ~listening
  /\ stopping = "no"
  /\ listening' = TRUE
  /\ UNCHANGED <<stopping, stops, active, session, link, batch, batches, passed>>

\* listener?.cancel(); listener = nil
StopListening ==
  /\ listening
  /\ stopping = "no"
  /\ stops < MaxStops
  /\ stops' = stops + 1
  /\ listening' = FALSE
  /\ stopping' = "unheard"
  /\ UNCHANGED <<active, session, link, batch, batches, passed>>

\* active?.cancel()
StopActive ==
  /\ stopping = "unheard"
  /\ link' = IF active = NoConn THEN link
                                ELSE [link EXCEPT ![active] = "cancelled"]
  /\ stopping' = "cancelled"
  /\ UNCHANGED <<listening, stops, active, session, batch, batches, passed>>

\* active = nil
StopForgets ==
  /\ stopping = "cancelled"
  /\ active' = NoConn
  /\ stopping' = "no"
  /\ UNCHANGED <<listening, stops, session, link, batch, batches, passed>>

--------------------------------------------------------------------------------
ClientStep(c) == Connect(c) \/ ClientCloses(c) \/ LinkBreaks(c)

QueueStep(c) == Refuse(c) \/ Admit(c) \/ Take(c) \/ Drop(c) \/ Release(c)

\* The steps of a session that leave the database alone.
SessionStep(c) ==
  \/ HandshakePasses(c) \/ HandshakeRefuses(c) \/ SessionThrows(c)
  \/ ReadBatch(c) \/ ClientLeaves(c) \/ SendReply(c) \/ EndSession(c)

\* The steps that call it.
DatabaseStep(c) == (\E answer \in {"ok", "dead"} : Forward(c, answer)) \/ CleanUp(c)

AppStep == Start \/ StopListening \/ StopActive \/ StopForgets

ServerNext ==
  \/ \E c \in Conns :
       ClientStep(c) \/ QueueStep(c) \/ SessionStep(c) \/ DatabaseStep(c)
  \/ AppStep

\* A session that waits for a client that is still there may wait forever.
WaitsForClient(c) == session[c] \in {"handshake", "read"} /\ link[c] = "up"

\* The queue runs its blocks, tasks are scheduled, and exchange() returns.
ServerFairness ==
  \A c \in Conns :
    /\ WF_serverVars(QueueStep(c))
    /\ WF_serverVars(~WaitsForClient(c) /\ SessionStep(c))
    /\ WF_serverVars(DatabaseStep(c))

ServerSafety == ServerInit /\ [][ServerNext]_serverVars

ServerSpec == ServerSafety /\ ServerFairness
--------------------------------------------------------------------------------
\* As long as stop() is not called, the sessions of two clients overlap only if
\* a link breaks: a client that disconnects in good order keeps the next one
\* out until its own ROLLBACK is done.
SessionsDoNotOverlap ==
  stops = 0 =>
    Cardinality({ c \in Conns :
                    /\ session[c] \in {"handshake"} \cup Pumping \cup Ending
                    /\ link[c] # "broken" }) <= 1

\* A client that is gone does not keep the slot: whatever made its session end,
\* wherever it stood, the next client can be accepted.
SlotIsFreed ==
  \A c \in Conns : (active = c /\ link[c] # "up") ~> active # c
================================================================================
