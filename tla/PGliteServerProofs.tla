--------------------------- MODULE PGliteServerProofs --------------------------
(***************************************************************************)
(* ServerTypeOK and SessionsDoNotOverlap for every number of connections,  *)
(* batches and calls of stop().  That sessions do not overlap rests on the *)
(* slot: until stop() is called, whoever has a session on a link that is   *)
(* not broken holds it (HoldsSlot), and accept looks at the slot and takes *)
(* it with nothing in between (Accepts).                                   *)
(***************************************************************************)
EXTENDS PGliteServer, FiniteSetTheorems, TLAPS

Live == { c \in Conns : /\ session[c] \in {"handshake"} \cup Pumping \cup Ending
                        /\ link[c] # "broken" }

\* accept runs for one connection at a time, and the slot is free while it runs.
Accepts ==
  /\ \A c \in Conns : session[c] = "admitted" => active = NoConn
  /\ \A c, d \in Conns :
       session[c] = "admitted" /\ session[d] = "admitted" => c = d

\* Only stop() cancels a connection whose session is not over, and only a link
\* that is broken or cancelled gives its slot up.
HoldsSlot ==
  stops = 0 =>
    /\ stopping = "no"
    /\ \A c \in Conns : link[c] = "cancelled" => session[c] = "over"
    /\ \A c \in Live : active = c

Inv == ServerTypeOK /\ Accepts /\ HoldsSlot

--------------------------------------------------------------------------------
\* What stands in the variable while there is no batch is one.
LEMMA NoBatchIsOne == NoBatch \in Batch
BY PGliteServerAssumption DEF NoBatch, Batch, AllEndings

\* Nobody has connected at first.
LEMMA InitInv == ServerInit => Inv
<1> SUFFICES ASSUME ServerInit PROVE Inv
  OBVIOUS
<1>1. ServerTypeOK
  BY PGliteServerAssumption, NoBatchIsOne DEF ServerInit, ServerTypeOK
<1>2. Accepts /\ HoldsSlot
  BY DEF ServerInit, Accepts, HoldsSlot, Live, Pumping, Ending
<1>3. QED BY <1>1, <1>2 DEF Inv

\* A client that connects has no session yet.
LEMMA ConnectInv ==
  ASSUME Inv, NEW c \in Conns, Connect(c)
  PROVE  Inv'
<1>1. ServerTypeOK'
  BY PGliteServerAssumption
     DEF Inv, ServerTypeOK, Connect, Goto, Pumping, Ending
<1>2. Accepts'
  BY PGliteServerAssumption DEF Inv, ServerTypeOK, Accepts, Connect, Goto
<1>3. HoldsSlot'
  BY PGliteServerAssumption
     DEF Inv, ServerTypeOK, Accepts, HoldsSlot, Live, Connect, Goto, Pumping,
         Ending
<1>4. QED BY <1>1, <1>2, <1>3 DEF Inv

\* A link that ends is not cancelled, and one that breaks is live no more.
LEMMA LinkEndsInv ==
  ASSUME Inv, NEW c \in Conns, ClientCloses(c) \/ LinkBreaks(c)
  PROVE  Inv'
<1>1. ServerTypeOK'
  BY PGliteServerAssumption
     DEF Inv, ServerTypeOK, ClientCloses, LinkBreaks, Pumping, Ending
<1>2. Accepts'
  BY PGliteServerAssumption
     DEF Inv, ServerTypeOK, Accepts, ClientCloses, LinkBreaks
<1>3. HoldsSlot'
  BY PGliteServerAssumption
     DEF Inv, ServerTypeOK, Accepts, HoldsSlot, Live, ClientCloses, LinkBreaks,
         Pumping, Ending
<1>4. QED BY <1>1, <1>2, <1>3 DEF Inv

\* Who is refused or dropped has no session.
LEMMA RefuseInv ==
  ASSUME Inv, NEW c \in Conns, Refuse(c) \/ Drop(c)
  PROVE  Inv'
<1>1. ServerTypeOK'
  BY PGliteServerAssumption
     DEF Inv, ServerTypeOK, Refuse, Drop, Goto, Cancel, Pumping, Ending
<1>2. Accepts'
  BY PGliteServerAssumption
     DEF Inv, ServerTypeOK, Accepts, Refuse, Drop, Goto, Cancel
<1>3. HoldsSlot'
  BY PGliteServerAssumption
     DEF Inv, ServerTypeOK, Accepts, HoldsSlot, Live, Refuse, Drop, Goto,
         Cancel, Pumping, Ending
<1>4. QED BY <1>1, <1>2, <1>3 DEF Inv

\* The queue is serial: nobody else is being accepted.
LEMMA AdmitInv ==
  ASSUME Inv, NEW c \in Conns, Admit(c)
  PROVE  Inv'
<1>1. ServerTypeOK'
  BY PGliteServerAssumption DEF Inv, ServerTypeOK, Admit, Goto, Pumping, Ending
<1>2. Accepts'
  BY PGliteServerAssumption
     DEF Inv, ServerTypeOK, Accepts, Accepting, Admit, Goto
<1>3. HoldsSlot'
  BY PGliteServerAssumption
     DEF Inv, ServerTypeOK, Accepts, HoldsSlot, Live, Admit, Goto, Pumping,
         Ending
<1>4. QED BY <1>1, <1>2, <1>3 DEF Inv

\* The slot was free, so nobody else is live.
LEMMA TakeInv ==
  ASSUME Inv, NEW c \in Conns, Take(c)
  PROVE  Inv'
<1>1. ServerTypeOK'
  BY PGliteServerAssumption DEF Inv, ServerTypeOK, Take, Goto, Pumping, Ending
<1>2. Accepts'
  BY PGliteServerAssumption DEF Inv, ServerTypeOK, Accepts, Take, Goto
<1>3. HoldsSlot'
  BY PGliteServerAssumption
     DEF Inv, ServerTypeOK, Accepts, HoldsSlot, Live, Take, Goto, Pumping,
         Ending
<1>4. QED BY <1>1, <1>2, <1>3 DEF Inv

\* The slot is given up for a link that is live no more.
LEMMA ReleaseInv ==
  ASSUME Inv, NEW c \in Conns, Release(c)
  PROVE  Inv'
<1>1. ServerTypeOK'
  BY PGliteServerAssumption DEF Inv, ServerTypeOK, Release, Pumping, Ending
<1>2. Accepts'
  BY PGliteServerAssumption DEF Inv, ServerTypeOK, Accepts, Accepting, Release
<1>3. HoldsSlot'
  BY PGliteServerAssumption
     DEF Inv, ServerTypeOK, Accepts, HoldsSlot, Live, Release, Unusable,
         Pumping, Ending
<1>4. QED BY <1>1, <1>2, <1>3 DEF Inv

\* The handshake leaves the slot with its connection.
LEMMA HandshakePassesInv ==
  ASSUME Inv, NEW c \in Conns, HandshakePasses(c)
  PROVE  Inv'
<1>1. ServerTypeOK'
  BY PGliteServerAssumption
     DEF Inv, ServerTypeOK, HandshakePasses, Goto, Pumping, Ending
<1>2. Accepts'
  BY PGliteServerAssumption
     DEF Inv, ServerTypeOK, Accepts, HandshakePasses, Goto
<1>3. HoldsSlot'
  BY PGliteServerAssumption
     DEF Inv, ServerTypeOK, Accepts, HoldsSlot, Live, HandshakePasses, Goto,
         Pumping, Ending
<1>4. QED BY <1>1, <1>2, <1>3 DEF Inv

\* A refused handshake ends the session with the link.
LEMMA HandshakeRefusesInv ==
  ASSUME Inv, NEW c \in Conns, HandshakeRefuses(c)
  PROVE  Inv'
<1>1. ServerTypeOK'
  BY PGliteServerAssumption
     DEF Inv, ServerTypeOK, HandshakeRefuses, Goto, Cancel, Pumping, Ending
<1>2. Accepts'
  BY PGliteServerAssumption
     DEF Inv, ServerTypeOK, Accepts, HandshakeRefuses, Goto, Cancel
<1>3. HoldsSlot'
  BY PGliteServerAssumption
     DEF Inv, ServerTypeOK, Accepts, HoldsSlot, Live, HandshakeRefuses, Goto,
         Cancel, Pumping, Ending
<1>4. QED BY <1>1, <1>2, <1>3 DEF Inv

\* The steps of a session that has not ended.
LEMMA SessionInv ==
  ASSUME Inv, NEW c \in Conns, SessionThrows(c) \/ ClientLeaves(c) \/ SendReply(c) \/ CleanUp(c)
  PROVE  Inv'
<1>1. ServerTypeOK'
  BY PGliteServerAssumption
     DEF Inv, ServerTypeOK, SessionThrows, ClientLeaves, SendReply, CleanUp,
         Goto, Pumping, Ending
<1>2. Accepts'
  BY PGliteServerAssumption
     DEF Inv, ServerTypeOK, Accepts, SessionThrows, ClientLeaves, SendReply,
         CleanUp, Goto
<1>3. HoldsSlot'
  BY PGliteServerAssumption
     DEF Inv, ServerTypeOK, Accepts, HoldsSlot, Live, SessionThrows,
         ClientLeaves, SendReply, CleanUp, Goto, Unusable, Pumping, Ending
<1>4. QED BY <1>1, <1>2, <1>3 DEF Inv

\* A batch that is read.
LEMMA ReadBatchInv ==
  ASSUME Inv, NEW c \in Conns, ReadBatch(c)
  PROVE  Inv'
<1>1. ServerTypeOK'
  BY PGliteServerAssumption, NoBatchIsOne
     DEF Inv, ServerTypeOK, ReadBatch, Goto, Pumping, Ending, Batch
<1>2. Accepts'
  BY PGliteServerAssumption DEF Inv, ServerTypeOK, Accepts, ReadBatch, Goto
<1>3. HoldsSlot'
  BY PGliteServerAssumption
     DEF Inv, ServerTypeOK, Accepts, HoldsSlot, Live, ReadBatch, Goto, Pumping,
         Ending
<1>4. QED BY <1>1, <1>2, <1>3 DEF Inv

\* A batch that is forwarded and forgotten.
LEMMA ForwardInv ==
  ASSUME Inv, NEW c \in Conns, NEW answer \in {"ok", "error", "dead"}, Forward(c, answer)
  PROVE  Inv'
<1>1. ServerTypeOK'
  BY PGliteServerAssumption, NoBatchIsOne
     DEF Inv, ServerTypeOK, Forward, Goto, Pumping, Ending, Batch
<1>2. Accepts'
  BY PGliteServerAssumption DEF Inv, ServerTypeOK, Accepts, Forward, Goto
<1>3. HoldsSlot'
  BY PGliteServerAssumption
     DEF Inv, ServerTypeOK, Accepts, HoldsSlot, Live, Forward, Goto, Pumping,
         Ending
<1>4. QED BY <1>1, <1>2, <1>3 DEF Inv

\* The session's end is the first that cancels its link.
LEMMA EndSessionInv ==
  ASSUME Inv, NEW c \in Conns, EndSession(c)
  PROVE  Inv'
<1>1. ServerTypeOK'
  BY PGliteServerAssumption
     DEF Inv, ServerTypeOK, EndSession, Goto, Cancel, Pumping, Ending
<1>2. Accepts'
  BY PGliteServerAssumption
     DEF Inv, ServerTypeOK, Accepts, EndSession, Goto, Cancel
<1>3. HoldsSlot'
  BY PGliteServerAssumption
     DEF Inv, ServerTypeOK, Accepts, HoldsSlot, Live, EndSession, Goto, Cancel,
         Pumping, Ending
<1>4. QED BY <1>1, <1>2, <1>3 DEF Inv

\* start() and stop(): the slot is emptied only after stops is counted.
LEMMA AppInv ==
  ASSUME Inv, AppStep
  PROVE  Inv'
<1>1. ServerTypeOK'
  <2> USE PGliteServerAssumption DEF Inv, ServerTypeOK
  <2>1. CASE Start
    BY <2>1 DEF Start
  <2>2. CASE StopListening
    <3>1. stops' \in 0..MaxStops
      BY <2>2 DEF StopListening
    <3>2. QED BY <2>2, <3>1 DEF StopListening
  <2>3. CASE StopActive
    BY <2>3 DEF StopActive
  <2>4. CASE StopForgets
    BY <2>4 DEF StopForgets
  <2>5. QED BY <2>1, <2>2, <2>3, <2>4 DEF AppStep
<1>2. Accepts'
  BY PGliteServerAssumption
     DEF Inv, ServerTypeOK, Accepts, AppStep, Start, StopListening, StopActive,
         StopForgets
<1>3. HoldsSlot'
  BY PGliteServerAssumption
     DEF Inv, ServerTypeOK, Accepts, HoldsSlot, Live, AppStep, Start,
         StopListening, StopActive, StopForgets, Pumping, Ending
<1>4. QED BY <1>1, <1>2, <1>3 DEF Inv

\* A step of the server preserves the invariant.
LEMMA NextInv ==
  ASSUME Inv, [ServerNext]_serverVars
  PROVE  Inv'
<1>1. ASSUME NEW c \in Conns, ClientStep(c) \/ QueueStep(c)
      PROVE  Inv'
  BY <1>1, ConnectInv, LinkEndsInv, RefuseInv, AdmitInv, TakeInv, ReleaseInv
     DEF ClientStep, QueueStep
<1>2. ASSUME NEW c \in Conns, SessionStep(c) \/ DatabaseStep(c)
      PROVE  Inv'
  BY <1>2, HandshakePassesInv, HandshakeRefusesInv, SessionInv, ReadBatchInv,
     ForwardInv, EndSessionInv
     DEF SessionStep, DatabaseStep
<1>3. CASE AppStep
  BY <1>3, AppInv
<1>4. CASE UNCHANGED serverVars
  BY <1>4 DEF serverVars, Inv, ServerTypeOK, Accepts, HoldsSlot, Live
<1>5. QED BY <1>1, <1>2, <1>3, <1>4 DEF ServerNext

\* Of the sessions whose link is not broken each holds the one slot.
LEMMA LiveIsOne == Inv => SessionsDoNotOverlap
<1> SUFFICES ASSUME Inv, stops = 0 PROVE Cardinality(Live) <= 1
  BY DEF SessionsDoNotOverlap, Live
<1>1. Live \in SUBSET {active}
  BY DEF Inv, HoldsSlot
<1>2. IsFiniteSet({active}) /\ Cardinality({active}) = 1
  BY FS_Singleton
<1>3. QED BY <1>1, <1>2, FS_Subset

\* The invariant holds always.
LEMMA AlwaysInv == ServerSafety => []Inv
<1>1. ServerInit => Inv
  BY InitInv
<1>2. Inv /\ [ServerNext]_serverVars => Inv'
  BY NextInv
<1>3. QED BY <1>1, <1>2, PTL DEF ServerSafety

\* The server's variables keep their types; and whoever holds the slot has
\* passed accept.
THEOREM ServerTypesAreKept == ServerSpec => []ServerTypeOK
<1>1. Inv => ServerTypeOK
  BY DEF Inv
<1>2. QED BY <1>1, AlwaysInv, PTL DEF ServerSpec

\* As long as stop() is not called, the sessions of two clients overlap only if
\* a link breaks, however many clients come and whenever they leave.
THEOREM OneSessionAtATime == ServerSpec => []SessionsDoNotOverlap
<1>1. Inv => SessionsDoNotOverlap
  BY LiveIsOne
<1>2. QED BY <1>1, AlwaysInv, PTL DEF ServerSpec

================================================================================
