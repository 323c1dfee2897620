-------------------------- MODULE SharedSessionProofs --------------------------
(***************************************************************************)
(* NoOrphanTransaction, AbandonedIsGone and AloneIsAtomic for every number *)
(* of tasks, clients, writes and batches, and SharedSession as an          *)
(* implementation of the server on its own (PGliteServer).                 *)
(*                                                                         *)
(* Whatever the session holds has somebody who will end it: an open block  *)
(* has a member (Held), a client that believes itself in a transaction or  *)
(* has writes pending still has its ROLLBACK to come (Answerable).  And a  *)
(* transaction nobody else touched is exactly what its user made of it     *)
(* (Alone): the moment a second user exchanges, everyone concerned is in   *)
(* mixed (Two), and no write is made twice (Fresh).                        *)
(***************************************************************************)
EXTENDS SharedSession, TLAPS

Proven == INSTANCE PGliteServerProofs
            WITH Contents <- ClientOps, Endings <- Complete

\* The places of a session that has the ROLLBACK of CleanUp before it.
Owing == {"read", "exchange", "send", "rollback"}

\* A transaction block is somebody's, and a dead engine has none.
Held ==
  /\ ~open => backend.block = "none"
  /\ backend.block # "none" => InTransaction # {}

\* A client in a transaction, or with writes pending, still has to clean up.
Answerable ==
  /\ \A c \in inside : session[c] \in Owing
  /\ \A w \in backend.pending : w.by \in Conns => session[w.by] \in Owing

\* The next write of a user is a new one, and no write is pending once it is
\* committed.
Fresh ==
  /\ \A w \in backend.pending \cup backend.committed : w.n <= made[w.by]
  /\ backend.pending \cap backend.committed = {}

\* Two users that take themselves to be in a transaction are mixed.
Two == \A u, v \in InTransaction : u # v => u \in mixed

\* A client outside of a transaction has nothing issued.
Settled ==
  \A c \in Conns \ inside : session[c] \notin {"cancel", "over"} => issued[c] = {}

\* What a user alone in a transaction has issued is what the backend holds.
Exact(u) ==
  /\ issued[u] \cap backend.committed = {}
  /\ \/ u \in Tasks /\ at[u] = "throwing"
     \/ backend.block = "open" /\ issued[u] \subseteq backend.pending
     \/ u \in Conns /\ backend.block = "failed" /\ issued[u] = {}

Alone == open => \A u \in InTransaction \ mixed : Exact(u)

Inv ==
  /\ DatabaseTypeOK /\ Proven!Inv
  /\ Held /\ Answerable /\ Fresh /\ Two /\ Settled
  /\ (~Catches => Alone)

--------------------------------------------------------------------------------
(***************************************************************************)
(* What a statement does to the session.                                    *)
(***************************************************************************)

\* The statements the app and the clients use are statements.
LEMMA Statements ==
  /\ \A op \in {"begin", "fail", "commit", "refused", "rollback"} :
       /\ Statement(op) \in StatementType
       /\ Statement(op).op = op /\ Statement(op).writes = {}
  /\ \A u \in Users, n \in 1..MaxWrites :
       /\ Write(u, n) \in StatementType
       /\ Write(u, n).op = "write"
       /\ Write(u, n).writes = {[by |-> u, n |-> n]}
BY DEF Statement, Write, StatementType, Writes

\* The fields of a session that ended, lost its engine or was refused.
LEMMA EndedIs ==
  ASSUME NEW s \in SessionType
  PROVE  /\ Ended(s) \in SessionType /\ Lost(s) = Ended(s)
         /\ Ended(s).block = "none" /\ Ended(s).pending = {}
         /\ Ended(s).committed = s.committed
BY DEF SessionType, Ended, Lost

\* Each statement, on each kind of block.
LEMMA AfterIs ==
  ASSUME NEW s \in SessionType, NEW stmt \in StatementType
  PROVE  /\ After(s, stmt) \in SessionType
         /\ stmt.op = "begin" =>
              /\ After(s, stmt).block = (IF s.block = "none" THEN "open" ELSE s.block)
              /\ After(s, stmt).pending = s.pending
              /\ After(s, stmt).committed = s.committed
         /\ stmt.op = "write" =>
              /\ After(s, stmt).block = s.block
              /\ After(s, stmt).pending =
                   (IF s.block = "open" THEN s.pending \cup stmt.writes ELSE s.pending)
              /\ After(s, stmt).committed =
                   (IF s.block = "none" THEN s.committed \cup stmt.writes
                                        ELSE s.committed)
         /\ stmt.op = "fail" =>
              /\ After(s, stmt).block = (IF s.block = "none" THEN "none" ELSE "failed")
              /\ After(s, stmt).pending = {}
              /\ After(s, stmt).committed = s.committed
         /\ stmt.op = "commit" =>
              /\ After(s, stmt).block = "none" /\ After(s, stmt).pending = {}
              /\ After(s, stmt).committed = s.committed \cup s.pending
         /\ stmt.op \in {"refused", "rollback"} => After(s, stmt) = Ended(s)
<1>1. s \in [block : {"none", "open", "failed"}, pending : SUBSET Writes,
             committed : SUBSET Writes]
  BY DEF SessionType
<1>2. s.pending # {} => s.block = "open"
  BY DEF SessionType
<1>3. stmt.op \in {"begin", "write", "fail", "commit", "refused", "rollback"}
      /\ stmt.writes \in SUBSET Writes
  BY DEF StatementType
<1>4. CASE stmt.op = "begin"
  BY <1>1, <1>2, <1>4 DEF After, SessionType
<1>5. CASE stmt.op = "write"
  BY <1>1, <1>2, <1>3, <1>5 DEF After, SessionType
<1>6. CASE stmt.op = "fail"
  BY <1>1, <1>2, <1>6 DEF After, SessionType, Failed
<1>7. CASE stmt.op = "commit"
  BY <1>1, <1>2, <1>7 DEF After, SessionType, Committed, Ended
<1>8. CASE stmt.op \in {"refused", "rollback"}
  BY <1>8, EndedIs DEF After
<1>9. QED BY <1>3, <1>4, <1>5, <1>6, <1>7, <1>8

\* No statement makes up writes, and none is pending and committed through it.
LEMMA AfterWrites ==
  ASSUME NEW s \in SessionType, NEW stmt \in StatementType
  PROVE  /\ After(s, stmt).pending \subseteq s.pending \cup stmt.writes
         /\ After(s, stmt).committed \subseteq
              s.committed \cup s.pending \cup stmt.writes
         /\ After(s, stmt).pending \cap After(s, stmt).committed \subseteq
              (s.pending \cap s.committed)
                \cup (stmt.writes \cap (s.pending \cup s.committed))
<1>1. stmt.op \in {"begin", "write", "fail", "commit", "refused", "rollback"}
  BY DEF StatementType
<1>2. CASE stmt.op = "begin"
  BY <1>2, AfterIs
<1>3. CASE stmt.op = "write"
  <2>1. CASE s.block = "open"
    BY <1>3, <2>1, AfterIs
  <2>2. CASE s.block # "open"
    BY <1>3, <2>2, AfterIs
  <2>3. QED BY <2>1, <2>2
<1>4. CASE stmt.op = "fail"
  BY <1>4, AfterIs
<1>5. CASE stmt.op = "commit"
  BY <1>5, AfterIs
<1>6. CASE stmt.op \in {"refused", "rollback"}
  BY <1>6, AfterIs, EndedIs
<1>7. QED BY <1>1, <1>2, <1>3, <1>4, <1>5, <1>6

--------------------------------------------------------------------------------
(***************************************************************************)
(* An exchange, whoever makes it.                                           *)
(***************************************************************************)

\* Whoever is in a transaction is a user.
LEMMA InTransactionUsers == Inv => InTransaction \in SUBSET Users
BY DEF Inv, DatabaseTypeOK, InTransaction, Users

\* An exchange with an engine that lives on is its statement; one with an engine
\* that does not leaves nothing open.
LEMMA ExchangeIs ==
  ASSUME Inv, NEW u \in Users, NEW stmt \in StatementType,
         NEW answer, Exchange(u, stmt, answer)
  PROVE  /\ backend' \in SessionType /\ open' \in BOOLEAN /\ mixed' \in SUBSET Users
         /\ open' => /\ open
                     /\ backend' = After(backend, stmt)
                     /\ answer = (IF Errs(backend, stmt) THEN "error" ELSE "ok")
         /\ ~open' => /\ answer = "dead"
                      /\ backend'.block = "none" /\ backend'.pending = {}
                      /\ backend'.committed \subseteq
                           backend.committed \cup backend.pending \cup stmt.writes
<1>1. backend \in SessionType /\ open \in BOOLEAN /\ mixed \in SUBSET Users
  BY DEF Inv, DatabaseTypeOK
<1>2. InTransaction \in SUBSET Users
  BY InTransactionUsers
<1>3. mixed' \in SUBSET Users
  BY <1>1, <1>2 DEF Exchange, Mix
<1>4. CASE answer = "dead" /\ ~open /\ UNCHANGED <<backend, open>>
  BY <1>1, <1>3, <1>4 DEF Inv, Held, SessionType
<1>5. CASE /\ answer = "dead" /\ open /\ open' = FALSE
           /\ backend' \in {Lost(backend), Lost(After(backend, stmt))}
  <2>1. After(backend, stmt) \in SessionType
    BY <1>1, AfterIs
  <2>2. After(backend, stmt).committed \subseteq
          backend.committed \cup backend.pending \cup stmt.writes
    BY <1>1, AfterWrites
  <2>3. /\ Lost(backend) \in SessionType
        /\ Lost(backend).block = "none" /\ Lost(backend).pending = {}
        /\ Lost(backend).committed = backend.committed
    BY <1>1, EndedIs
  <2>4. /\ Lost(After(backend, stmt)) \in SessionType
        /\ Lost(After(backend, stmt)).block = "none"
        /\ Lost(After(backend, stmt)).pending = {}
        /\ Lost(After(backend, stmt)).committed = After(backend, stmt).committed
    BY <2>1, EndedIs
  <2>5. QED BY <1>3, <1>5, <2>2, <2>3, <2>4
<1>6. CASE /\ answer = (IF Errs(backend, stmt) THEN "error" ELSE "ok")
           /\ open
           /\ backend' = After(backend, stmt)
           /\ UNCHANGED open
  BY <1>1, <1>3, <1>6, AfterIs
<1>7. QED BY <1>4, <1>5, <1>6 DEF Exchange

\* Whoever exchanges mixes everybody who is in a transaction, but himself alone.
LEMMA MixIs ==
  ASSUME Inv, NEW u \in Users, Mix(u)
  PROVE  /\ InTransaction \ {u} # {} => InTransaction \cup {u} \subseteq mixed'
         /\ InTransaction = {u} => mixed' = mixed
BY DEF Mix

\* An exchange preserves Held, Fresh, Two and Alone, if its user leaves no block
\* behind and, when nobody else is in a transaction, what he issued is exact.
LEMMA ExchangeInv ==
  ASSUME Inv, NEW u \in Users, NEW stmt \in StatementType,
         NEW answer, Exchange(u, stmt, answer),
         made \in [Users -> Nat], made' \in [Users -> Nat],
         \A v \in Users : made[v] <= made'[v],
         \A w \in stmt.writes : w.by = u /\ w.n = made[u] + 1 /\ w.n <= made'[u],
         InTransaction' \subseteq InTransaction \cup {u},
         InTransaction \ {u} \subseteq InTransaction',
         backend'.block # "none" /\ u \notin InTransaction' =>
           backend.block # "none" /\ u \notin InTransaction,
         open' /\ ~Catches /\ u \in InTransaction' \ mixed' => Exact(u)'
  PROVE  Held' /\ Fresh' /\ Two' /\ (~Catches => Alone')
<1>1. backend \in SessionType
  BY DEF Inv, DatabaseTypeOK
<1>2. Mix(u)
  BY DEF Exchange
<1>3. Held'
  <2>1. ~open' => backend'.block = "none"
    BY ExchangeIs
  <2>2. ASSUME backend'.block # "none" PROVE InTransaction' # {}
    BY <2>2 DEF Inv, Held
  <2>3. QED BY <2>1, <2>2 DEF Held
<1>4. Fresh'
  <2>1. /\ backend'.pending \subseteq backend.pending \cup stmt.writes
        /\ backend'.committed \subseteq
             backend.committed \cup backend.pending \cup stmt.writes
        /\ backend'.pending \cap backend'.committed \subseteq
             (backend.pending \cap backend.committed)
               \cup (stmt.writes \cap (backend.pending \cup backend.committed))
    <3>1. CASE open'
      <4>1. backend' = After(backend, stmt)
        BY <3>1, ExchangeIs
      <4>2. QED BY <1>1, <4>1, AfterWrites
    <3>2. CASE ~open'
      BY <3>2, ExchangeIs
    <3>3. QED BY <3>1, <3>2
  <2>2. stmt.writes \subseteq Writes
        /\ backend.pending \subseteq Writes /\ backend.committed \subseteq Writes
    BY <1>1 DEF StatementType, SessionType
  <2>3. \A w \in Writes : w.by \in Users /\ w.n \in Nat
    BY DEF Writes
  <2>4. stmt.writes \cap (backend.pending \cup backend.committed) = {}
    <3> SUFFICES ASSUME NEW w \in stmt.writes,
                        w \in backend.pending \cup backend.committed
                 PROVE  FALSE
      OBVIOUS
    <3>1. w.by = u /\ w.n = made[u] + 1
      OBVIOUS
    <3>2. w.n <= made[w.by]
      BY DEF Inv, Fresh
    <3>3. QED BY <3>1, <3>2
  <2>5. \A w \in backend.pending \cup backend.committed : w.n <= made'[w.by]
    <3> SUFFICES ASSUME NEW w \in backend.pending \cup backend.committed
                 PROVE  w.n <= made'[w.by]
      OBVIOUS
    <3>1. w.by \in Users /\ w.n \in Nat
      BY <2>2, <2>3
    <3>2. w.n <= made[w.by]
      BY DEF Inv, Fresh
    <3>3. QED BY <3>1, <3>2
  <2>6. \A w \in stmt.writes : w.n <= made'[w.by]
    OBVIOUS
  <2>7. QED BY <2>1, <2>4, <2>5, <2>6 DEF Inv, Fresh
<1>5. Two'
  BY <1>2, MixIs DEF Two
<1>6. ASSUME ~Catches PROVE Alone'
  <2> SUFFICES ASSUME open', NEW v \in InTransaction' \ mixed' PROVE Exact(v)'
    BY DEF Alone
  <2>1. v = u
    BY <1>2, MixIs
  <2>2. QED BY <1>6, <2>1
<1>7. QED BY <1>3, <1>4, <1>5, <1>6

\* Before the exchange of a user who is not mixed after it: either the
\* transaction is his and exact, or there is none at all.
LEMMA Unmixed ==
  ASSUME Inv, NEW u \in Users, NEW stmt \in StatementType,
         NEW answer, Exchange(u, stmt, answer), open', u \notin mixed'
  PROVE  /\ u \in InTransaction => u \notin mixed /\ (~Catches => Exact(u))
         /\ u \notin InTransaction => backend.block = "none" /\ backend.pending = {}
<1>1. Mix(u) /\ open
  BY ExchangeIs DEF Exchange
<1>2. InTransaction \ {u} = {}
  BY <1>1, MixIs
<1>3. ASSUME u \in InTransaction PROVE u \notin mixed /\ (~Catches => Exact(u))
  BY <1>1, <1>2, <1>3, MixIs DEF Inv, Alone
<1>4. ASSUME u \notin InTransaction
      PROVE  backend.block = "none" /\ backend.pending = {}
  BY <1>2, <1>4 DEF Inv, Held, DatabaseTypeOK, SessionType
<1>5. QED BY <1>3, <1>4

--------------------------------------------------------------------------------
(***************************************************************************)
(* The server in SharedSession is the one PGliteServerProofs is about.      *)
(***************************************************************************)

\* Its assumptions are met.
LEMMA ServerAssumptions == Proven!PGliteServerAssumption
BY SharedSessionAssumption
   DEF Proven!PGliteServerAssumption, ClientOps, Complete, Proven!AllEndings

\* Its invariant is preserved by its steps and by those that leave it alone.
LEMMA ServerInv ==
  ASSUME Proven!Inv, Proven!ServerNext \/ UNCHANGED serverVars
  PROVE  Proven!Inv'
<1>1. UNCHANGED serverVars => UNCHANGED Proven!serverVars
  BY DEF serverVars, Proven!serverVars
<1>2. QED BY <1>1, ServerAssumptions, Proven!NextInv

\* The actions of the two are the same, one by one.
LEMMA SameActions ==
  /\ \A c \in Conns : Server!ClientStep(c) => Proven!ClientStep(c)
  /\ \A c \in Conns : Server!QueueStep(c) => Proven!QueueStep(c)
  /\ \A c \in Conns : Server!SessionStep(c) => Proven!SessionStep(c)
  /\ Server!AppStep => Proven!AppStep
  /\ \A c \in Conns, answer \in Answers :
       Server!Forward(c, answer) => Proven!DatabaseStep(c)
  /\ \A c \in Conns : Server!CleanUp(c) => Proven!DatabaseStep(c)
<1>1. \A c \in Conns : Server!ClientStep(c) => Proven!ClientStep(c)
  BY DEF Server!ClientStep, Proven!ClientStep, Server!Connect, Proven!Connect,
     Server!ClientCloses, Proven!ClientCloses, Server!LinkBreaks,
     Proven!LinkBreaks, Server!Goto, Proven!Goto
<1>2. \A c \in Conns : Server!QueueStep(c) => Proven!QueueStep(c)
  BY DEF Server!QueueStep, Proven!QueueStep, Server!Refuse, Proven!Refuse,
     Server!Admit, Proven!Admit, Server!Take, Proven!Take, Server!Drop,
     Proven!Drop, Server!Release, Proven!Release, Server!Goto, Proven!Goto,
     Server!Cancel, Proven!Cancel, Server!Accepting, Proven!Accepting,
     Server!Unusable, Proven!Unusable
<1>3. \A c \in Conns : Server!SessionStep(c) => Proven!SessionStep(c)
  BY DEF Server!SessionStep, Proven!SessionStep, Server!HandshakePasses,
     Proven!HandshakePasses, Server!HandshakeRefuses, Proven!HandshakeRefuses,
     Server!SessionThrows, Proven!SessionThrows, Server!ReadBatch,
     Proven!ReadBatch, Server!ClientLeaves, Proven!ClientLeaves,
     Server!SendReply, Proven!SendReply, Server!EndSession, Proven!EndSession,
     Server!Goto, Proven!Goto, Server!Cancel, Proven!Cancel, Server!Unusable,
     Proven!Unusable
<1>4. Server!AppStep => Proven!AppStep
  BY DEF Server!AppStep, Proven!AppStep, Server!Start, Proven!Start,
     Server!StopListening, Proven!StopListening, Server!StopActive,
     Proven!StopActive, Server!StopForgets, Proven!StopForgets
<1>5. ASSUME NEW c \in Conns, NEW answer \in Answers, Server!Forward(c, answer)
      PROVE  Proven!DatabaseStep(c)
  <2>1. Proven!Forward(c, IF answer = "dead" THEN "dead" ELSE "ok")
    BY <1>5 DEF Server!Forward, Proven!Forward, Server!NoBatch, Proven!NoBatch,
       Server!Goto, Proven!Goto
  <2>2. QED BY <2>1 DEF Proven!DatabaseStep
<1>6. \A c \in Conns : Server!CleanUp(c) => Proven!DatabaseStep(c)
  BY DEF Proven!DatabaseStep, Server!CleanUp, Proven!CleanUp, Server!Goto,
     Proven!Goto
<1>7. QED BY <1>1, <1>2, <1>3, <1>4, <1>5, <1>6

\* A step without the database is a step of the server that ends no session but
\* one that has nothing to clean up.
LEMMA ServerOnlyIs ==
  ASSUME Inv, ServerOnly
  PROVE  /\ Proven!ServerNext
         /\ \A c \in Conns : session[c] \in Owing => session'[c] \in Owing
         /\ \A c \in Conns : session[c] \in {"cancel", "over"} =>
                               session'[c] \in {"cancel", "over"}
<1>1. \/ \E c \in Conns : \/ Proven!ClientStep(c) \/ Proven!QueueStep(c)
                          \/ Proven!SessionStep(c)
      \/ Proven!AppStep
  BY SameActions DEF ServerOnly
<1>2. session \in [Conns -> {"none", "queued", "admitted", "handshake", "over"}
                              \cup Proven!Pumping \cup Proven!Ending]
  BY DEF Inv, Proven!Inv, Proven!ServerTypeOK
<1>3. \/ session' = session
      \/ \E c \in Conns, place \in {"none", "queued", "admitted", "handshake",
                                    "over"} \cup Owing :
           /\ session' = [session EXCEPT ![c] = place]
           /\ session[c] \in Owing => place \in Owing
           /\ session[c] # "over"
           /\ session[c] = "cancel" => place = "over"
  <2>1. CASE Proven!AppStep
    BY <2>1 DEF Proven!AppStep, Proven!Start, Proven!StopListening,
       Proven!StopActive, Proven!StopForgets
  <2>2. CASE \E c \in Conns : Proven!ClientStep(c)
    BY <2>2 DEF Proven!ClientStep, Proven!Connect, Proven!ClientCloses,
       Proven!LinkBreaks, Proven!Goto, Owing
  <2>3. CASE \E c \in Conns : Proven!QueueStep(c)
    BY <2>3 DEF Proven!QueueStep, Proven!Refuse, Proven!Admit, Proven!Take,
       Proven!Drop, Proven!Release, Proven!Goto, Owing
  <2>4. CASE \E c \in Conns : Proven!SessionStep(c)
    BY <2>4 DEF Proven!SessionStep, Proven!HandshakePasses,
       Proven!HandshakeRefuses, Proven!SessionThrows, Proven!ReadBatch,
       Proven!ClientLeaves, Proven!SendReply, Proven!EndSession, Proven!Goto,
       Owing
  <2>5. QED BY <1>1, <2>1, <2>2, <2>3, <2>4
<1>4. QED BY <1>1, <1>2, <1>3 DEF Proven!ServerNext

--------------------------------------------------------------------------------
(***************************************************************************)
(* The app's tasks.                                                         *)
(***************************************************************************)

\* Nobody has used the session at first.
LEMMA InitInv == Init => Inv
<1> SUFFICES ASSUME Init PROVE Inv
  OBVIOUS
<1>1. DatabaseTypeOK
  BY BackendSessionAssumption
     DEF Init, DatabaseInit, DatabaseTypeOK, FreshSession, SessionType
<1>2. Proven!Inv
  <2>1. Proven!ServerInit
    BY DEF Init, Server!ServerInit, Proven!ServerInit, Server!NoBatch,
       Proven!NoBatch
  <2>2. QED BY <2>1, ServerAssumptions, Proven!InitInv
<1>3. InTransaction = {}
  BY DEF Init, DatabaseInit, InTransaction
<1>4. Held /\ Answerable /\ Fresh
  BY DEF Init, DatabaseInit, FreshSession, Held, Answerable, Fresh
<1>5. Two /\ Settled /\ Alone
  BY <1>3 DEF Init, DatabaseInit, Two, Settled, Alone, Users
<1>6. QED BY <1>1, <1>2, <1>4, <1>5 DEF Inv

\* A step of the app, whose own statements are the only new ones, leaves what
\* is said of the clients as it was.
LEMMA AppInv ==
  ASSUME Inv, NEW u \in Tasks \cup Singles, DatabaseTypeOK',
         UNCHANGED serverVars, UNCHANGED inside,
         \A c \in Conns : issued'[c] = issued[c],
         \A w \in backend'.pending : w \in backend.pending \/ w.by = u,
         Held' /\ Fresh' /\ Two' /\ (~Catches => Alone')
  PROVE  Inv'
<1>1. Proven!Inv'
  BY ServerInv DEF Inv
<1>2. u \notin Conns
  BY BackendSessionAssumption
<1>3. Answerable'
  BY <1>2 DEF Inv, Answerable, serverVars
<1>4. Settled'
  BY DEF Inv, Settled, serverVars
<1>5. QED BY <1>1, <1>3, <1>4 DEF Inv

\* The users' counters and sets, as a step of the app finds them.
LEMMA AppTypes ==
  ASSUME Inv
  PROVE  /\ Tasks \subseteq Users /\ Singles \subseteq Users /\ Conns \subseteq Users
         /\ made \in [Users -> Nat] /\ made \in [Users -> 0..MaxWrites]
         /\ issued \in [Users -> SUBSET Writes]
         /\ at \in [Tasks -> {"outside", "body", "throwing"}]
         /\ backend \in SessionType /\ inside \in SUBSET Conns
         /\ Tasks \cap Conns = {}
BY BackendSessionAssumption DEF Inv, DatabaseTypeOK, Users

\* What is pending after an exchange was pending before or is its statement's.
LEMMA PendingIs ==
  ASSUME Inv, NEW u \in Users, NEW stmt \in StatementType,
         NEW answer, Exchange(u, stmt, answer)
  PROVE  backend'.pending \subseteq backend.pending \cup stmt.writes
<1>1. CASE open'
  BY <1>1, AppTypes, ExchangeIs, AfterWrites
<1>2. CASE ~open'
  BY <1>2, ExchangeIs
<1>3. QED BY <1>1, <1>2, ExchangeIs

\* BEGIN: a transaction nobody else is in starts with nothing issued.
LEMMA BeginInv ==
  ASSUME Inv, NEW t \in Tasks, Begin(t), UNCHANGED serverVars
  PROVE  Inv'
<1> DEFINE stmt == Statement("begin")
<1>1. PICK answer \in Answers :
        /\ Exchange(t, stmt, answer)
        /\ at' = [at EXCEPT ![t] = IF answer = "ok" THEN "body" ELSE "outside"]
  BY DEF Begin
<1>2. /\ t \in Users /\ stmt \in StatementType /\ stmt.op = "begin"
      /\ stmt.writes = {}
  BY AppTypes, Statements
<1> HIDE DEF stmt
<1>3. /\ issued' = [issued EXCEPT ![t] = {}] /\ UNCHANGED <<made, inside>>
      /\ at[t] = "outside"
  BY DEF Begin
<1>4. DatabaseTypeOK'
  BY <1>1, <1>2, <1>3, AppTypes, ExchangeIs DEF Inv, DatabaseTypeOK
<1>5. t \notin InTransaction
  BY <1>3, AppTypes DEF InTransaction
<1>6. /\ InTransaction' \subseteq InTransaction \cup {t}
      /\ InTransaction \ {t} \subseteq InTransaction'
      /\ t \in InTransaction' <=> answer = "ok"
  BY <1>1, <1>3, AppTypes DEF InTransaction
<1>7. ASSUME backend'.block # "none", t \notin InTransaction'
      PROVE  backend.block # "none" /\ t \notin InTransaction
  <2>1. open' /\ backend' = After(backend, stmt) /\ Errs(backend, stmt)
    BY <1>1, <1>2, <1>6, <1>7, ExchangeIs
  <2>2. backend.block # "none"
    BY <1>2, <2>1 DEF Errs
  <2>3. QED BY <1>5, <2>2
<1>8. ASSUME open', t \in InTransaction' \ mixed' PROVE Exact(t)'
  <2>1. backend.block = "none" /\ backend' = After(backend, stmt)
    BY <1>1, <1>2, <1>5, <1>8, Unmixed, ExchangeIs
  <2>2. backend'.block = "open" /\ issued'[t] = {}
    BY <1>2, <1>3, <2>1, AppTypes, AfterIs
  <2>3. QED BY <2>2 DEF Exact
<1>9. Held' /\ Fresh' /\ Two' /\ (~Catches => Alone')
  BY <1>1, <1>2, <1>3, <1>6, <1>7, <1>8, AppTypes, ExchangeInv
<1>10. \A w \in backend'.pending : w \in backend.pending \/ w.by = t
  BY <1>1, <1>2, PendingIs
<1>11. \A c \in Conns : issued'[c] = issued[c]
  BY <1>3, AppTypes
<1>12. QED BY <1>3, <1>4, <1>9, <1>10, <1>11, AppInv

\* A statement of the body adds to what is issued what it adds to what is
\* pending, and an error it does not catch ends the body.
LEMMA BodyStatementInv ==
  ASSUME Inv, NEW t \in Tasks, BodyStatement(t), UNCHANGED serverVars
  PROVE  Inv'
<1>1. PICK stmt \in {Write(t, made[t] + 1), Statement("fail")}, answer \in Answers :
        /\ Exchange(t, stmt, answer)
        /\ IF answer = "ok"
           THEN /\ issued' = [issued EXCEPT ![t] = @ \cup stmt.writes]
                /\ UNCHANGED at
           ELSE /\ UNCHANGED issued
                /\ \/ at' = [at EXCEPT ![t] = "throwing"]
                   \/ Catches /\ UNCHANGED at
  BY DEF BodyStatement
<1>2. /\ made' = [made EXCEPT ![t] = @ + 1] /\ UNCHANGED inside
      /\ at[t] = "body" /\ made[t] < MaxWrites
  BY DEF BodyStatement
<1>3. /\ made[t] \in Nat /\ made[t] + 1 \in 1..MaxWrites /\ t \in Users
      /\ made' \in [Users -> Nat] /\ made' \in [Users -> 0..MaxWrites]
      /\ made'[t] = made[t] + 1
      /\ \A v \in Users : made[v] <= made'[v]
  BY <1>2, AppTypes, BackendSessionAssumption
<1>4. /\ stmt \in StatementType /\ stmt.op \in {"write", "fail"}
      /\ stmt.writes \subseteq {[by |-> t, n |-> made[t] + 1]}
  BY <1>3, Statements
<1>5. stmt.writes \subseteq Writes
  BY <1>4 DEF StatementType
<1>6. DatabaseTypeOK'
  <2>1. issued' \in [Users -> SUBSET Writes]
    BY <1>1, <1>5, AppTypes
  <2>2. at' \in [Tasks -> {"outside", "body", "throwing"}]
    BY <1>1, AppTypes
  <2>3. QED
    BY <1>1, <1>2, <1>3, <1>4, <2>1, <2>2, AppTypes, ExchangeIs
       DEF Inv, DatabaseTypeOK
<1>7. InTransaction' = InTransaction /\ t \in InTransaction
  BY <1>1, <1>2, AppTypes DEF InTransaction
<1>8. ASSUME open', ~Catches, t \notin mixed' PROVE Exact(t)'
  <2>1. /\ Exact(t) /\ backend' = After(backend, stmt)
        /\ answer = (IF Errs(backend, stmt) THEN "error" ELSE "ok")
    BY <1>1, <1>3, <1>4, <1>7, <1>8, Unmixed, ExchangeIs
  <2>2. /\ issued[t] \cap backend.committed = {}
        /\ backend.block = "open" /\ issued[t] \subseteq backend.pending
    BY <1>2, <2>1, AppTypes DEF Exact
  <2>3. CASE answer = "ok"
    <3>1. stmt.op = "write"
      BY <1>4, <2>1, <2>3 DEF Errs
    <3>2. /\ backend'.block = "open" /\ backend'.committed = backend.committed
          /\ backend'.pending = backend.pending \cup stmt.writes
      BY <1>4, <2>1, <2>2, <3>1, AppTypes, AfterIs
    <3>3. issued'[t] = issued[t] \cup stmt.writes
      BY <1>1, <1>3, <2>3, AppTypes
    <3>4. stmt.writes \cap backend.committed = {}
      BY <1>3, <1>4 DEF Inv, Fresh
    <3>5. QED BY <2>2, <3>2, <3>3, <3>4 DEF Exact
  <2>4. CASE answer # "ok"
    <3>1. at'[t] = "throwing" /\ issued' = issued
      BY <1>1, <1>8, <2>4, AppTypes
    <3>2. stmt.op = "fail"
      BY <1>4, <2>1, <2>2, <2>4 DEF Errs
    <3>3. backend'.committed = backend.committed
      BY <1>4, <2>1, <3>2, AppTypes, AfterIs
    <3>4. QED BY <2>2, <3>1, <3>3 DEF Exact
  <2>5. QED BY <2>3, <2>4
<1>9. \A w \in stmt.writes : w.by = t /\ w.n = made[t] + 1 /\ w.n <= made'[t]
  BY <1>3, <1>4
<1>10. Held' /\ Fresh' /\ Two' /\ (~Catches => Alone')
  BY <1>1, <1>3, <1>4, <1>7, <1>8, <1>9, AppTypes, ExchangeInv
<1>11. \A w \in backend'.pending : w \in backend.pending \/ w.by = t
  BY <1>1, <1>3, <1>4, PendingIs
<1>12. \A c \in Conns : issued'[c] = issued[c]
  BY <1>1, AppTypes
<1>13. QED BY <1>2, <1>6, <1>10, <1>11, <1>12, AppInv

\* The body's own error: the ROLLBACK is still to come.
LEMMA BodyThrowsInv ==
  ASSUME Inv, NEW t \in Tasks, BodyThrows(t), UNCHANGED serverVars
  PROVE  Inv'
<1>1. /\ at[t] = "body" /\ at' = [at EXCEPT ![t] = "throwing"]
      /\ UNCHANGED <<backend, open, issued, made, inside, mixed>>
  BY DEF BodyThrows
<1>2. DatabaseTypeOK'
  BY <1>1 DEF Inv, DatabaseTypeOK
<1>3. InTransaction' = InTransaction
  BY <1>1, AppTypes DEF InTransaction
<1>4. Held' /\ Fresh' /\ Two'
  BY <1>1, <1>3 DEF Inv, Held, Fresh, Two
<1>5. ASSUME ~Catches PROVE Alone'
  <2> SUFFICES ASSUME open, NEW u \in InTransaction \ mixed PROVE Exact(u)'
    BY <1>1, <1>3 DEF Alone
  <2>1. Exact(u)
    BY <1>5 DEF Inv, Alone
  <2>2. u \in Tasks /\ at[u] = "throwing" => at'[u] = "throwing"
    BY <1>1, AppTypes
  <2>3. QED BY <1>1, <2>1, <2>2 DEF Exact
<1>6. QED BY <1>1, <1>2, <1>4, <1>5, AppInv

\* COMMIT or ROLLBACK: whatever comes of it, no block is open behind it.
LEMMA LeavesInv ==
  ASSUME Inv, NEW t \in Tasks, at[t] # "outside",
         NEW op \in {"commit", "rollback"}, NEW answer,
         Exchange(t, Statement(op), answer),
         at' = [at EXCEPT ![t] = "outside"],
         UNCHANGED <<issued, made, inside, serverVars>>
  PROVE  Inv'
<1> DEFINE stmt == Statement(op)
<1>1. /\ t \in Users /\ stmt \in StatementType /\ stmt.op \in {"commit", "rollback"}
      /\ stmt.writes = {}
  BY AppTypes, Statements
<1>2. Exchange(t, stmt, answer)
  OBVIOUS
<1> HIDE DEF stmt
<1>3. DatabaseTypeOK'
  BY <1>1, <1>2, AppTypes, ExchangeIs DEF Inv, DatabaseTypeOK
<1>4. /\ InTransaction' \subseteq InTransaction \cup {t}
      /\ InTransaction \ {t} \subseteq InTransaction'
      /\ t \notin InTransaction'
  BY AppTypes DEF InTransaction
<1>5. backend'.block = "none"
  <2>1. CASE open'
    <3>1. backend' = After(backend, stmt)
      BY <1>1, <1>2, <2>1, ExchangeIs
    <3>2. CASE stmt.op = "commit"
      BY <1>1, <3>1, <3>2, AppTypes, AfterIs
    <3>3. CASE stmt.op = "rollback"
      <4>1. After(backend, stmt) = Ended(backend)
        BY <3>3 DEF After
      <4>2. QED BY <3>1, <4>1, AppTypes, EndedIs
    <3>4. QED BY <1>1, <3>2, <3>3
  <2>2. CASE ~open'
    BY <1>1, <1>2, <2>2, ExchangeIs
  <2>3. QED BY <2>1, <2>2
<1>6. Held' /\ Fresh' /\ Two' /\ (~Catches => Alone')
  BY <1>1, <1>2, <1>4, <1>5, AppTypes, ExchangeInv
<1>7. \A w \in backend'.pending : w \in backend.pending \/ w.by = t
  BY <1>1, <1>2, PendingIs
<1>8. QED BY <1>3, <1>6, <1>7, AppInv

\* A COMMIT that throws and the ROLLBACK behind it are as good as the ROLLBACK.
LEMMA RefusedIs ==
  ASSUME Inv, NEW t \in Tasks, open, UNCHANGED open, Mix(t),
         backend' = After(After(backend, Statement("refused")),
                          Statement("rollback"))
  PROVE  Exchange(t, Statement("rollback"), "ok")
<1>1. /\ After(backend, Statement("refused")) = Ended(backend)
      /\ Ended(backend) \in SessionType
  BY AppTypes, EndedIs DEF After, Statement
<1>2. After(Ended(backend), Statement("rollback")) = Ended(Ended(backend))
  BY DEF After, Statement
<1>3. backend' = Ended(backend)
  BY <1>1, <1>2, AppTypes DEF Ended, SessionType
<1>4. backend' = After(backend, Statement("rollback"))
  BY <1>3 DEF After, Statement
<1>5. ~Errs(backend, Statement("rollback"))
  BY DEF Errs, Statement
<1>6. QED BY <1>4, <1>5 DEF Exchange

\* withTransaction returns, or throws: with COMMIT, with ROLLBACK, or with a
\* COMMIT that throws and the ROLLBACK behind it.
LEMMA TaskEndsInv ==
  ASSUME Inv, NEW t \in Tasks, Commit(t) \/ CommitThrows(t) \/ Rollback(t),
         UNCHANGED serverVars
  PROVE  Inv'
<1>1. CASE Commit(t)
  BY <1>1, LeavesInv DEF Commit
<1>2. CASE CommitThrows(t)
  <2>1. CASE Exchange(t, Statement("commit"), "dead")
    BY <1>2, <2>1, LeavesInv DEF CommitThrows
  <2>2. CASE /\ open
             /\ backend' = After(After(backend, Statement("refused")),
                                 Statement("rollback"))
             /\ UNCHANGED open
             /\ Mix(t)
    <3>1. Exchange(t, Statement("rollback"), "ok")
      BY <2>2, RefusedIs
    <3>2. QED BY <1>2, <3>1, LeavesInv DEF CommitThrows
  <2>3. QED BY <1>2, <2>1, <2>2 DEF CommitThrows
<1>3. CASE Rollback(t)
  BY <1>3, LeavesInv DEF Rollback
<1>4. QED BY <1>1, <1>2, <1>3

\* A single statement: it opens no block, and mixes whoever is in one.
LEMMA ExecuteAloneInv ==
  ASSUME Inv, NEW u \in Singles, ExecuteAlone(u), UNCHANGED serverVars
  PROVE  Inv'
<1> DEFINE stmt == Write(u, made[u] + 1)
<1>1. PICK answer \in Answers : Exchange(u, stmt, answer)
  BY DEF ExecuteAlone
<1>2. /\ made' = [made EXCEPT ![u] = @ + 1] /\ made[u] < MaxWrites
      /\ UNCHANGED <<at, issued, inside>>
  BY DEF ExecuteAlone
<1>3. /\ made[u] \in Nat /\ made[u] + 1 \in 1..MaxWrites /\ u \in Users
      /\ made' \in [Users -> Nat] /\ made' \in [Users -> 0..MaxWrites]
      /\ made'[u] = made[u] + 1
      /\ \A v \in Users : made[v] <= made'[v]
  BY <1>2, AppTypes, BackendSessionAssumption
<1>4. /\ stmt \in StatementType /\ stmt.op = "write"
      /\ stmt.writes = {[by |-> u, n |-> made[u] + 1]}
  BY <1>3, Statements
<1> HIDE DEF stmt
<1>5. DatabaseTypeOK'
  BY <1>1, <1>2, <1>3, <1>4, AppTypes, ExchangeIs DEF Inv, DatabaseTypeOK
<1>6. InTransaction' = InTransaction /\ u \notin InTransaction
  BY <1>2, AppTypes, BackendSessionAssumption DEF InTransaction
<1>7. backend'.block # "none" => backend.block # "none"
  <2>1. CASE open'
    <3>1. backend' = After(backend, stmt)
      BY <1>1, <1>3, <1>4, <2>1, ExchangeIs
    <3>2. QED BY <1>4, <3>1, AppTypes, AfterIs
  <2>2. CASE ~open'
    BY <1>1, <1>3, <1>4, <2>2, ExchangeIs
  <2>3. QED BY <2>1, <2>2
<1>8. \A w \in stmt.writes : w.by = u /\ w.n = made[u] + 1 /\ w.n <= made'[u]
  BY <1>3, <1>4
<1>9. Held' /\ Fresh' /\ Two' /\ (~Catches => Alone')
  BY <1>1, <1>3, <1>4, <1>6, <1>7, <1>8, AppTypes, ExchangeInv
<1>10. \A w \in backend'.pending : w \in backend.pending \/ w.by = u
  BY <1>1, <1>3, <1>4, PendingIs
<1>11. QED BY <1>2, <1>5, <1>9, <1>10, AppInv

\* close(): nothing is open or pending behind it.
LEMMA CloseInv ==
  ASSUME Inv, Close, UNCHANGED serverVars
  PROVE  Inv'
<1>1. /\ open' = FALSE /\ UNCHANGED <<at, issued, made, inside, mixed>>
      /\ backend' \in SessionType
      /\ backend'.block = "none" /\ backend'.pending = {}
      /\ backend'.committed = backend.committed
  BY AppTypes, EndedIs DEF Close
<1>2. DatabaseTypeOK' /\ Proven!Inv'
  BY <1>1, ServerInv DEF Inv, DatabaseTypeOK
<1>3. Held' /\ Answerable' /\ Fresh'
  BY <1>1 DEF Inv, Held, Answerable, Fresh, serverVars
<1>4. Two' /\ Settled' /\ Alone'
  BY <1>1 DEF Inv, Two, Settled, Alone, InTransaction, serverVars
<1>5. QED BY <1>2, <1>3, <1>4 DEF Inv

--------------------------------------------------------------------------------
(***************************************************************************)
(* The clients.                                                             *)
(***************************************************************************)

\* What ends or begins a session touches nothing the session owes.
LEMMA ServerOnlyInv ==
  ASSUME Inv, ServerOnly
  PROVE  Inv'
<1>1. UNCHANGED <<backend, open, at, issued, made, inside, mixed>>
  BY DEF ServerOnly, dbvars
<1>2. DatabaseTypeOK' /\ Proven!Inv'
  BY <1>1, ServerOnlyIs, ServerInv DEF Inv, DatabaseTypeOK
<1>3. Held' /\ Fresh' /\ Two' /\ (~Catches => Alone')
  BY <1>1 DEF Inv, Held, Fresh, Two, Alone, Exact, InTransaction
<1>4. Answerable' /\ Settled'
  BY <1>1, ServerOnlyIs, AppTypes DEF Inv, Answerable, Settled
<1>5. QED BY <1>2, <1>3, <1>4 DEF Inv

\* The statement of a batch, which counts as a write if it is one.
LEMMA ForwardStatement ==
  ASSUME Inv, NEW c \in Conns, Forward(c)
  PROVE  /\ StatementOf(c) \in StatementType
         /\ StatementOf(c).op \in ClientOps
         /\ batch[c].content = StatementOf(c).op
         /\ made' \in [Users -> Nat] /\ made' \in [Users -> 0..MaxWrites]
         /\ \A v \in Users : made[v] <= made'[v]
         /\ \A w \in StatementOf(c).writes :
              w.by = c /\ w.n = made[c] + 1 /\ w.n <= made'[c]
         /\ StatementOf(c).op # "write" => StatementOf(c).writes = {}
<1>1. batch[c].content \in ClientOps
  BY DEF Inv, Proven!Inv, Proven!ServerTypeOK, Proven!Batch
<1>2. c \in Users /\ made \in [Users -> 0..MaxWrites] /\ MaxWrites \in Nat
  BY AppTypes, BackendSessionAssumption
<1>3. CASE batch[c].content = "write"
  <2>1. made[c] < MaxWrites /\ made' = [made EXCEPT ![c] = @ + 1]
    BY <1>3 DEF Forward
  <2>2. made[c] + 1 \in 1..MaxWrites
    BY <1>2, <2>1
  <2>3. StatementOf(c) = Write(c, made[c] + 1)
    BY <1>3 DEF StatementOf
  <2>4. /\ StatementOf(c) \in StatementType /\ StatementOf(c).op = "write"
        /\ StatementOf(c).writes = {[by |-> c, n |-> made[c] + 1]}
    BY <1>2, <2>2, <2>3, Statements
  <2>5. /\ made' \in [Users -> Nat] /\ made' \in [Users -> 0..MaxWrites]
        /\ \A v \in Users : made[v] <= made'[v]
        /\ made'[c] = made[c] + 1
    BY <1>2, <2>1, <2>2
  <2>6. QED BY <1>1, <1>2, <1>3, <2>4, <2>5
<1>4. CASE batch[c].content # "write"
  <2>1. made' = made
    BY <1>4 DEF Forward
  <2>2. StatementOf(c) = Statement(batch[c].content)
    BY <1>4 DEF StatementOf
  <2>3. /\ StatementOf(c) \in StatementType
        /\ StatementOf(c).op = batch[c].content /\ StatementOf(c).writes = {}
    BY <1>1, <1>4, <2>2, Statements DEF ClientOps
  <2>4. QED BY <1>1, <1>2, <2>1, <2>3
<1>5. QED BY <1>3, <1>4

\* A batch: what the reply tells the client is what happened, so a client that
\* believes itself alone in a transaction knows what is pending in it.
LEMMA ForwardInv ==
  ASSUME Inv, NEW c \in Conns, Forward(c)
  PROVE  Inv'
<1> DEFINE stmt == StatementOf(c)
<1>1. PICK answer \in Answers :
        /\ Exchange(c, stmt, answer)
        /\ Server!Forward(c, answer)
        /\ Told(c, answer)
  BY DEF Forward
<1>2. /\ c \in Users /\ c \notin Tasks /\ UNCHANGED at
  BY AppTypes DEF Forward
<1>3. /\ stmt \in StatementType /\ stmt.op \in ClientOps
      /\ made' \in [Users -> Nat] /\ made' \in [Users -> 0..MaxWrites]
      /\ \A v \in Users : made[v] <= made'[v]
      /\ \A w \in stmt.writes :
           w.by = c /\ w.n = made[c] + 1 /\ w.n <= made'[c]
      /\ stmt.op # "write" => stmt.writes = {}
  BY ForwardStatement
<1>4. /\ inside' = CASE answer = "ok" /\ stmt.op = "begin" -> inside \cup {c}
                     [] answer = "ok" /\ stmt.op \in {"commit", "rollback"}
                                                           -> inside \ {c}
                     [] OTHER                              -> inside
      /\ issued' = [issued EXCEPT ![c] =
                      IF answer # "ok" \/ stmt.op \in {"commit", "rollback"} THEN {}
                      ELSE IF c \in inside THEN @ \cup stmt.writes
                      ELSE @]
  BY <1>1 DEF Told
<1>5. session[c] = "exchange" /\ \A d \in Conns : session'[d] =
        IF d = c THEN (IF answer = "dead" THEN "rollback" ELSE "send") ELSE session[d]
  BY <1>1 DEF Inv, Proven!Inv, Proven!ServerTypeOK, Server!Forward, Server!Goto
<1> HIDE DEF stmt
<1>6. /\ inside' \in SUBSET Conns
      /\ inside' \subseteq inside \cup {c} /\ inside \ {c} \subseteq inside'
      /\ issued' \in [Users -> SUBSET Writes]
      /\ \A d \in Conns \ {c} : issued'[d] = issued[d]
  <2>1. stmt.writes \in SUBSET Writes
    BY <1>3 DEF StatementType
  <2>2. inside' \subseteq inside \cup {c} /\ inside \ {c} \subseteq inside'
    BY <1>4
  <2>3. issued' \in [Users -> SUBSET Writes]
    BY <1>4, <2>1, AppTypes
  <2>4. \A d \in Conns \ {c} : issued'[d] = issued[d]
    BY <1>4, AppTypes
  <2>5. QED BY <2>2, <2>3, <2>4, AppTypes
<1>7. DatabaseTypeOK'
  BY <1>1, <1>2, <1>3, <1>6, AppTypes, ExchangeIs DEF Inv, DatabaseTypeOK
<1>8. Proven!Inv'
  BY <1>1, SameActions, ServerInv DEF Inv, Proven!ServerNext
<1>9. /\ InTransaction' \subseteq InTransaction \cup {c}
      /\ InTransaction \ {c} \subseteq InTransaction'
      /\ c \in InTransaction <=> c \in inside
      /\ c \in InTransaction' <=> c \in inside'
  BY <1>2, <1>6 DEF InTransaction
<1>10. Answerable'
  <2>1. \A w \in backend'.pending : w \in backend.pending \/ w.by = c
    BY <1>1, <1>2, <1>3, PendingIs
  <2>2. \A d \in Conns : session[d] \in Owing => session'[d] \in Owing
    BY <1>5 DEF Owing
  <2>3. session'[c] \in Owing
    BY <1>5 DEF Owing
  <2>4. \A d \in inside' : d = c \/ d \in inside
    BY <1>6
  <2>5. QED BY <2>1, <2>2, <2>3, <2>4, AppTypes DEF Inv, Answerable
<1>11. c \notin inside' => issued'[c] = {}
  <2>1. CASE answer # "ok" \/ stmt.op \in {"commit", "rollback"}
    BY <1>2, <1>4, <2>1, AppTypes
  <2>2. CASE ~ (answer # "ok" \/ stmt.op \in {"commit", "rollback"})
    <3>1. c \notin inside' => c \notin inside
      BY <1>4, <2>2
    <3>2. c \notin inside => issued[c] = {}
      BY <1>5 DEF Inv, Settled
    <3>3. QED BY <1>2, <1>4, <2>2, <3>1, <3>2, AppTypes
  <2>3. QED BY <2>1, <2>2
<1>12. Settled'
  <2> SUFFICES ASSUME NEW d \in Conns \ inside', session'[d] \notin {"cancel", "over"}
               PROVE  issued'[d] = {}
    BY DEF Settled
  <2>1. CASE d = c
    BY <1>11, <2>1
  <2>2. CASE d # c
    BY <1>5, <1>6, <2>2 DEF Inv, Settled
  <2>3. QED BY <2>1, <2>2
<1>13. ASSUME backend'.block # "none", c \notin inside'
       PROVE  backend.block # "none" /\ c \notin inside
  <2>1. /\ open' /\ backend' = After(backend, stmt)
        /\ answer = (IF Errs(backend, stmt) THEN "error" ELSE "ok")
    BY <1>1, <1>2, <1>3, <1>13, ExchangeIs
  <2>2. stmt.op \notin {"commit", "rollback"}
    <3>1. stmt.op # "commit"
      BY <1>3, <1>13, <2>1, AppTypes, AfterIs
    <3>2. stmt.op = "rollback" => After(backend, stmt) = Ended(backend)
      BY DEF After
    <3>3. QED BY <1>13, <2>1, <3>1, <3>2, AppTypes, EndedIs
  <2>3. c \notin inside
    BY <1>4, <1>13, <2>2
  <2>4. stmt.op = "begin" => backend.block # "none"
    BY <1>4, <1>13, <2>1 DEF Errs
  <2>5. stmt.op = "write" => backend.block # "none"
    BY <1>3, <1>13, <2>1, AppTypes, AfterIs
  <2>6. stmt.op = "fail" => backend.block # "none"
    BY <1>3, <1>13, <2>1, AppTypes, AfterIs
  <2>7. QED BY <1>3, <2>2, <2>3, <2>4, <2>5, <2>6 DEF ClientOps
<1>14. ASSUME open', ~Catches, c \in inside', c \notin mixed' PROVE Exact(c)'
  <2>1. /\ backend' = After(backend, stmt)
        /\ answer = (IF Errs(backend, stmt) THEN "error" ELSE "ok")
    BY <1>1, <1>2, <1>3, <1>14, ExchangeIs
  <2>2. CASE c \notin inside
    <3>1. answer = "ok" /\ stmt.op = "begin" /\ issued[c] = {}
      BY <1>4, <1>5, <1>14, <2>2 DEF Inv, Settled
    <3>2. backend.block = "none"
      BY <1>1, <1>2, <1>3, <1>9, <1>14, <2>2, Unmixed
    <3>3. backend'.block = "open" /\ issued'[c] = {}
      BY <1>2, <1>3, <1>4, <2>1, <2>2, <3>1, <3>2, AppTypes, AfterIs
    <3>4. QED BY <3>3 DEF Exact
  <2>3. CASE c \in inside
    <3>1. Exact(c)
      BY <1>1, <1>2, <1>3, <1>9, <1>14, <2>3, Unmixed
    <3>2. /\ issued[c] \cap backend.committed = {}
          /\ \/ backend.block = "open" /\ issued[c] \subseteq backend.pending
             \/ backend.block = "failed" /\ issued[c] = {}
      BY <1>2, <3>1 DEF Exact
    <3>3. CASE answer = "ok"
      <4>1. stmt.op \in {"begin", "write"} /\ backend.block = "open"
        BY <1>3, <1>4, <1>14, <2>1, <3>2, <3>3 DEF ClientOps, Errs
      <4>2. /\ backend'.block = "open" /\ backend'.committed = backend.committed
            /\ backend'.pending = backend.pending \cup stmt.writes
        <5>1. CASE stmt.op = "begin"
          BY <1>3, <2>1, <4>1, <5>1, AppTypes, AfterIs
        <5>2. CASE stmt.op = "write"
          BY <1>3, <2>1, <4>1, <5>2, AppTypes, AfterIs
        <5>3. QED BY <4>1, <5>1, <5>2
      <4>3. issued'[c] = issued[c] \cup stmt.writes
        BY <1>2, <1>4, <2>3, <3>3, <4>1, AppTypes
      <4>4. stmt.writes \cap backend.committed = {}
        <5> SUFFICES ASSUME NEW w \in stmt.writes, w \in backend.committed
                     PROVE  FALSE
          OBVIOUS
        <5>1. w.by = c /\ w.n = made[c] + 1
          BY <1>3
        <5>2. w.n <= made[w.by]
          BY DEF Inv, Fresh
        <5>3. QED BY <1>2, <5>1, <5>2, AppTypes
      <4>5. QED BY <3>2, <4>1, <4>2, <4>3, <4>4 DEF Exact
    <3>4. CASE answer # "ok"
      <4>1. issued'[c] = {}
        BY <1>2, <1>4, <3>4, AppTypes
      <4>2. \/ stmt.op = "fail"
            \/ backend.block = "failed" /\ stmt.op \in {"begin", "write"}
        <5>1. Errs(backend, stmt)
          BY <2>1, <3>4
        <5>2. stmt.op # "refused"
          BY <1>3 DEF ClientOps
        <5>3. QED BY <5>1, <5>2 DEF Errs
      <4>3. backend'.block = "failed"
        <5>1. CASE stmt.op = "fail"
          BY <1>3, <2>1, <3>2, <5>1, AppTypes, AfterIs
        <5>2. CASE stmt.op = "begin" /\ backend.block = "failed"
          BY <1>3, <2>1, <5>2, AppTypes, AfterIs
        <5>3. CASE stmt.op = "write" /\ backend.block = "failed"
          BY <1>3, <2>1, <5>3, AppTypes, AfterIs
        <5>4. QED BY <4>2, <5>1, <5>2, <5>3
      <4>4. QED BY <4>1, <4>3 DEF Exact
    <3>5. QED BY <3>3, <3>4
  <2>4. QED BY <2>2, <2>3
<1>15. Held' /\ Fresh' /\ Two' /\ (~Catches => Alone')
  BY <1>1, <1>2, <1>3, <1>9, <1>13, <1>14, AppTypes, ExchangeInv
<1>16. QED BY <1>7, <1>8, <1>10, <1>12, <1>15 DEF Inv

\* The ROLLBACK of a session that ends leaves nothing pending, whoever's.
LEMMA CleanUpInv ==
  ASSUME Inv, NEW c \in Conns, CleanUp(c)
  PROVE  Inv'
<1> DEFINE stmt == Statement("rollback")
<1>1. PICK answer \in Answers : Exchange(c, stmt, answer)
  BY DEF CleanUp
<1>2. /\ Server!CleanUp(c) /\ inside' = inside \ {c}
      /\ UNCHANGED <<at, issued, made>>
  BY DEF CleanUp
<1>3. /\ c \in Users /\ c \notin Tasks
      /\ stmt \in StatementType /\ stmt.op = "rollback" /\ stmt.writes = {}
  BY AppTypes, Statements
<1> HIDE DEF stmt
<1>4. DatabaseTypeOK'
  BY <1>1, <1>2, <1>3, AppTypes, ExchangeIs DEF Inv, DatabaseTypeOK
<1>5. Proven!Inv'
  BY <1>2, SameActions, ServerInv DEF Inv, Proven!ServerNext
<1>6. /\ InTransaction' \subseteq InTransaction \cup {c}
      /\ InTransaction \ {c} \subseteq InTransaction'
      /\ c \notin InTransaction'
  BY <1>2, <1>3 DEF InTransaction
<1>7. backend'.block = "none" /\ backend'.pending = {}
  <2>1. CASE open'
    <3>1. backend' = After(backend, stmt)
      BY <1>1, <1>3, <2>1, ExchangeIs
    <3>2. After(backend, stmt) = Ended(backend)
      BY <1>3 DEF After
    <3>3. QED BY <3>1, <3>2, AppTypes, EndedIs
  <2>2. CASE ~open'
    BY <1>1, <1>3, <2>2, ExchangeIs
  <2>3. QED BY <2>1, <2>2
<1>8. session'[c] = "cancel" /\ \A d \in Conns \ {c} : session'[d] = session[d]
  BY <1>2 DEF Inv, Proven!Inv, Proven!ServerTypeOK, Server!CleanUp, Server!Goto
<1>9. Answerable' /\ Settled'
  BY <1>2, <1>7, <1>8 DEF Inv, Answerable, Settled, DatabaseTypeOK
<1>10. Held' /\ Fresh' /\ Two' /\ (~Catches => Alone')
  BY <1>1, <1>2, <1>3, <1>6, <1>7, AppTypes, ExchangeInv
<1>11. QED BY <1>4, <1>5, <1>9, <1>10 DEF Inv

--------------------------------------------------------------------------------
\* A step of the app, of a client or of the server preserves the invariant.
LEMMA NextInv ==
  ASSUME Inv, [Next]_vars
  PROVE  Inv'
<1>1. CASE DatabaseOnly
  <2>1. ASSUME NEW t \in Tasks, TaskStep(t) PROVE Inv'
    BY <1>1, <2>1, BeginInv, BodyStatementInv, BodyThrowsInv, TaskEndsInv
       DEF DatabaseOnly, TaskStep
  <2>2. ASSUME NEW u \in Singles, ExecuteAlone(u) PROVE Inv'
    BY <1>1, <2>2, ExecuteAloneInv DEF DatabaseOnly
  <2>3. CASE Close
    BY <1>1, <2>3, CloseInv DEF DatabaseOnly
  <2>4. QED BY <1>1, <2>1, <2>2, <2>3 DEF DatabaseOnly, DatabaseNext
<1>2. CASE ServerOnly
  BY <1>2, ServerOnlyInv
<1>3. ASSUME NEW c \in Conns, Forward(c) \/ CleanUp(c) PROVE Inv'
  BY <1>3, ForwardInv, CleanUpInv
<1>4. CASE UNCHANGED vars
  <2>1. UNCHANGED <<dbvars, serverVars>>
    BY <1>4 DEF vars
  <2>2. DatabaseTypeOK' /\ Proven!Inv'
    BY <2>1, ServerInv DEF Inv, DatabaseTypeOK, dbvars
  <2>3. Held' /\ Answerable' /\ Fresh' /\ Two' /\ Settled' /\ (~Catches => Alone')
    BY <2>1 DEF Inv, Held, Answerable, Fresh, Two, Settled, Alone, Exact,
                InTransaction, dbvars, serverVars
  <2>4. QED BY <2>2, <2>3 DEF Inv
<1>5. QED BY <1>1, <1>2, <1>3, <1>4 DEF Next

\* The invariant holds always.
LEMMA AlwaysInv == Spec => []Inv
<1>1. Init => Inv
  BY InitInv
<1>2. Inv /\ [Next]_vars => Inv'
  BY NextInv
<1>3. QED BY <1>1, <1>2, PTL DEF Spec

\* The session, the actor and the server keep their types, whoever shares them.
THEOREM SharedTypesAreKept == Spec => []TypeOK
<1>1. Inv => TypeOK
  <2>1. Proven!ServerTypeOK <=> Server!ServerTypeOK
    BY DEF Proven!ServerTypeOK, Server!ServerTypeOK, Proven!Pumping,
           Server!Pumping, Proven!Ending, Server!Ending, Proven!Batch,
           Server!Batch, Proven!AllEndings, Server!AllEndings
  <2>2. QED BY <2>1 DEF Inv, TypeOK, Proven!Inv
<1>2. QED BY <1>1, AlwaysInv, PTL

\* No order of tasks, clients, disconnects, resets and stop() leaves a
\* transaction behind for whoever comes next.
THEOREM NoTransactionIsOrphaned == Spec => []NoOrphanTransaction
<1>1. Inv => NoOrphanTransaction
  BY DEF Inv, DatabaseTypeOK, Held, Answerable, Owing, InTransaction,
         NoOrphanTransaction
<1>2. QED BY <1>1, AlwaysInv, PTL

\* Behind its ROLLBACK nothing of a client is pending any more, and nobody
\* else's COMMIT makes durable what it left.
THEOREM AbandonedWritesAreGone == Spec => []AbandonedIsGone
<1>1. Inv => AbandonedIsGone
  BY DEF Inv, Answerable, Owing, AbandonedIsGone
<1>2. QED BY <1>1, AlwaysInv, PTL

\* COMMIT of a transaction that was its user's alone commits what he issued.
LEMMA CommitIsAtomic ==
  ASSUME Inv, ~Catches, NEW u \in Users, u \notin mixed', NEW answer,
         Exchange(u, Statement("commit"), answer), open',
         u \notin InTransaction => issued[u] = {},
         u \in Tasks => at[u] = "body"
  PROVE  issued[u] \subseteq backend'.committed
<1> DEFINE stmt == Statement("commit")
<1>1. Exchange(u, stmt, answer) /\ stmt \in StatementType /\ stmt.op = "commit"
  BY Statements
<1> HIDE DEF stmt
<1>2. backend' = After(backend, stmt)
  BY <1>1, ExchangeIs
<1>3. backend.pending \subseteq backend'.committed
  <2>1. After(backend, stmt).committed = backend.committed \cup backend.pending
    BY <1>1, AppTypes, AfterIs
  <2>2. QED BY <1>2, <2>1
<1>4. CASE u \notin InTransaction
  BY <1>4
<1>5. CASE u \in InTransaction
  <2>1. Exact(u)
    BY <1>1, <1>5, Unmixed
  <2>2. QED BY <1>3, <2>1 DEF Exact
<1>6. QED BY <1>4, <1>5

\* ROLLBACK of such a transaction leaves none of it.
LEMMA RollbackIsAtomic ==
  ASSUME Inv, ~Catches, NEW u \in Users, u \notin mixed', NEW answer,
         Exchange(u, Statement("rollback"), answer), open',
         u \notin InTransaction => issued[u] = {}
  PROVE  issued[u] \cap backend'.committed = {}
<1> DEFINE stmt == Statement("rollback")
<1>1. Exchange(u, stmt, answer) /\ stmt \in StatementType /\ stmt.op = "rollback"
  BY Statements
<1> HIDE DEF stmt
<1>2. backend' = After(backend, stmt)
  BY <1>1, ExchangeIs
<1>3. backend'.committed = backend.committed
  <2>1. After(backend, stmt) = Ended(backend)
    BY <1>1 DEF After
  <2>2. QED BY <1>2, <2>1, AppTypes, EndedIs
<1>4. CASE u \notin InTransaction
  BY <1>4
<1>5. CASE u \in InTransaction
  <2>1. Exact(u)
    BY <1>1, <1>5, Unmixed
  <2>2. QED BY <1>3, <2>1 DEF Exact
<1>6. QED BY <1>4, <1>5

\* Each step that ends a transaction of one user alone is atomic.
LEMMA StepIsAtomic ==
  ASSUME Inv, ~Catches
  PROVE  AtomicStep
<1>1. ASSUME NEW t \in Tasks \ mixed', Commit(t)
      PROVE  issued[t] \subseteq backend'.committed
  <2>1. Exchange(t, Statement("commit"), "ok") /\ at[t] = "body" /\ t \in Users
    BY <1>1, AppTypes DEF Commit
  <2>2. open'
    BY <2>1, Statements, ExchangeIs
  <2>3. t \in InTransaction
    BY <2>1 DEF InTransaction
  <2>4. QED BY <1>1, <2>1, <2>2, <2>3, CommitIsAtomic
<1>2. ASSUME NEW t \in Tasks \ mixed', CommitThrows(t) \/ Rollback(t), open'
      PROVE  issued[t] \cap backend'.committed = {}
  <2>1. t \in Users /\ t \in InTransaction
    BY <1>2, AppTypes DEF InTransaction, CommitThrows, Rollback
  <2>2. ~Exchange(t, Statement("commit"), "dead")
    BY <1>2, <2>1, Statements, ExchangeIs
  <2>3. \E answer : Exchange(t, Statement("rollback"), answer)
    BY <1>2, <2>2, RefusedIs DEF CommitThrows, Rollback
  <2>4. QED BY <1>2, <2>1, <2>3, RollbackIsAtomic
<1>3. ASSUME NEW c \in Conns \ mixed', Forward(c), batch[c].content = "commit",
             open'
      PROVE  issued[c] \subseteq backend'.committed
  <2>1. /\ StatementOf(c) = Statement("commit")
        /\ \E answer : Exchange(c, StatementOf(c), answer)
    BY <1>3 DEF Forward, StatementOf
  <2>2. session[c] = "exchange"
    BY <1>3 DEF Forward, Server!Forward
  <2>3. c \in Users /\ c \notin Tasks
    BY AppTypes
  <2>4. c \notin InTransaction => issued[c] = {}
    BY <2>2 DEF Inv, Settled, InTransaction
  <2>5. QED BY <1>3, <2>1, <2>3, <2>4, CommitIsAtomic
<1>4. ASSUME NEW c \in Conns \ mixed', CleanUp(c), open'
      PROVE  issued[c] \cap backend'.committed = {}
  <2>1. \E answer : Exchange(c, Statement("rollback"), answer)
    BY <1>4 DEF CleanUp
  <2>2. session[c] = "rollback"
    BY <1>4 DEF CleanUp, Server!CleanUp
  <2>3. c \in Users
    BY AppTypes
  <2>4. c \notin InTransaction => issued[c] = {}
    BY <2>2 DEF Inv, Settled, InTransaction
  <2>5. QED BY <1>4, <2>1, <2>3, <2>4, RollbackIsAtomic
<1>5. QED BY <1>1, <1>2, <1>3, <1>4 DEF AtomicStep

\* Where no body catches an error and carries on, a transaction into which
\* nobody else's statement came is atomic: its COMMIT commits all its writes,
\* its ROLLBACK none, for a withTransaction as for a client.
THEOREM LoneTransactionsAreAtomic == ~Catches => (Spec => AloneIsAtomic)
<1> SUFFICES ASSUME ~Catches PROVE Spec => AloneIsAtomic
  OBVIOUS
<1>1. Inv => AtomicStep
  BY StepIsAtomic
<1>2. QED BY <1>1, AlwaysInv, PTL DEF AloneIsAtomic

\* The server joined to the database is still a server: every step of the two is
\* one of PGliteServer or leaves its state alone.
THEOREM ServerIsImplemented == Spec => Server!ServerSafety
<1>1. Init => Server!ServerInit
  BY DEF Init
<1>2. [Next]_vars => [Server!ServerNext]_(Server!serverVars)
  <2> SUFFICES ASSUME [Next]_vars
               PROVE  Server!ServerNext \/ UNCHANGED Server!serverVars
    OBVIOUS
  <2>1. UNCHANGED serverVars => UNCHANGED Server!serverVars
    BY DEF serverVars, Server!serverVars
  <2>2. CASE DatabaseOnly \/ UNCHANGED vars
    BY <2>1, <2>2 DEF DatabaseOnly, vars
  <2>3. CASE ServerOnly
    BY <2>3 DEF ServerOnly, Server!ServerNext
  <2>4. ASSUME NEW c \in Conns, Forward(c) PROVE Server!ServerNext
    <3>1. PICK answer \in Answers : Server!Forward(c, answer)
      BY <2>4 DEF Forward
    <3>2. Server!Forward(c, IF answer = "dead" THEN "dead" ELSE "ok")
      BY <3>1 DEF Server!Forward
    <3>3. QED BY <3>2 DEF Server!ServerNext, Server!DatabaseStep
  <2>5. ASSUME NEW c \in Conns, CleanUp(c) PROVE Server!ServerNext
    BY <2>5 DEF CleanUp, Server!ServerNext, Server!DatabaseStep
  <2>6. QED BY <2>2, <2>3, <2>4, <2>5 DEF Next
<1>3. QED BY <1>1, <1>2, PTL DEF Spec, Server!ServerSafety

================================================================================
