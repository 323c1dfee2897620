----------------------------- MODULE SharedSession -----------------------------
(***************************************************************************)
(* The app's tasks and the clients of the localhost server on the engine's *)
(* one backend session: PGliteDatabase and PGliteServer joined where       *)
(* PGliteServer calls rawExchange.  The actor runs one exchange at a time, *)
(* so an exchange is one step here; everything else interleaves.           *)
(***************************************************************************)
EXTENDS PGliteDatabase, FiniteSets

CONSTANTS NoConn, MaxBatches, MaxStops, Resets

VARIABLES
  listening, stopping, stops, active, session, link, batch, batches, passed

\* A batch carries one statement and ends in Sync or is one simple Query.
ClientOps == {"begin", "write", "fail", "commit", "rollback"}
Complete  == {"complete"}

ASSUME SharedSessionAssumption ==
  /\ NoConn \notin Conns
  /\ MaxBatches \in Nat /\ MaxStops \in Nat
  /\ Resets \in BOOLEAN

Server == INSTANCE PGliteServer WITH Contents <- ClientOps, Endings <- Complete

serverVars == <<listening, stopping, stops, active, session, link, batch,
                batches, passed>>
vars == <<dbvars, serverVars>>

TypeOK ==
  /\ DatabaseTypeOK
  /\ Server!ServerTypeOK

Init ==
  /\ DatabaseInit
  /\ Server!ServerInit

--------------------------------------------------------------------------------
StatementOf(c) ==
  IF batch[c].content = "write" THEN Write(c, made[c] + 1)
                                ELSE Statement(batch[c].content)

\* What the reply tells the client of its transaction and of its writes.  An
\* error inside a transaction tells it that the transaction has failed.
Told(c, answer) ==
  LET stmt == StatementOf(c)
      fine == answer = "ok"
  IN /\ inside' = CASE fine /\ stmt.op = "begin"                -> inside \cup {c}
                    [] fine /\ stmt.op \in {"commit", "rollback"} -> inside \ {c}
                    [] OTHER                                     -> inside
     /\ issued' =
          [issued EXCEPT ![c] =
             IF ~fine \/ stmt.op \in {"commit", "rollback"} THEN {}
             ELSE IF c \in inside THEN @ \cup stmt.writes
             ELSE @]

\* session: rawExchange(batch), on the actor.
Forward(c) ==
  /\ batch[c].content = "write" => made[c] < MaxWrites
  /\ made' = IF batch[c].content = "write" THEN [made EXCEPT ![c] = @ + 1]
                                           ELSE made
  /\ \E answer \in Answers :
       /\ Exchange(c, StatementOf(c), answer)
       /\ Server!Forward(c, answer)
       /\ Told(c, answer)
  /\ UNCHANGED at

\* Mutant of CleanUp: the connection is dropped without a ROLLBACK.
CleanUpNot(c) ==
  /\ Server!CleanUp(c)
  /\ UNCHANGED dbvars

\* Mutant of CleanUp: the transaction of a client that leaves is committed.
CleanUpCommits(c) ==
  /\ Server!CleanUp(c)
  /\ \E answer \in Answers : Exchange(c, Statement("commit"), answer)
  /\ inside' = inside \ {c}
  /\ UNCHANGED <<at, issued, made>>

\* session: try? rawExchange(ROLLBACK), on the actor.
CleanUp(c) ==
  /\ Server!CleanUp(c)
  /\ \E answer \in Answers : Exchange(c, Statement("rollback"), answer)
  /\ inside' = inside \ {c}
  /\ UNCHANGED <<at, issued, made>>

ServerOnly ==
  /\ \/ \E c \in Conns : \/ Server!ClientStep(c)
                         \/ Server!QueueStep(c)
                         \/ Server!SessionStep(c)
     \/ Server!AppStep
  /\ UNCHANGED dbvars

DatabaseOnly == DatabaseNext /\ UNCHANGED serverVars

Next == DatabaseOnly \/ ServerOnly \/ \E c \in Conns : Forward(c) \/ CleanUp(c)

Spec == Init /\ [][Next]_vars
--------------------------------------------------------------------------------
\* A transaction is open only while a withTransaction or the session of a client
\* is there to end it: no order of tasks, clients, disconnects, resets and
\* stop() leaves one behind for whoever comes next.
NoOrphanTransaction ==
  backend.block # "none" =>
    \/ \E t \in Tasks : at[t] # "outside"
    \/ \E c \in Conns : session[c] \in {"read", "exchange", "send", "rollback"}

\* After its ROLLBACK nothing of a client is pending, so nobody else's COMMIT
\* can make what it left behind durable later on.
AbandonedIsGone ==
  \A c \in Conns : session[c] \in {"cancel", "over"} =>
    \A w \in backend.pending : w.by # c

\* A transaction into which nobody else's statement came is atomic.  The writes
\* of a withTransaction that returns, and of a client whose COMMIT is answered,
\* are all committed; those of a withTransaction that throws, and of a client
\* that is gone, never are, unless the engine died in the attempt.
AtomicStep ==
  /\ \A t \in Tasks \ mixed' :
       /\ Commit(t) => issued[t] \subseteq backend'.committed
       /\ (CommitThrows(t) \/ Rollback(t)) /\ open' =>
            issued[t] \cap backend'.committed = {}
  /\ \A c \in Conns \ mixed' :
       /\ Forward(c) /\ batch[c].content = "commit" /\ open' =>
            issued[c] \subseteq backend'.committed
       /\ CleanUp(c) /\ open' => issued[c] \cap backend'.committed = {}

AloneIsAtomic == [][AtomicStep]_vars

\* PGlite.swift:188, "BEGIN / body / COMMIT": when withTransaction returns, the
\* writes of its body are committed, whatever else shares the session.
ReturnedIsCommitted ==
  [][\A t \in Tasks : Commit(t) => issued[t] \subseteq backend'.committed]_vars
================================================================================
