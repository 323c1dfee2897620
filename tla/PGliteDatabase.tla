---------------------------- MODULE PGliteDatabase -----------------------------
(***************************************************************************)
(* The actor PGliteDatabase and the handle PGlite below it                 *)
(* (Sources/PGliteKit/PGlite.swift).  The actor runs one exchange at a     *)
(* time, but withTransaction gives up the actor while it awaits its body:  *)
(* other tasks run statements of their own between BEGIN and COMMIT.       *)
(***************************************************************************)
EXTENDS BackendSession

CONSTANTS
  Catches,       \* may a body catch a statement's error and carry on?
  Deaths         \* may the engine die, and may the app close the database?

ASSUME PGliteDatabaseAssumption == Catches \in BOOLEAN /\ Deaths \in BOOLEAN

VARIABLES
  backend,       \* the backend session
  open,          \* PGlite.db # nil
  at,            \* where each task stands in withTransaction
  issued,        \* the writes a user made in its current transaction
  made,          \* how many writes a user made so far
  inside,        \* the server's clients that were told they are in one
  mixed          \* the users whose last transaction was not theirs alone

dbvars == <<backend, open, at, issued, made, inside, mixed>>

DatabaseTypeOK ==
  /\ backend \in SessionType
  /\ open \in BOOLEAN
  /\ at \in [Tasks -> {"outside", "body", "throwing"}]
  /\ issued \in [Users -> SUBSET Writes]
  /\ made \in [Users -> 0..MaxWrites]
  /\ inside \subseteq Conns
  /\ mixed \subseteq Users

DatabaseInit ==
  /\ backend = FreshSession
  /\ open = TRUE
  /\ at = [t \in Tasks |-> "outside"]
  /\ issued = [u \in Users |-> {}]
  /\ made = [u \in Users |-> 0]
  /\ inside = {}
  /\ mixed = {}

--------------------------------------------------------------------------------
(***************************************************************************)
(* Whose transaction is it?  A user that exchanges while another one takes *)
(* itself to be in a transaction mixes the two.                            *)
(***************************************************************************)
InTransaction == { t \in Tasks : at[t] # "outside" } \cup inside

Mix(u) ==
  mixed' = CASE InTransaction \ {u} # {} -> mixed \cup InTransaction \cup {u}
             [] InTransaction = {u}      -> mixed
             [] OTHER                    -> mixed \ {u}

(***************************************************************************)
(* PGlite.execWire.  A dead engine may have run the statement or not; the  *)
(* handle is closed behind it, and every later call throws engineDead.     *)
(***************************************************************************)
Exchange(u, stmt, answer) ==
  /\ Mix(u)
  /\ \/ /\ answer = "dead"
        /\ ~open
        /\ UNCHANGED <<backend, open>>
     \/ /\ answer = "dead"
        /\ open
        /\ Deaths
        /\ open' = FALSE
        /\ backend' \in {Lost(backend), Lost(After(backend, stmt))}
     \/ /\ answer = (IF Errs(backend, stmt) THEN "error" ELSE "ok")
        /\ open
        /\ backend' = After(backend, stmt)
        /\ UNCHANGED open

Answers == {"ok", "error", "dead"}

\* Mutant of Begin: the body runs without a BEGIN.
BeginForgotten(t) ==
  /\ at[t] = "outside"
  /\ made[t] < MaxWrites
  /\ at' = [at EXCEPT ![t] = "body"]
  /\ issued' = [issued EXCEPT ![t] = {}]
  /\ UNCHANGED <<backend, open, made, inside, mixed>>

\* execute("BEGIN") throws before the do block: no ROLLBACK follows.  MaxWrites
\* bounds how often a task comes back.
Begin(t) ==
  /\ at[t] = "outside"
  /\ made[t] < MaxWrites
  /\ \E answer \in Answers :
       /\ Exchange(t, Statement("begin"), answer)
       /\ at' = [at EXCEPT ![t] = IF answer = "ok" THEN "body" ELSE "outside"]
  /\ issued' = [issued EXCEPT ![t] = {}]
  /\ UNCHANGED <<made, inside>>

\* A statement of the body.  The body throws on, or catches, what it throws.
BodyStatement(t) ==
  /\ at[t] = "body"
  /\ made[t] < MaxWrites
  /\ made' = [made EXCEPT ![t] = @ + 1]
  /\ \E stmt \in {Write(t, made[t] + 1), Statement("fail")}, answer \in Answers :
       /\ Exchange(t, stmt, answer)
       /\ IF answer = "ok"
          THEN /\ issued' = [issued EXCEPT ![t] = @ \cup stmt.writes]
               /\ UNCHANGED at
          ELSE /\ UNCHANGED issued
               /\ \/ at' = [at EXCEPT ![t] = "throwing"]
                  \/ Catches /\ UNCHANGED at
  /\ UNCHANGED inside

\* The body throws an error of its own.
BodyThrows(t) ==
  /\ at[t] = "body"
  /\ at' = [at EXCEPT ![t] = "throwing"]
  /\ UNCHANGED <<backend, open, issued, made, inside, mixed>>

\* The body has returned: COMMIT, whose command tag nobody looks at.
Commit(t) ==
  /\ at[t] = "body"
  /\ Exchange(t, Statement("commit"), "ok")
  /\ at' = [at EXCEPT ![t] = "outside"]
  /\ UNCHANGED <<issued, made, inside>>

\* COMMIT throws: ROLLBACK follows without giving up the actor.
CommitThrows(t) ==
  /\ at[t] = "body"
  /\ \/ Exchange(t, Statement("commit"), "dead")
     \/ /\ open
        /\ backend.block = "open"
        /\ backend' = After(After(backend, Statement("refused")),
                            Statement("rollback"))
        /\ UNCHANGED open
        /\ Mix(t)
  /\ at' = [at EXCEPT ![t] = "outside"]
  /\ UNCHANGED <<issued, made, inside>>

\* Mutant of Rollback: an error leaves withTransaction without ROLLBACK.
RollbackForgotten(t) ==
  /\ at[t] = "throwing"
  /\ at' = [at EXCEPT ![t] = "outside"]
  /\ UNCHANGED <<backend, open, issued, made, inside, mixed>>

\* The body has thrown: ROLLBACK, whose own failure is ignored.
Rollback(t) ==
  /\ at[t] = "throwing"
  /\ \E answer \in Answers : Exchange(t, Statement("rollback"), answer)
  /\ at' = [at EXCEPT ![t] = "outside"]
  /\ UNCHANGED <<issued, made, inside>>

\* A single execute or exec outside of withTransaction.
ExecuteAlone(u) ==
  /\ made[u] < MaxWrites
  /\ made' = [made EXCEPT ![u] = @ + 1]
  /\ \E answer \in Answers : Exchange(u, Write(u, made[u] + 1), answer)
  /\ UNCHANGED <<at, issued, inside>>

\* close(): checkpoint and drop the engine, open transaction and all.
Close ==
  /\ Deaths
  /\ open
  /\ open' = FALSE
  /\ backend' = Lost(backend)
  /\ UNCHANGED <<at, issued, made, inside, mixed>>

TaskStep(t) ==
  \/ Begin(t) \/ BodyStatement(t) \/ BodyThrows(t)
  \/ Commit(t) \/ CommitThrows(t) \/ Rollback(t)

DatabaseNext ==
  \/ \E t \in Tasks : TaskStep(t)
  \/ \E u \in Singles : ExecuteAlone(u)
  \/ Close
================================================================================
