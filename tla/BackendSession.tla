---------------------------- MODULE BackendSession -----------------------------
(***************************************************************************)
(* The engine's single backend session, as far as its users can tell its   *)
(* states apart: the transaction block it is in, the writes made in it,    *)
(* and the writes that are committed.  The engine is generated code; these *)
(* operators model the PostgreSQL behaviour that PGliteDatabase and        *)
(* PGliteServer rely on.                                                   *)
(***************************************************************************)
EXTENDS Integers

CONSTANTS
  Tasks,         \* tasks of the app that run withTransaction
  Singles,       \* tasks of the app that run single statements
  Conns,         \* connections of the localhost server
  MaxWrites      \* bound on the writes each of them makes

ASSUME BackendSessionAssumption ==
  /\ MaxWrites \in Nat
  /\ Tasks \cap Singles = {} /\ Tasks \cap Conns = {} /\ Singles \cap Conns = {}

Users  == Tasks \cup Singles \cup Conns
Writes == [by : Users, n : 1..MaxWrites]

\* Only an open transaction has writes that are not committed.
SessionType ==
  { s \in [block : {"none", "open", "failed"}, pending : SUBSET Writes,
           committed : SUBSET Writes] : s.pending # {} => s.block = "open" }

FreshSession == [block |-> "none", pending |-> {}, committed |-> {}]

\* One exchange carries one statement.  "fail" is a statement that errors,
\* "refused" a COMMIT that does (a deferred constraint).
StatementType == [op : {"begin", "write", "fail", "commit", "refused", "rollback"},
                  writes : SUBSET Writes]

Statement(op) == [op |-> op, writes |-> {}]
Write(u, n)   == [op |-> "write", writes |-> {[by |-> u, n |-> n]}]

Failed(s)    == [s EXCEPT !.block = "failed", !.pending = {}]

Ended(s)     == [s EXCEPT !.block = "none", !.pending = {}]
Committed(s) == [Ended(s) EXCEPT !.committed = s.committed \cup s.pending]

(***************************************************************************)
(* BEGIN inside a transaction only warns; COMMIT and ROLLBACK outside of   *)
(* one do too.  COMMIT of a failed transaction rolls back, and says so     *)
(* only in its command tag.                                                *)
(***************************************************************************)
After(s, stmt) ==
  CASE stmt.op = "begin" /\ s.block = "none"  -> [s EXCEPT !.block = "open"]
    [] stmt.op = "write" /\ s.block = "none"  ->
         [s EXCEPT !.committed = @ \cup stmt.writes]
    [] stmt.op = "write" /\ s.block = "open"  ->
         [s EXCEPT !.pending = @ \cup stmt.writes]
    [] stmt.op = "fail" /\ s.block = "open"   -> Failed(s)
    [] stmt.op = "commit"                     -> Committed(s)
    [] stmt.op \in {"refused", "rollback"}    -> Ended(s)
    [] OTHER                                  -> s

\* Does the reply carry an ErrorResponse?
Errs(s, stmt) ==
  \/ stmt.op \in {"fail", "refused"}
  \/ s.block = "failed" /\ stmt.op \in {"begin", "write"}

\* Mutant of Lost: the transaction survives the engine.
LostKeeping(s) == [s EXCEPT !.block = "none"]

\* A session whose engine is gone: what was not committed is lost.
Lost(s) == Ended(s)
================================================================================
