---------------------------- MODULE MCSharedSession ----------------------------
(***************************************************************************)
(* Model checking SharedSession: tasks of the app, one that runs single    *)
(* statements, and clients of the server.                                  *)
(***************************************************************************)
EXTENDS SharedSession, TLC

CONSTANTS t1, t2, s1, c1, c2

Nobody    == {}
OneTask   == {t1}
TwoTasks  == {t1, t2}
OneSingle == {s1}
OneConn   == {c1}
TwoConns  == {c1, c2}

ConnSymmetry == Permutations(TwoConns)
================================================================================
