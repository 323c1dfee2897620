---------------------------- MODULE MCPGliteServer -----------------------------
(***************************************************************************)
(* Model checking PGliteServer on its own: two clients, the second of      *)
(* which is refused or comes after the first.                              *)
(***************************************************************************)
EXTENDS PGliteServer

CONSTANTS c1, c2, query

TwoConns   == {c1, c2}
OneContent == {query}
================================================================================
