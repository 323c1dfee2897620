------------------------------- MODULE MCWasiShim -------------------------------
(***************************************************************************)
(* Model checking WasiShim.  Of the three names the last is longer than     *)
(* wasi-libc's buffer; the offsets hold small ones, the largest ones, and   *)
(* pairs whose sum wraps; two of the pointers are at the end of an address  *)
(* space that is all memory.                                                *)
(***************************************************************************)
EXTENDS WasiShim

CONSTANTS a, b, c

DirNames   == {a, b, c}
Lengths    == [n \in DirNames |-> IF n = c THEN 5 ELSE 1]
Appending  == {{}, {"append"}}
ArgStrings == <<2, 1, 3>>
EnvStrings == <<2, 2>>

\* The last call is only looked at in the step that makes it.
View == <<files, dirVars, done, call.op = "init">>
===============================================================================
