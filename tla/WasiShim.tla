-------------------------------- MODULE WasiShim --------------------------------
(***************************************************************************)
(* The calls of the WASI shim that do not manage descriptors (those are in  *)
(* FdTable), put together: files, one directory and the guest's memory.     *)
(* The three groups share no state, so a behaviour looks at one of them,    *)
(* the one the guest makes its first call of.                               *)
(***************************************************************************)
EXTENDS ShimFiles, ShimDirectory, ShimMemory

vars == <<fileVars, dirVars, done>>

Init == FilesInit /\ DirInit /\ MemInit

FilesFresh == call.op = "init"
DirFresh   == loop = "closed" /\ dir = <<>>
MemFresh   == done = Nothing

UsesFiles  == DirFresh /\ MemFresh /\ FilesNext /\ UNCHANGED <<dirVars, done>>
UsesDir    == FilesFresh /\ MemFresh /\ DirNext /\ UNCHANGED <<fileVars, done>>
UsesMemory == FilesFresh /\ DirFresh /\ MemNext /\ UNCHANGED <<fileVars, dirVars>>

Next == UsesFiles \/ UsesDir \/ UsesMemory

\* A guest that has begun a listing finishes it: it is one thread, and the loop
\* waits for nothing.
Spec == Init /\ [][Next]_vars
             /\ WF_vars(Listing /\ ListingStep /\ UNCHANGED <<fileVars, done>>)
===============================================================================
