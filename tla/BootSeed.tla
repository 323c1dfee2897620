-------------------------------- MODULE BootSeed ---------------------------------
(***************************************************************************)
(* The start of a database (PGlite.init of Sources/PGliteKit/PGlite.swift): *)
(* the runtime tree is copied to <root>/tmp/pglite, the pristine data       *)
(* directory is extracted to <root>/tmp/pglite/base, and the engine is      *)
(* booted on them.  Both seeds are skipped when their directory is there,   *)
(* both are made file by file where they will stay, and the app may be      *)
(* killed between any two steps, as an app on a phone is.                   *)
(***************************************************************************)
CONSTANTS
  RuntimeFiles,   \* the files of the runtime tree
  DataFiles,      \* the files of a data directory
  Bundled,        \* may there be a pristine archive in the bundle? a set of BOOLEAN
  None            \* a directory that is not there; one that is, is the set of
                  \* the files in it

VARIABLES
  archive,   \* is there a pristine archive? never changed
  app,       \* what the app is doing: "down", "runtime" and "copying", "data"
             \* and "extracting", "open" and "initdb", "running"
  pglite,    \* <root>/tmp/pglite without base
  base       \* <root>/tmp/pglite/base

vars == <<archive, app, pglite, base>>

Init ==
  /\ archive \in Bundled
  /\ app = "down"
  /\ pglite = None
  /\ base = None

Goes(from, to) == app = from /\ app' = to

\* PGlite.init, of a new process or once more in the same one.
Start ==
  /\ Goes("down", "runtime")
  /\ UNCHANGED <<archive, pglite, base>>

\* seedRuntimeFS returns if the target exists; copyItem makes it otherwise.
SeedRuntimeFS ==
  /\ app = "runtime"
  /\ IF pglite # None
     THEN app' = "data" /\ UNCHANGED pglite
     ELSE app' = "copying" /\ pglite' = {}
  /\ UNCHANGED <<archive, base>>

CopyItem ==
  /\ app = "copying"
  /\ \E f \in RuntimeFiles \ pglite :
       /\ pglite' = pglite \cup {f}
       /\ app' = IF pglite' = RuntimeFiles THEN "data" ELSE "copying"
  /\ UNCHANGED <<archive, base>>

\* seedPristineData returns if base exists, if there is no archive and if the
\* archive cannot be opened; it extracts otherwise.
SeedPristineData ==
  /\ app = "data"
  /\ IF base # None \/ ~archive
     THEN app' = "open" /\ UNCHANGED base
     ELSE \/ app' = "open" /\ UNCHANGED base
          \/ app' = "extracting" /\ base' = {}
  /\ UNCHANGED <<archive, pglite>>

Extract ==
  /\ app = "extracting"
  /\ \E f \in DataFiles \ base :
       /\ base' = base \cup {f}
       /\ app' = IF base' = DataFiles THEN "open" ELSE "extracting"
  /\ UNCHANGED <<archive, pglite>>

\* pgl_open: the engine runs initdb if there is no data directory.
Open ==
  /\ app = "open"
  /\ IF base = None
     THEN app' = "initdb" /\ base' = {}
     ELSE app' = "running" /\ UNCHANGED base
  /\ UNCHANGED <<archive, pglite>>

Initdb ==
  /\ app = "initdb"
  /\ \E f \in DataFiles \ base :
       /\ base' = base \cup {f}
       /\ app' = IF base' = DataFiles THEN "running" ELSE "initdb"
  /\ UNCHANGED <<archive, pglite>>

\* A full disk, an archive that cannot be decoded, an engine that traps: init
\* throws, and leaves behind what is there.  The app is killed.
Stops ==
  /\ app # "down"
  /\ app' = "down"
  /\ UNCHANGED <<archive, pglite, base>>

Next ==
  \/ Start \/ SeedRuntimeFS \/ CopyItem \/ SeedPristineData \/ Extract
  \/ Open \/ Initdb \/ Stops

Spec == Init /\ [][Next]_vars

--------------------------------------------------------------------------------
\* PGlite.swift:33-35 "Prepare `root` (seeding the runtime filesystem - and, when
\* bundled, a pristine pre-initdb'd data directory - from package resources if
\* absent) and boot the engine": the engine is booted on a runtime tree that is
\* whole and on a data directory that is whole or not there.
BootsOnWholeSeed ==
  app = "open" => pglite = RuntimeFiles /\ base \in {None, DataFiles}
===============================================================================
