----------------------------- MODULE ShimDirectory ------------------------------
(***************************************************************************)
(* The directory calls of the WASI shim (native/shim/wasi_shim.c): the      *)
(* path calls that add, remove and rename entries, and fd_readdir, which    *)
(* opens and rewinds the host directory anew each time, skips as many       *)
(* entries as the cookie says and copies what fits.                         *)
(*                                                                         *)
(* The guest lists a directory with wasi-libc's readdir, which refills a    *)
(* buffer through fd_readdir and hands out one entry at a time; between two *)
(* entries it may change the directory it lists, as the engine does when it *)
(* clears a directory of temporary files.  A new entry may come anywhere in *)
(* the host's order, the others keep theirs.                                *)
(***************************************************************************)
EXTENDS Integers, Sequences

CONSTANTS
  Names,         \* names of entries
  NameLen,       \* the length of each name
  HeadLen,       \* the length of a dirent without its name (24)
  BufLen,        \* the size wasi-libc's buffer starts with (4096)
  MaxEntries,    \* bound on the entries a directory starts with
  MaxChanges     \* bound on the changes made during a listing

ASSUME ShimDirectoryAssumption ==
  /\ NameLen \in [Names -> Nat \ {0}]
  /\ HeadLen \in Nat \ {0}
  /\ BufLen \in Nat \ {0} /\ BufLen >= HeadLen
  /\ MaxEntries \in Nat /\ MaxChanges \in Nat

Kinds == {"reg", "dir", "link"}

VARIABLES
  dir,           \* the host directory, in the order readdir yields
  loop,          \* "closed", "refill" and "entries" while listing, "ended"
  cookie,        \* the d_next of the last entry handed out
  batch,         \* what is left in the buffer: whole entries with their cookies
  cut,           \* the length the entry at the end needs if it was cut, or 0
  full,          \* did fd_readdir fill the buffer?
  bufLen,        \* the buffer's size now
  seen,          \* the names handed out
  start,         \* history: the names when the listing began
  came, left,    \* history: the names added and removed since
  changes        \* history: how many changes that were

listing == <<loop, cookie, batch, cut, full, bufLen, seen, start>>
dirVars == <<dir, listing, came, left, changes>>

NamesOf(d) == { d[i].name : i \in 1..Len(d) }

DirTypeOK ==
  /\ dir \in Seq([name : Names, kind : Kinds])
  /\ loop \in {"closed", "refill", "entries", "ended"}
  /\ cookie \in Nat
  /\ batch \in Seq([name : Names, next : Nat])
  /\ cut \in Nat
  /\ full \in BOOLEAN
  /\ bufLen \in Nat
  /\ seen \in Seq(Names)
  /\ start \subseteq Names /\ came \subseteq Names /\ left \subseteq Names
  /\ changes \in 0..MaxChanges
  \* a name is in a directory once
  /\ \A i, j \in 1..Len(dir) : dir[i].name = dir[j].name => i = j

\* The entries a directory starts with.
InitDirs ==
  { d \in UNION { [1..n -> [name : Names, kind : {"reg"}]] : n \in 0..MaxEntries } :
      \A i, j \in 1..Len(d) : d[i].name = d[j].name => i = j }

DirInit ==
  /\ dir \in InitDirs
  /\ loop = "closed"
  /\ cookie = 0 /\ batch = <<>> /\ cut = 0 /\ full = FALSE
  /\ bufLen = BufLen
  /\ seen = <<>> /\ start = {} /\ came = {} /\ left = {}
  /\ changes = 0

--------------------------------------------------------------------------------
(***************************************************************************)
(* path_open with O_CREAT, path_create_directory, path_symlink,            *)
(* path_unlink_file, path_remove_directory and path_rename.  A call that    *)
(* fails on the host changes nothing and is left out.                       *)
(***************************************************************************)
PlaceOf(d, n) == CHOOSE i \in 1..Len(d) : d[i].name = n
KindOf(n)     == dir[PlaceOf(dir, n)].kind
Without(d, n) ==
  IF n \in NamesOf(d)
  THEN SubSeq(d, 1, PlaceOf(d, n) - 1) \o SubSeq(d, PlaceOf(d, n) + 1, Len(d))
  ELSE d
InsertAt(d, i, e) == SubSeq(d, 1, i) \o <<e>> \o SubSeq(d, i + 1, Len(d))

Listing == loop \in {"refill", "entries"}

\* Changes are looked at while a listing is under way: before it, they lead to
\* another initial directory.
Changes(added, removed) ==
  /\ Listing /\ changes < MaxChanges
  /\ changes' = changes + 1
  /\ came' = came \cup added
  /\ left' = left \cup removed
  /\ UNCHANGED listing

Creates(n, kind) ==
  /\ n \notin NamesOf(dir)
  /\ \E i \in 0..Len(dir) :
       dir' = InsertAt(dir, i, [name |-> n, kind |-> kind])
  /\ Changes({n}, {})

OpenCreates(n)     == Creates(n, "reg")
CreateDirectory(n) == Creates(n, "dir")
Symlink(n)         == Creates(n, "link")

UnlinkFile(n) ==
  /\ n \in NamesOf(dir) /\ KindOf(n) # "dir"
  /\ dir' = Without(dir, n)
  /\ Changes({}, {n})

\* unlinkat(AT_REMOVEDIR): the directory is empty.
RemoveDirectory(n) ==
  /\ n \in NamesOf(dir) /\ KindOf(n) = "dir"
  /\ dir' = Without(dir, n)
  /\ Changes({}, {n})

\* Mutant of Rename: the entry that had the new name stays.
RenameKeepsBoth(old, new) ==
  /\ old \in NamesOf(dir) /\ old # new
  /\ LET rest == Without(dir, old)
     IN \E i \in 0..Len(rest) :
          dir' = InsertAt(rest, i, [name |-> new, kind |-> KindOf(old)])
  /\ Changes({new}, {old})

\* renameat: an entry of the new name is replaced, where it was or elsewhere.
Rename(old, new) ==
  /\ old \in NamesOf(dir) /\ old # new
  /\ new \in NamesOf(dir) => (KindOf(old) = "dir") = (KindOf(new) = "dir")
  /\ LET rest == Without(Without(dir, old), new)
     IN \E i \in 0..Len(rest) :
          dir' = InsertAt(rest, i, [name |-> new, kind |-> KindOf(old)])
  /\ Changes({new}, {old} \cup ({new} \cap NamesOf(dir)))

--------------------------------------------------------------------------------
(***************************************************************************)
(* fd_readdir(fd, buf, len, cookie, &used).                                *)
(***************************************************************************)
Size(n) == HeadLen + NameLen[n]

\* What the entries behind the c-th, up to the i-th, take.
Taken(c) ==
  LET u[i \in 0..Len(dir)] ==
        IF i <= c THEN 0 ELSE u[i - 1] + Size(dir[i].name)
  IN u

\* Mutant of Skipped: the cookie is the number of the last entry read.
SkippedFromLast(c) ==
  IF c = 0 THEN 0 ELSE IF c - 1 <= Len(dir) THEN c - 1 ELSE Len(dir)

\* rewinddir, and readdir until `cookie' entries have gone by or none is left.
Skipped(c) == IF c <= Len(dir) THEN c ELSE Len(dir)

\* The entries that are copied whole.
Whole(c, len) ==
  LET first == Skipped(c)
      u     == Taken(first)
      fit   == { i \in first..Len(dir) : u[i] <= len }
  IN CHOOSE i \in fit : \A j \in fit : j <= i

\* The first entry that does not fit is cut, in its head or in its name; with
\* less than a head the guest cannot tell how long it is.
Readdir ==
  LET last  == Whole(cookie, bufLen)
      first == Skipped(cookie)
      used  == Taken(first)[last]
      more  == last < Len(dir)
  IN /\ batch' = [i \in 1..(last - first) |->
                   [name |-> dir[first + i].name, next |-> cookie + i]]
     /\ full' = (more \/ used = bufLen)
     /\ cut' = IF more /\ bufLen - used >= HeadLen
               THEN Size(dir[last + 1].name) ELSE 0

--------------------------------------------------------------------------------
(***************************************************************************)
(* opendir and readdir of wasi-libc.                                       *)
(***************************************************************************)
OpenDir ==
  /\ loop = "closed"
  /\ loop' = "refill"
  /\ full' = TRUE
  /\ start' = NamesOf(dir)
  /\ UNCHANGED <<dir, cookie, batch, cut, bufLen, seen, came, left, changes>>

\* fd_readdir, or the end: a buffer that was not filled was the last.
Refill ==
  /\ loop = "refill"
  /\ IF full
     THEN /\ Readdir
          /\ loop' = "entries"
          /\ UNCHANGED <<cookie, bufLen>>
     ELSE /\ loop' = "ended"
          /\ UNCHANGED <<cookie, batch, cut, full, bufLen>>
  /\ UNCHANGED <<dir, seen, start, came, left, changes>>

\* The next entry of the buffer.
NextEntry ==
  /\ loop = "entries" /\ batch # <<>>
  /\ seen' = Append(seen, batch[1].name)
  /\ cookie' = batch[1].next
  /\ batch' = Tail(batch)
  /\ UNCHANGED <<dir, loop, cut, full, bufLen, start, came, left, changes>>

\* Mutant of EndOfBuffer: an entry that is cut never gets more room.
EndOfBufferKeepsSize ==
  /\ loop = "entries" /\ batch = <<>>
  /\ loop' = "refill"
  /\ UNCHANGED <<dir, cookie, batch, cut, full, bufLen, seen, start, came, left,
                 changes>>

\* At the end of the buffer it is refilled, made larger first if the entry that
\* was cut needs more room than it has.
EndOfBuffer ==
  /\ loop = "entries" /\ batch = <<>>
  /\ loop' = "refill"
  /\ bufLen' = IF cut > bufLen THEN cut ELSE bufLen
  /\ UNCHANGED <<dir, cookie, batch, cut, full, seen, start, came, left, changes>>

ListingStep == OpenDir \/ Refill \/ NextEntry \/ EndOfBuffer

DirNext ==
  \/ \E n \in Names : \/ OpenCreates(n) \/ CreateDirectory(n) \/ Symlink(n)
                      \/ UnlinkFile(n) \/ RemoveDirectory(n)
  \/ \E old, new \in Names : Rename(old, new)
  \/ ListingStep

DirSpec == DirInit /\ [][DirNext]_dirVars /\ WF_dirVars(ListingStep)

--------------------------------------------------------------------------------
InOrder(d) == [i \in 1..Len(d) |-> d[i].name]
Twice(s)   == { n \in Names : \E i, j \in 1..Len(s) : i # j /\ s[i] = n /\ s[j] = n }
Listed     == { seen[i] : i \in 1..Len(seen) }

\* A listing, however many calls it takes and wherever the buffer cuts it,
\* yields a directory that does not change exactly, in the host's order.  If
\* entries only come it misses none of those that were there, if entries only
\* go it yields none twice, and it never makes one up.
ListingIsFaithful ==
  loop = "ended" =>
    /\ came = {} /\ left = {} => seen = InOrder(dir)
    /\ left = {} => start \subseteq Listed
    /\ came = {} => Twice(seen) = {}
    /\ Listed \subseteq start \cup came

\* A listing comes to its end, a name that is longer than the buffer included.
ListingEnds == loop = "refill" ~> loop = "ended"
===============================================================================
