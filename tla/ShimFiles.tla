------------------------------- MODULE ShimFiles --------------------------------
(***************************************************************************)
(* The file calls of the WASI shim (native/shim/wasi_shim.c).  Each is one  *)
(* or two host calls on an open file; the shim adds the translation of the  *)
(* guest's flags, rights and offsets and keeps for every slot the flags the *)
(* guest believes it has.  What the host calls do is POSIX.                 *)
(*                                                                         *)
(* Slots 1 and 2, the guest's stdout and stderr, refer to one open file,    *)
(* the log; every other slot has an open file of its own, and several of    *)
(* them may be of the same file.  Offsets and sizes are words of 2 * SignBit  *)
(* values, signed on the host.                                              *)
(***************************************************************************)
EXTENDS Integers, Sequences

CONSTANTS
  FileSlots,     \* the slots the guest opens files on
  Files,         \* names of files
  Cells,         \* what a cell of a file can hold, Hole apart
  FlagSets,      \* the combinations of descriptor flags the guest asks for
  MaxSize,       \* the host's limit on the size of a file
  SignBit,       \* what the sign bit of an offset counts for (2^63)
  Offsets        \* the offsets and lengths the guest passes

FdFlags == {"append", "nonblock", "dsync", "rsync", "sync"}
OFlags  == {"creat", "directory", "excl", "trunc"}
Rights  == {"fd_read", "fd_write"}
AccessModes == {"rdonly", "wronly", "rdwr"}
Ops   == {"init", "open", "close", "read", "write", "pwrite", "seek", "allocate",
          "set_size", "set_flags"}

LogSlots == {1, 2}
Slots    == LogSlots \cup FileSlots
Log      == "log"
Shared   == 1
Opens    == {Shared} \cup FileSlots   \* the open files: the log's, and one a slot
None     == "none"
Hole     == "hole"
Signed(x) == IF x < SignBit THEN x ELSE x - 2 * SignBit

ASSUME ShimFilesAssumption ==
  /\ FileSlots \subseteq Nat \ LogSlots
  /\ {Log, None} \cap Files = {}
  /\ FlagSets \subseteq SUBSET FdFlags
  /\ MaxSize \in Nat /\ SignBit \in Nat /\ MaxSize < SignBit
  /\ Offsets \subseteq 0..(2 * SignBit - 1)

VARIABLES
  exists,        \* the files that exist
  content,       \* the cells of each file
  file,          \* the host's open files, of None where there is none
  fdflags,       \* w->fds[].fdflags
  rights,        \* history: the rights a slot was opened with
  call           \* history: the last call

files == <<exists, content, file, fdflags, rights>>
fileVars == <<files, call>>

Open(s) == IF s \in LogSlots THEN Shared ELSE s
Used(s) == file[Open(s)].of # None
Data(s) == content[file[Open(s)].of]

FilesTypeOK ==
  /\ exists \subseteq Files
  /\ content \in [Files \cup {Log} -> Seq(Cells \cup {Hole})]
  /\ \A f \in Files \cup {Log} :
       /\ Len(content[f]) <= MaxSize
       /\ f \notin exists \cup {Log} => content[f] = <<>>
  /\ file \in [Opens -> [of : exists \cup {Log, None}, pos : 0..MaxSize,
                         flags : SUBSET (AccessModes \cup FdFlags)]]
  /\ fdflags \in [Slots -> SUBSET FdFlags]
  /\ rights \in [Slots -> SUBSET Rights]
  /\ call \in [op : Ops, slot : Slots \cup {0}, end : Nat]

Closed == [of |-> None, pos |-> 0, flags |-> {}]

\* wasi_shim_init: the log is opened write only, with O_APPEND.
FilesInit ==
  /\ exists = {}
  /\ content = [f \in Files \cup {Log} |-> <<>>]
  /\ file = [o \in Opens |->
               IF o = Shared
               THEN [of |-> Log, pos |-> 0, flags |-> {"wronly", "append"}]
               ELSE Closed]
  /\ fdflags = [s \in Slots |-> IF s \in LogSlots THEN {"append"} ELSE {}]
  /\ rights = [s \in Slots |-> IF s \in LogSlots THEN {"fd_write"} ELSE {}]
  /\ call = [op |-> "init", slot |-> 0, end |-> 0]

Calls(op, s, end) == call' = [op |-> op, slot |-> s, end |-> end]

--------------------------------------------------------------------------------
(***************************************************************************)
(* path_open and fd_close.                                                 *)
(***************************************************************************)
FreeSlots == { s \in FileSlots : ~Used(s) }

\* fd_alloc: the lowest free slot.
Alloc == CHOOSE s \in FreeSlots : \A t \in FreeSlots : s <= t

\* Mutant of AccessMode: what the guest did not ask for is allowed as well.
AccessModeAll(r) == "rdwr"

AccessMode(r) ==
  IF r = Rights THEN "rdwr" ELSE IF "fd_write" \in r THEN "wronly" ELSE "rdonly"

\* Mutant of HostFlags: the descriptor's own flags are forgotten.
HostFlagsOfOpen(oflags, fl, r) == {AccessMode(r)} \cup oflags

\* The flags of openat.  Files are no links here: O_NOFOLLOW makes no difference.
HostFlags(oflags, fl, r) ==
  {AccessMode(r)} \cup oflags
    \cup (fl \cap {"append", "nonblock", "dsync"})
    \cup (IF fl \cap {"sync", "rsync"} # {} THEN {"sync"} ELSE {})

\* openat on a regular file or on none.
HostOpens(f, flags) ==
  /\ "directory" \notin flags
  /\ IF f \in exists THEN ~({"creat", "excl"} \subseteq flags)
                       ELSE "creat" \in flags

PathOpen(f, oflags, fl, r) ==
  LET flags == HostFlags(oflags, fl, r)
      s     == Alloc
  IN /\ FreeSlots # {}
     /\ HostOpens(f, flags)
     /\ exists' = exists \cup {f}
     /\ content' = IF "trunc" \in flags
                   THEN [content EXCEPT ![f] = <<>>] ELSE content
     /\ file' = [file EXCEPT ![s] =
                   [of |-> f, pos |-> 0, flags |-> flags \ OFlags]]
     /\ fdflags' = [fdflags EXCEPT ![s] = fl]
     /\ rights' = [rights EXCEPT ![s] = r]
     /\ Calls("open", s, 0)

\* The flags of a slot that is free are never read.
FdClose(s) ==
  /\ s \in FileSlots /\ Used(s)
  /\ file' = [file EXCEPT ![s] = Closed]
  /\ fdflags' = [fdflags EXCEPT ![s] = {}]
  /\ rights' = [rights EXCEPT ![s] = {}]
  /\ Calls("close", s, 0)
  /\ UNCHANGED <<exists, content>>

--------------------------------------------------------------------------------
(***************************************************************************)
(* fd_read, fd_write, fd_pwrite, fd_seek.  fd_pread and fd_tell change      *)
(* nothing.  Calls move one cell.                                           *)
(***************************************************************************)
Readable(s) == file[Open(s)].flags \cap {"rdonly", "rdwr"} # {}
Writable(s) == file[Open(s)].flags \cap {"wronly", "rdwr"} # {}
Position(s) == file[Open(s)].pos
Moves(s, p) == file' = [file EXCEPT ![Open(s)].pos = p]
Puts(s, cs) == content' = [content EXCEPT ![file[Open(s)].of] = cs]

\* cs with v at offset p; what lies between its end and p is a hole.
WriteAt(cs, p, v) ==
  [i \in 1..(IF p < Len(cs) THEN Len(cs) ELSE p + 1) |->
     IF i = p + 1 THEN v ELSE IF i <= Len(cs) THEN cs[i] ELSE Hole]

\* cs cut or extended to n cells.
Resized(cs, n) == [i \in 1..n |-> IF i <= Len(cs) THEN cs[i] ELSE Hole]

FdRead(s) ==
  /\ Used(s) /\ Readable(s) /\ Position(s) < Len(Data(s))
  /\ Moves(s, Position(s) + 1)
  /\ Calls("read", s, 0)
  /\ UNCHANGED <<exists, content, fdflags, rights>>

FdWrite(s, v) ==
  /\ Used(s) /\ Writable(s)
  /\ LET p == IF "append" \in file[Open(s)].flags THEN Len(Data(s))
              ELSE Position(s)
     IN /\ p < MaxSize
        /\ Puts(s, WriteAt(Data(s), p, v))
        /\ Moves(s, p + 1)
  /\ Calls("write", s, 0)
  /\ UNCHANGED <<exists, fdflags, rights>>

\* A host may take O_APPEND to hold for pwrite too, or not.
FdPwrite(s, off, v) ==
  /\ Used(s) /\ Writable(s) /\ Signed(off) >= 0
  /\ \E p \in {Signed(off)} \cup
              (IF "append" \in file[Open(s)].flags THEN {Len(Data(s))} ELSE {}) :
       /\ p < MaxSize
       /\ Puts(s, WriteAt(Data(s), p, v))
  /\ Calls("pwrite", s, 0)
  /\ UNCHANGED <<exists, file, fdflags, rights>>

\* Mutant of FdSeek: a position before the start of the file is taken.
FdSeekAnywhere(s, off, whence) ==
  /\ Used(s)
  /\ LET base == CASE whence = "set" -> 0
                   [] whence = "cur" -> Position(s)
                   [] whence = "end" -> Len(Data(s))
     IN /\ base + Signed(off) <= MaxSize
        /\ Moves(s, base + Signed(off))
  /\ Calls("seek", s, 0)
  /\ UNCHANGED <<exists, content, fdflags, rights>>

\* whence is checked before the host is asked; a position before the start of
\* the file is an error of the host's.
FdSeek(s, off, whence) ==
  /\ Used(s)
  /\ LET base == CASE whence = "set" -> 0
                   [] whence = "cur" -> Position(s)
                   [] whence = "end" -> Len(Data(s))
     IN /\ base + Signed(off) \in 0..MaxSize
        /\ Moves(s, base + Signed(off))
  /\ Calls("seek", s, 0)
  /\ UNCHANGED <<exists, content, fdflags, rights>>

--------------------------------------------------------------------------------
(***************************************************************************)
(* fd_allocate, fd_filestat_set_size and fd_fdstat_set_flags.              *)
(***************************************************************************)

\* Mutant of FdAllocate: the file is set to the size, whatever it has.
FdAllocateSetsSize(s, off, len) ==
  LET want == Signed((off + len) % (2 * SignBit))
  IN /\ Used(s)
     /\ Writable(s) /\ want \in 0..MaxSize /\ Puts(s, Resized(Data(s), want))
     /\ Calls("allocate", s, off + len)
     /\ UNCHANGED <<exists, file, fdflags, rights>>

\* off + len is taken modulo 2^64 and then as a signed size: a range that ends
\* behind 2^63 is a size the file has already.
FdAllocate(s, off, len) ==
  LET want == Signed((off + len) % (2 * SignBit))
  IN /\ Used(s)
     /\ IF Len(Data(s)) < want
        THEN Writable(s) /\ want <= MaxSize /\ Puts(s, Resized(Data(s), want))
        ELSE UNCHANGED content
     /\ Calls("allocate", s, off + len)
     /\ UNCHANGED <<exists, file, fdflags, rights>>

FdSetSize(s, size) ==
  /\ Used(s) /\ Writable(s)
  /\ Signed(size) \in 0..MaxSize
  /\ Puts(s, Resized(Data(s), Signed(size)))
  /\ Calls("set_size", s, 0)
  /\ UNCHANGED <<exists, file, fdflags, rights>>

\* F_SETFL sets O_APPEND and O_NONBLOCK of the open file and no other flag; the
\* slot takes note of all that was asked for.
FdSetFlags(s, fl) ==
  /\ Used(s)
  /\ file' = [file EXCEPT ![Open(s)].flags =
                (@ \ {"append", "nonblock"}) \cup (fl \cap {"append", "nonblock"})]
  /\ fdflags' = [fdflags EXCEPT ![s] = fl]
  /\ Calls("set_flags", s, 0)
  /\ UNCHANGED <<exists, content, rights>>

\* What fd_fdstat_get tells the guest.
Fdstat(s) == fdflags[s]

FilesNext ==
  \/ \E f \in Files, oflags \in SUBSET OFlags, fl \in FlagSets,
        r \in SUBSET Rights \ {{}} : PathOpen(f, oflags, fl, r)
  \/ \E s \in Slots :
       \/ FdClose(s) \/ FdRead(s)
       \/ \E v \in Cells : FdWrite(s, v)
       \/ \E v \in Cells, off \in Offsets : FdPwrite(s, off, v)
       \/ \E off \in Offsets, whence \in {"set", "cur", "end"} :
            FdSeek(s, off, whence)
       \/ \E off, len \in Offsets : FdAllocate(s, off, len)
       \/ \E size \in Offsets : FdSetSize(s, size)
       \/ \E fl \in FlagSets : FdSetFlags(s, fl)

FilesSpec == FilesInit /\ [][FilesNext]_fileVars

--------------------------------------------------------------------------------
IsPrefix(a, b) == Len(a) <= Len(b) /\ SubSeq(b, 1, Len(a)) = a

\* Does the guest see the file as one it only appends to?  The log's two slots
\* share one open file, so for them both must say so.
ReportsAppend(s) ==
  \A t \in Slots : Open(t) = Open(s) => "append" \in Fdstat(t)

AppendStep ==
  LET s == call'.slot
  IN call'.op = "write" /\ ReportsAppend(s) =>
       IsPrefix(Data(s), content'[file[Open(s)].of])

RightsStep ==
  (/\ call'.op \in {"write", "pwrite", "set_size", "allocate"}
   /\ "fd_write" \notin rights[call'.slot])
  => UNCHANGED content

AllocateStep ==
  call'.op = "allocate" =>
    LET s     == call'.slot
        after == content'[file[Open(s)].of]
    IN /\ IsPrefix(Data(s), after)
       /\ call'.end < SignBit => Len(after) >= call'.end

\* A write through a descriptor that fd_fdstat_get reports as appending never
\* touches what the file holds, however it was opened, sought and set since.
AppendsOnlyAppend == [][AppendStep]_fileVars

\* A descriptor opened without FD_WRITE changes no file: not by fd_write or
\* fd_pwrite, and not by a change of size.
RightsHold == [][RightsStep]_fileVars

\* fd_allocate never takes anything away, and when the range it was given ends
\* at a size the host has a number for, the file is at least that long.
AllocateReserves == [][AllocateStep]_fileVars
===============================================================================
