----------------------------- MODULE WasiShimProofs -----------------------------
(***************************************************************************)
(* What is proved of the shim's file and memory calls.                      *)
(*                                                                         *)
(* Files, for any number of slots, files and cells and for offsets of any   *)
(* width: a descriptor without FD_WRITE changes no file, one that reports   *)
(* O_APPEND only appends, and fd_allocate takes nothing away.  Two facts    *)
(* about a slot and its open file carry this, and both have to hold through *)
(* open, close, set_flags and the sharing of the log: the host writes only  *)
(* through a slot that was opened with FD_WRITE (Granted), and it appends   *)
(* wherever the guest is told so (Reported).                                *)
(*                                                                         *)
(* Memory, for any size of it, any pointers and lengths, and any number of  *)
(* strings, buffers and subscriptions: no call leaves the buffers it was    *)
(* given, the strings fit where the guest was told they do, and a poll      *)
(* reports each descriptor or else the shortest clock.  A call depends on   *)
(* its arguments alone, so there is one lemma a call and no invariant to    *)
(* strengthen; a call that uses one place after the other stays where it    *)
(* belongs if each of its places is in what it was given (InTurnInv).  The  *)
(* arguments that are lists take an induction each, over Upto (the strings  *)
(* or directory entries before one) and Shortest (the clock so far), and    *)
(* Emitted numbers the descriptors without a gap.                           *)
(*                                                                         *)
(* Directories, for any number of entries, names of any length, any buffer  *)
(* and any number of changes: a listing is as faithful as ListingIsFaithful *)
(* says.  The property speaks of a finished listing only; the invariant     *)
(* speaks of the list of all names read so far (Handed) and how far it is   *)
(* into the directory (Reach), one part for each thing that may not happen. *)
(***************************************************************************)
EXTENDS WasiShim, BoundedInduction, FiniteSetTheorems, SequenceTheorems, TLAPS

\* An open file that may be written belongs to slots with the right to.
Granted == \A s \in Slots : Used(s) /\ Writable(s) => "fd_write" \in rights[s]

\* What the guest is told of O_APPEND holds on the host.
Reported ==
  \A s \in Slots :
    Used(s) /\ ReportsAppend(s) => "append" \in file[Open(s)].flags

FilesInv == FilesTypeOK /\ Granted /\ Reported

--------------------------------------------------------------------------------
(***************************************************************************)
(* Slots.                                                                  *)
(***************************************************************************)
\* fd_alloc finds a slot when one is free, and never one of the log's.
LEMMA AllocIsFree ==
  ASSUME FreeSlots # {}
  PROVE  Alloc \in FileSlots /\ ~Used(Alloc)
<1>1. FreeSlots \in SUBSET Nat
  BY ShimFilesAssumption DEF FreeSlots
<1>2. \E s \in FreeSlots : \A t \in FreeSlots : s <= t
  BY <1>1, NatLeast
<1>3. Alloc \in FreeSlots
  BY <1>2 DEF Alloc
<1>4. QED BY <1>3 DEF FreeSlots

\* The log's slots share one open file; any other slot has its own.
LEMMA Sharing ==
  ASSUME NEW s \in Slots, NEW t \in Slots
  PROVE  /\ Open(s) \in Opens
         /\ Open(s) = Open(t) <=> s = t \/ {s, t} \subseteq LogSlots
         /\ s \in FileSlots => Open(s) = s /\ s \notin LogSlots
BY ShimFilesAssumption DEF Slots, LogSlots, Opens, Open, Shared

--------------------------------------------------------------------------------
(***************************************************************************)
(* The cells of a file.                                                    *)
(***************************************************************************)
Values == Cells \cup {Hole}

\* A function on 1..n is a sequence of length n.
LEMMA LenIs ==
  ASSUME NEW S, NEW n \in Nat, NEW q \in [1..n -> S]
  PROVE  q \in Seq(S) /\ Len(q) = n
<1>1. q \in Seq(S)
  BY SeqDef
<1>2. Len(q) \in Nat /\ DOMAIN q = 1..Len(q)
  BY <1>1, LenProperties
<1>3. QED BY <1>1, <1>2

\* IsPrefix, cell by cell.
LEMMA PrefixCells ==
  ASSUME NEW a \in Seq(Values), NEW b \in Seq(Values), Len(a) <= Len(b),
         \A i \in 1..Len(a) : a[i] = b[i]
  PROVE  IsPrefix(a, b)
<1>1. Len(a) \in Nat /\ Len(b) \in Nat
  OBVIOUS
<1>2. \A i \in 1..Len(a) : b[i] \in Values
  BY <1>1
<1>3. /\ SubSeq(b, 1, Len(a)) \in Seq(Values)
      /\ Len(SubSeq(b, 1, Len(a))) = IF 1 <= Len(a) THEN Len(a) - 1 + 1 ELSE 0
      /\ \A i \in 1..(Len(a) - 1 + 1) : SubSeq(b, 1, Len(a))[i] = b[1 + i - 1]
  BY <1>1, <1>2, SubSeqProperties
<1>4. QED BY <1>1, <1>3, SeqEqual DEF IsPrefix

\* A cell that is written at or behind the end leaves the cells before it.
LEMMA WriteAtIs ==
  ASSUME NEW cs \in Seq(Values), NEW p \in Nat, p < MaxSize,
         Len(cs) <= MaxSize, NEW v \in Cells
  PROVE  /\ WriteAt(cs, p, v) \in Seq(Values)
         /\ Len(WriteAt(cs, p, v)) <= MaxSize
         /\ p = Len(cs) => IsPrefix(cs, WriteAt(cs, p, v))
<1> DEFINE n == IF p < Len(cs) THEN Len(cs) ELSE p + 1
           w == WriteAt(cs, p, v)
<1>1. n \in Nat /\ n <= MaxSize
  BY ShimFilesAssumption
<1>2. w = [i \in 1..n |->
             IF i = p + 1 THEN v ELSE IF i <= Len(cs) THEN cs[i] ELSE Hole]
  BY DEF WriteAt
<1>3. \A i \in 1..n : w[i] = IF i = p + 1 THEN v
                             ELSE IF i <= Len(cs) THEN cs[i] ELSE Hole
  BY <1>2
<1>4. w \in [1..n -> Values]
  BY <1>1, <1>2 DEF Values
<1>5. w \in Seq(Values) /\ Len(w) = n
  BY <1>1, <1>4, LenIs
<1>6. ASSUME p = Len(cs) PROVE IsPrefix(cs, w)
  <2>1. Len(cs) <= Len(w) /\ \A i \in 1..Len(cs) : cs[i] = w[i]
    BY <1>3, <1>5, <1>6
  <2>2. QED BY <1>5, <2>1, PrefixCells
<1>7. QED BY <1>1, <1>5, <1>6

\* Resized has the size it is given, and what was there when it grows.
LEMMA ResizedIs ==
  ASSUME NEW cs \in Seq(Values), NEW n \in Nat
  PROVE  /\ Resized(cs, n) \in Seq(Values)
         /\ Len(Resized(cs, n)) = n
         /\ Len(cs) <= n => IsPrefix(cs, Resized(cs, n))
<1> DEFINE r == Resized(cs, n)
<1>1. r = [i \in 1..n |-> IF i <= Len(cs) THEN cs[i] ELSE Hole]
  BY DEF Resized
<1>2. r \in [1..n -> Values]
  BY <1>1 DEF Values
<1>3. r \in Seq(Values) /\ Len(r) = n
  BY <1>2, LenIs
<1>4. ASSUME Len(cs) <= n PROVE IsPrefix(cs, r)
  <2>1. \A i \in 1..Len(cs) : cs[i] = r[i]
    BY <1>1, <1>4
  <2>2. QED BY <1>3, <1>4, <2>1, PrefixCells
<1>5. QED BY <1>3, <1>4

--------------------------------------------------------------------------------
(***************************************************************************)
(* What a call does to the open files and to the contents.                  *)
(***************************************************************************)
Sort == [of : exists \cup {Log, None}, pos : 0..MaxSize,
         flags : SUBSET (AccessModes \cup FdFlags)]

\* The file a slot in use refers to, and its contents.
LEMMA DataIs ==
  ASSUME FilesTypeOK, NEW s \in Slots
  PROVE  /\ Open(s) \in Opens /\ file[Open(s)] \in Sort
         /\ Used(s) => /\ file[Open(s)].of \in exists \cup {Log}
                       /\ Data(s) \in Seq(Values) /\ Len(Data(s)) <= MaxSize
<1>1. Open(s) \in Opens
  BY Sharing
<1>2. file[Open(s)] \in Sort
  BY <1>1 DEF FilesTypeOK, Sort
<1>3. ASSUME Used(s)
      PROVE  file[Open(s)].of \in exists \cup {Log}
  BY <1>2, <1>3 DEF Used, Sort
<1>4. ASSUME Used(s)
      PROVE  Data(s) \in Seq(Values) /\ Len(Data(s)) <= MaxSize
  BY <1>3, <1>4 DEF FilesTypeOK, Data, Values
<1>5. QED BY <1>1, <1>2, <1>3, <1>4

\* A call that moves a position leaves the rest of the open files alone.
LEMMA Moved ==
  ASSUME FilesTypeOK, NEW s \in Slots, NEW p \in 0..MaxSize, Moves(s, p),
         exists' = exists
  PROVE  /\ file' \in [Opens -> Sort']
         /\ \A o \in Opens : /\ file'[o].of = file[o].of
                             /\ file'[o].flags = file[o].flags
<1>1. Open(s) \in Opens /\ file \in [Opens -> Sort]
  BY DataIs DEF FilesTypeOK, Sort
<1>2. file' = [file EXCEPT ![Open(s)].pos = p]
  BY DEF Moves
<1>3. QED BY <1>1, <1>2 DEF Sort

\* A call that puts cells in a file leaves the other files alone.
LEMMA Put ==
  ASSUME FilesTypeOK, NEW s \in Slots, Used(s), exists' = exists,
         NEW cs \in Seq(Values), Len(cs) <= MaxSize, Puts(s, cs)
  PROVE  /\ content' \in [Files \cup {Log} -> Seq(Values)]
         /\ \A f \in Files \cup {Log} :
              /\ Len(content'[f]) <= MaxSize
              /\ f \notin exists' \cup {Log} => content'[f] = <<>>
         /\ content'[file[Open(s)].of] = cs
<1>1. /\ file[Open(s)].of \in exists \cup {Log}
      /\ exists \subseteq Files
      /\ content \in [Files \cup {Log} -> Seq(Values)]
  BY DataIs DEF FilesTypeOK, Values
<1>2. content' = [content EXCEPT ![file[Open(s)].of] = cs]
  BY DEF Puts
<1>3. QED BY <1>1, <1>2 DEF FilesTypeOK

\* A call that changes no flags and no rights keeps Granted and Reported.
LEMMA FlagsKept ==
  ASSUME FilesTypeOK, Granted, Reported, UNCHANGED <<fdflags, rights>>,
         \A o \in Opens : /\ file'[o].of = file[o].of
                          /\ file'[o].flags = file[o].flags
  PROVE  Granted' /\ Reported'
<1>1. \A s \in Slots : Open(s) \in Opens
  BY Sharing
<1>2. \A s \in Slots : /\ Used(s)' <=> Used(s)
                       /\ Writable(s)' <=> Writable(s)
                       /\ ReportsAppend(s)' <=> ReportsAppend(s)
  BY <1>1 DEF Used, Writable, ReportsAppend, Fdstat
<1>3. QED BY <1>1, <1>2 DEF Granted, Reported

\* The parts of the type invariant every call but open and close keeps.
LEMMA TypeKept ==
  ASSUME FilesTypeOK, exists' = exists, rights' = rights,
         fdflags' \in [Slots -> SUBSET FdFlags],
         file' \in [Opens -> Sort'],
         content' \in [Files \cup {Log} -> Seq(Values)],
         \A f \in Files \cup {Log} :
           /\ Len(content'[f]) <= MaxSize
           /\ f \notin exists' \cup {Log} => content'[f] = <<>>,
         NEW op \in Ops, NEW s \in Slots, NEW end \in Nat, Calls(op, s, end)
  PROVE  FilesTypeOK'
BY DEF FilesTypeOK, Sort, Values, Calls

--------------------------------------------------------------------------------
(***************************************************************************)
(* The calls.                                                              *)
(***************************************************************************)
LEMMA FilesInitInv == FilesInit => FilesInv
<1> SUFFICES ASSUME FilesInit PROVE FilesInv
  OBVIOUS
<1>1. FilesTypeOK
  <2>1. \A f \in Files \cup {Log} : content[f] = <<>>
    BY DEF FilesInit
  <2>2. file \in [Opens -> Sort]
    BY ShimFilesAssumption DEF FilesInit, Sort, Closed, AccessModes, FdFlags
  <2>3. call \in [op : Ops, slot : Slots \cup {0}, end : Nat]
    BY DEF FilesInit, Ops
  <2>4. QED BY <2>1, <2>2, <2>3, ShimFilesAssumption
               DEF FilesInit, FilesTypeOK, Sort, FdFlags, Rights, Slots,
                   LogSlots
<1>2. Granted
  <2>1. SUFFICES ASSUME NEW s \in Slots
                 PROVE  Used(s) /\ Writable(s) => "fd_write" \in rights[s]
    BY DEF Granted
  <2>2. Open(s) \in Opens
    BY Sharing
  <2>3. CASE s \in LogSlots
    BY <2>3 DEF FilesInit
  <2>4. CASE s \notin LogSlots
    <3>1. Open(s) # Shared
      BY <2>4, ShimFilesAssumption DEF Open, Slots, LogSlots, Shared
    <3>2. QED BY <2>2, <3>1 DEF FilesInit, Used, Closed
  <2>5. QED BY <2>3, <2>4
<1>3. Reported
  <2>1. SUFFICES ASSUME NEW s \in Slots, Used(s)
                 PROVE  "append" \in file[Open(s)].flags
    BY DEF Reported
  <2>2. Open(s) \in Opens
    BY Sharing
  <2>3. file[Open(s)] = IF Open(s) = Shared
                        THEN [of |-> Log, pos |-> 0, flags |-> {"wronly", "append"}]
                        ELSE Closed
    BY <2>2 DEF FilesInit
  <2>4. QED BY <2>1, <2>3 DEF Used, Closed
<1>4. QED BY <1>1, <1>2, <1>3 DEF FilesInv

LEMMA PathOpenInv ==
  ASSUME FilesInv, NEW f \in Files, NEW oflags \in SUBSET OFlags, NEW fl \in FlagSets,
         NEW r \in SUBSET Rights, PathOpen(f, oflags, fl, r)
  PROVE  FilesInv'
<1> DEFINE flags == HostFlags(oflags, fl, r)
           s     == Alloc
<1>1. s \in FileSlots /\ ~Used(s)
  BY AllocIsFree DEF PathOpen
<1>2. s \in Slots /\ Open(s) = s /\ s \in Opens
  BY <1>1, Sharing DEF Slots
<1>3. flags \ OFlags \subseteq AccessModes \cup FdFlags
  BY DEF HostFlags, AccessMode, AccessModes, FdFlags
<1>4. fl \subseteq FdFlags
  BY ShimFilesAssumption
<1>5. file' = [file EXCEPT ![s] = [of |-> f, pos |-> 0, flags |-> flags \ OFlags]]
  BY DEF PathOpen
<1>6. /\ exists' = exists \cup {f}
      /\ content' = IF "trunc" \in flags
                    THEN [content EXCEPT ![f] = <<>>] ELSE content
      /\ fdflags' = [fdflags EXCEPT ![s] = fl]
      /\ rights' = [rights EXCEPT ![s] = r]
      /\ call' = [op |-> "open", slot |-> s, end |-> 0]
  BY DEF PathOpen, Calls
<1> HIDE DEF s, flags
<1>7. FilesTypeOK'
  <2>1. file' \in [Opens -> Sort']
    <3>1. [of |-> f, pos |-> 0, flags |-> flags \ OFlags] \in Sort'
      BY <1>3, <1>6, ShimFilesAssumption DEF Sort
    <3>2. \A o \in Opens : file[o] \in Sort'
      BY <1>6 DEF FilesInv, FilesTypeOK, Sort
    <3>3. QED BY <1>5, <3>1, <3>2 DEF FilesInv, FilesTypeOK
  <2>2. /\ content' \in [Files \cup {Log} -> Seq(Values)]
        /\ \A g \in Files \cup {Log} :
             /\ Len(content'[g]) <= MaxSize
             /\ g \notin exists' \cup {Log} => content'[g] = <<>>
    BY <1>6, ShimFilesAssumption DEF FilesInv, FilesTypeOK, Values
  <2>3. exists' \subseteq Files
    BY <1>6 DEF FilesInv, FilesTypeOK
  <2>4. /\ fdflags' \in [Slots -> SUBSET FdFlags]
        /\ rights' \in [Slots -> SUBSET Rights]
        /\ call' \in [op : Ops, slot : Slots \cup {0}, end : Nat]
    BY <1>2, <1>4, <1>6 DEF FilesInv, FilesTypeOK, Ops
  <2>5. QED BY <2>1, <2>2, <2>3, <2>4 DEF FilesTypeOK, Sort, Values
<1>8. \A t \in Slots : t # s => Open(t) # s /\ Open(t) \in Opens
  BY <1>1, <1>2, Sharing
<1>9. /\ file'[s].of = f /\ file'[s].flags = flags \ OFlags
      /\ fdflags'[s] = fl /\ rights'[s] = r
  BY <1>2, <1>5, <1>6 DEF FilesInv, FilesTypeOK
<1>10. \A t \in Slots : t # s => /\ file'[Open(t)] = file[Open(t)]
                                 /\ fdflags'[t] = fdflags[t]
                                 /\ rights'[t] = rights[t]
  BY <1>5, <1>6, <1>8 DEF FilesInv, FilesTypeOK
<1>11. Granted'
  <2>1. SUFFICES ASSUME NEW t \in Slots, Used(t)', Writable(t)'
                 PROVE  "fd_write" \in rights'[t]
    BY DEF Granted
  <2>2. CASE t = s
    <3>1. flags \cap {"wronly", "rdwr"} # {}
      BY <1>2, <1>9, <2>1, <2>2 DEF Writable
    <3>2. "fd_write" \in r
      BY <3>1 DEF flags, HostFlags, AccessMode, OFlags, Rights
    <3>3. QED BY <1>9, <2>2, <3>2
  <2>3. CASE t # s
    <3>1. Used(t) /\ Writable(t)
      BY <1>10, <2>1, <2>3 DEF Used, Writable
    <3>2. QED BY <1>10, <2>3, <3>1 DEF FilesInv, Granted
  <2>4. QED BY <2>2, <2>3
<1>12. Reported'
  <2>1. SUFFICES ASSUME NEW t \in Slots, Used(t)', ReportsAppend(t)'
                 PROVE  "append" \in file'[Open(t)].flags
    BY DEF Reported
  <2>2. CASE t = s
    <3>1. "append" \in fl
      BY <1>9, <2>1, <2>2 DEF ReportsAppend, Fdstat
    <3>2. QED BY <1>2, <1>9, <2>2, <3>1 DEF flags, HostFlags, OFlags
  <2>3. CASE t # s
    <3>1. \A u \in Slots : Open(u) = Open(t) => u # s
      BY <1>2, <1>8, <2>3
    <3>2. Used(t) /\ ReportsAppend(t)
      BY <1>10, <2>1, <2>3, <3>1 DEF Used, ReportsAppend, Fdstat
    <3>3. QED BY <1>10, <2>3, <3>2 DEF FilesInv, Reported
  <2>4. QED BY <2>2, <2>3
<1>13. QED BY <1>7, <1>11, <1>12 DEF FilesInv

LEMMA FdCloseInv ==
  ASSUME FilesInv, NEW s \in Slots, FdClose(s)
  PROVE  FilesInv'
<1>1. s \in FileSlots /\ Open(s) = s /\ s \in Opens
  BY Sharing DEF FdClose
<1>2. /\ file' = [file EXCEPT ![s] = Closed]
      /\ fdflags' = [fdflags EXCEPT ![s] = {}]
      /\ rights' = [rights EXCEPT ![s] = {}]
      /\ call' = [op |-> "close", slot |-> s, end |-> 0]
      /\ UNCHANGED <<exists, content>>
  BY DEF FdClose, Calls
<1>3. FilesTypeOK'
  BY <1>1, <1>2, ShimFilesAssumption DEF FilesInv, FilesTypeOK, Closed, Ops,
     Slots
<1>4. \A t \in Slots : t # s => Open(t) # s /\ Open(t) \in Opens
  BY <1>1, Sharing
<1>5. ~Used(s)'
  BY <1>1, <1>2 DEF FilesInv, FilesTypeOK, Used, Closed
<1>6. \A t \in Slots : t # s => /\ file'[Open(t)] = file[Open(t)]
                                /\ fdflags'[t] = fdflags[t]
                                /\ rights'[t] = rights[t]
  BY <1>2, <1>4 DEF FilesInv, FilesTypeOK
<1>7. Granted'
  <2>1. SUFFICES ASSUME NEW t \in Slots, Used(t)', Writable(t)'
                 PROVE  "fd_write" \in rights'[t]
    BY DEF Granted
  <2>2. t # s
    BY <1>5, <2>1
  <2>3. Used(t) /\ Writable(t)
    BY <1>6, <2>1, <2>2 DEF Used, Writable
  <2>4. QED BY <1>6, <2>2, <2>3 DEF FilesInv, Granted
<1>8. Reported'
  <2>1. SUFFICES ASSUME NEW t \in Slots, Used(t)', ReportsAppend(t)'
                 PROVE  "append" \in file'[Open(t)].flags
    BY DEF Reported
  <2>2. t # s
    BY <1>5, <2>1
  <2>3. \A u \in Slots : Open(u) = Open(t) => u # s
    BY <1>1, <1>4, <2>2
  <2>4. Used(t) /\ ReportsAppend(t)
    BY <1>6, <2>1, <2>2, <2>3 DEF Used, ReportsAppend, Fdstat
  <2>5. QED BY <1>6, <2>2, <2>4 DEF FilesInv, Reported
<1>9. QED BY <1>3, <1>7, <1>8 DEF FilesInv

\* A call that only moves the position.
LEMMA MovesInv ==
  ASSUME FilesInv, NEW s \in Slots, NEW p \in 0..MaxSize, Moves(s, p),
         NEW op \in Ops, Calls(op, s, 0),
         UNCHANGED <<exists, content, fdflags, rights>>
  PROVE  FilesInv'
<1>1. /\ file' \in [Opens -> Sort']
      /\ \A o \in Opens : /\ file'[o].of = file[o].of
                          /\ file'[o].flags = file[o].flags
  BY Moved DEF FilesInv
<1>2. FilesTypeOK'
  BY <1>1, TypeKept DEF FilesInv, FilesTypeOK, Values
<1>3. QED BY <1>1, <1>2, FlagsKept DEF FilesInv

\* A call that only puts cells in the file.
LEMMA PutsInv ==
  ASSUME FilesInv, NEW s \in Slots, Used(s),
         NEW cs \in Seq(Values), Len(cs) <= MaxSize, Puts(s, cs),
         NEW op \in Ops, NEW end \in Nat, Calls(op, s, end),
         UNCHANGED <<exists, file, fdflags, rights>>
  PROVE  FilesInv'
<1>1. file' \in [Opens -> Sort']
  BY DEF FilesInv, FilesTypeOK, Sort
<1>2. FilesTypeOK'
  BY <1>1, Put, TypeKept DEF FilesInv, FilesTypeOK
<1>3. QED BY <1>2, FlagsKept DEF FilesInv

LEMMA FdReadInv ==
  ASSUME FilesInv, NEW s \in Slots, FdRead(s)
  PROVE  FilesInv'
<1>1. Position(s) + 1 \in 0..MaxSize
  <2>1. Len(Data(s)) <= MaxSize /\ Position(s) < Len(Data(s))
        /\ Data(s) \in Seq(Values) /\ Position(s) \in 0..MaxSize
    BY DataIs DEF FilesInv, FdRead, Position, Sort
  <2>2. QED BY <2>1, ShimFilesAssumption
<1>2. QED BY <1>1, MovesInv DEF FdRead, Ops

LEMMA FdSeekInv ==
  ASSUME FilesInv, NEW s \in Slots, NEW off \in Offsets,
         NEW whence \in {"set", "cur", "end"}, FdSeek(s, off, whence)
  PROVE  FilesInv'
<1> DEFINE base == CASE whence = "set" -> 0
                     [] whence = "cur" -> Position(s)
                     [] whence = "end" -> Len(Data(s))
           p == base + Signed(off)
<1>1. p \in 0..MaxSize /\ Moves(s, p)
  BY DEF FdSeek
<1> HIDE DEF p
<1>2. QED BY <1>1, MovesInv DEF FdSeek, Ops

LEMMA FdWriteInv ==
  ASSUME FilesInv, NEW s \in Slots, NEW v \in Cells, FdWrite(s, v)
  PROVE  FilesInv'
<1> DEFINE p == IF "append" \in file[Open(s)].flags THEN Len(Data(s))
                ELSE Position(s)
<1>1. Used(s) /\ Data(s) \in Seq(Values) /\ Len(Data(s)) <= MaxSize
      /\ Position(s) \in 0..MaxSize
  BY DataIs DEF FilesInv, FdWrite, Position, Sort
<1>2. p < MaxSize /\ Puts(s, WriteAt(Data(s), p, v)) /\ Moves(s, p + 1)
  BY DEF FdWrite
<1>3. p \in Nat
  BY <1>1, ShimFilesAssumption
<1> HIDE DEF p
<1>4. p + 1 \in 0..MaxSize
  BY <1>2, <1>3, ShimFilesAssumption
<1>5. /\ WriteAt(Data(s), p, v) \in Seq(Values)
      /\ Len(WriteAt(Data(s), p, v)) <= MaxSize
  BY <1>1, <1>2, <1>3, WriteAtIs
<1>6. UNCHANGED <<exists, fdflags, rights>> /\ Calls("write", s, 0)
  BY DEF FdWrite
<1>7. /\ file' \in [Opens -> Sort']
      /\ \A o \in Opens : /\ file'[o].of = file[o].of
                          /\ file'[o].flags = file[o].flags
  BY <1>2, <1>4, <1>6, Moved DEF FilesInv
<1>8. /\ content' \in [Files \cup {Log} -> Seq(Values)]
      /\ \A f \in Files \cup {Log} :
           /\ Len(content'[f]) <= MaxSize
           /\ f \notin exists' \cup {Log} => content'[f] = <<>>
  BY <1>1, <1>2, <1>5, <1>6, Put DEF FilesInv
<1>9. FilesTypeOK'
  <2>1. fdflags' \in [Slots -> SUBSET FdFlags] /\ "write" \in Ops
    BY <1>6 DEF FilesInv, FilesTypeOK, Ops
  <2>2. QED BY <1>6, <1>7, <1>8, <2>1, TypeKept DEF FilesInv
<1>10. QED BY <1>6, <1>7, <1>9, FlagsKept DEF FilesInv

\* Offsets are integers to the host, negative ones among them.
LEMMA SignedIs ==
  ASSUME NEW x \in 0..(2 * SignBit - 1)
  PROVE  Signed(x) \in Int
BY ShimFilesAssumption DEF Signed

LEMMA FdPwriteInv ==
  ASSUME FilesInv, NEW s \in Slots, NEW v \in Cells, NEW off \in Offsets,
         FdPwrite(s, off, v)
  PROVE  FilesInv'
<1>1. Used(s) /\ Data(s) \in Seq(Values) /\ Len(Data(s)) <= MaxSize
  BY DataIs DEF FilesInv, FdPwrite
<1>2. Signed(off) \in Nat
  BY SignedIs, ShimFilesAssumption DEF FdPwrite
<1>3. PICK p \in {Signed(off)} \cup
                 (IF "append" \in file[Open(s)].flags THEN {Len(Data(s))} ELSE {}) :
        p < MaxSize /\ Puts(s, WriteAt(Data(s), p, v))
  BY DEF FdPwrite
<1>4. p \in Nat
  BY <1>1, <1>2
<1>5. /\ WriteAt(Data(s), p, v) \in Seq(Values)
      /\ Len(WriteAt(Data(s), p, v)) <= MaxSize
  BY <1>1, <1>3, <1>4, WriteAtIs
<1>6. "pwrite" \in Ops
  BY DEF Ops
<1>7. QED BY <1>1, <1>3, <1>5, <1>6, PutsInv DEF FdPwrite

\* The size fd_allocate asks for: the sum, when it is one the host can have.
LEMMA WantIs ==
  ASSUME NEW off \in Offsets, NEW len \in Offsets
  PROVE  LET want == Signed((off + len) % (2 * SignBit))
         IN /\ want \in Int
            /\ off + len \in Nat
            /\ off + len < SignBit => want = off + len
<1> DEFINE sum == off + len
<1>1. sum \in Nat /\ SignBit \in Nat /\ SignBit > 0
  BY ShimFilesAssumption
<1>2. sum % (2 * SignBit) \in 0..(2 * SignBit - 1)
  BY <1>1
<1>3. ASSUME sum < SignBit PROVE sum % (2 * SignBit) = sum
  BY <1>1, <1>3
<1>4. QED BY <1>1, <1>2, <1>3, SignedIs DEF Signed

LEMMA FdAllocateInv ==
  ASSUME FilesInv, NEW s \in Slots, NEW off \in Offsets, NEW len \in Offsets,
         FdAllocate(s, off, len)
  PROVE  FilesInv'
<1> DEFINE want == Signed((off + len) % (2 * SignBit))
<1>1. Used(s) /\ Data(s) \in Seq(Values) /\ Len(Data(s)) <= MaxSize
  BY DataIs DEF FilesInv, FdAllocate
<1>2. want \in Int /\ off + len \in Nat
  BY WantIs
<1>3. "allocate" \in Ops
  BY DEF Ops
<1>4. CASE Len(Data(s)) < want
  <2>1. want <= MaxSize /\ Puts(s, Resized(Data(s), want))
    BY <1>4 DEF FdAllocate
  <2>2. want \in Nat
    BY <1>1, <1>2, <1>4
  <2> HIDE DEF want
  <2>3. /\ Resized(Data(s), want) \in Seq(Values)
        /\ Len(Resized(Data(s), want)) <= MaxSize
    BY <1>1, <2>1, <2>2, ResizedIs
  <2>4. QED BY <1>1, <1>2, <1>3, <2>1, <2>3, PutsInv DEF FdAllocate
<1>5. CASE ~(Len(Data(s)) < want)
  <2>1. UNCHANGED <<exists, content, file, fdflags, rights>>
        /\ Calls("allocate", s, off + len)
    BY <1>5 DEF FdAllocate
  <2>2. FilesTypeOK'
    BY <1>2, <1>3, <2>1 DEF FilesInv, FilesTypeOK, Calls
  <2>3. QED BY <2>1, <2>2, FlagsKept DEF FilesInv
<1>6. QED BY <1>4, <1>5

LEMMA FdSetSizeInv ==
  ASSUME FilesInv, NEW s \in Slots, NEW size \in Offsets, FdSetSize(s, size)
  PROVE  FilesInv'
<1>1. Used(s) /\ Data(s) \in Seq(Values)
  BY DataIs DEF FilesInv, FdSetSize
<1>2. Signed(size) \in Nat /\ Signed(size) <= MaxSize
  BY ShimFilesAssumption DEF FdSetSize
<1>3. /\ Resized(Data(s), Signed(size)) \in Seq(Values)
      /\ Len(Resized(Data(s), Signed(size))) <= MaxSize
  BY <1>1, <1>2, ResizedIs
<1>4. "set_size" \in Ops
  BY DEF Ops
<1>5. QED BY <1>1, <1>3, <1>4, PutsInv DEF FdSetSize

LEMMA FdSetFlagsInv ==
  ASSUME FilesInv, NEW s \in Slots, NEW fl \in FlagSets, FdSetFlags(s, fl)
  PROVE  FilesInv'
<1> DEFINE flags == (file[Open(s)].flags \ {"append", "nonblock"})
                       \cup (fl \cap {"append", "nonblock"})
<1>1. Open(s) \in Opens /\ file[Open(s)] \in Sort
  BY DataIs DEF FilesInv
<1>2. /\ file' = [file EXCEPT ![Open(s)].flags = flags]
      /\ fdflags' = [fdflags EXCEPT ![s] = fl]
      /\ UNCHANGED <<exists, content, rights>>
      /\ Calls("set_flags", s, 0)
  BY DEF FdSetFlags
<1>3. flags \subseteq AccessModes \cup FdFlags
  BY <1>1 DEF Sort, FdFlags
<1>4. flags \cap {"wronly", "rdwr"} = file[Open(s)].flags \cap {"wronly", "rdwr"}
      /\ ("append" \in flags <=> "append" \in fl)
  OBVIOUS
<1> HIDE DEF flags
<1>5. /\ file' \in [Opens -> Sort']
      /\ \A o \in Opens : file'[o].of = file[o].of
      /\ \A o \in Opens : file'[o].flags =
                            IF o = Open(s) THEN flags ELSE file[o].flags
      /\ fdflags' \in [Slots -> SUBSET FdFlags]
      /\ \A t \in Slots : fdflags'[t] = IF t = s THEN fl ELSE fdflags[t]
  BY <1>1, <1>2, <1>3, ShimFilesAssumption DEF FilesInv, FilesTypeOK, Sort
<1>6. FilesTypeOK'
  <2>1. "set_flags" \in Ops
    BY DEF Ops
  <2>2. QED BY <1>2, <1>5, <2>1, TypeKept DEF FilesInv, FilesTypeOK, Values
<1>7. \A t \in Slots : Open(t) \in Opens
  BY Sharing
<1>8. Granted'
  <2>1. \A t \in Slots : /\ Used(t)' <=> Used(t)
                         /\ Writable(t)' <=> Writable(t)
    BY <1>4, <1>5, <1>7 DEF Used, Writable
  <2>2. QED BY <1>2, <2>1 DEF FilesInv, Granted
<1>9. Reported'
  <2>1. SUFFICES ASSUME NEW t \in Slots, Used(t)', ReportsAppend(t)'
                 PROVE  "append" \in file'[Open(t)].flags
    BY DEF Reported
  <2>2. CASE Open(t) = Open(s)
    <3>1. "append" \in fl
      BY <1>5, <2>1, <2>2 DEF ReportsAppend, Fdstat
    <3>2. QED BY <1>4, <1>5, <1>7, <2>2, <3>1
  <2>3. CASE Open(t) # Open(s)
    <3>1. Used(t) /\ ReportsAppend(t)
      BY <1>5, <1>7, <2>1, <2>3 DEF Used, ReportsAppend, Fdstat
    <3>2. QED BY <1>5, <1>7, <2>3, <3>1 DEF FilesInv, Reported
  <2>4. QED BY <2>2, <2>3
<1>10. QED BY <1>6, <1>8, <1>9 DEF FilesInv

LEMMA FilesNextInv == FilesInv /\ [FilesNext]_fileVars => FilesInv'
<1> SUFFICES ASSUME FilesInv, [FilesNext]_fileVars PROVE FilesInv'
  OBVIOUS
<1>1. CASE UNCHANGED fileVars
  BY <1>1
     DEF fileVars, files, FilesInv, FilesTypeOK, Granted, Reported, Used,
        Writable,
         ReportsAppend, Fdstat
<1>2. ASSUME NEW f \in Files, NEW oflags \in SUBSET OFlags, NEW fl \in FlagSets,
             NEW r \in SUBSET Rights \ {{}}, PathOpen(f, oflags, fl, r)
      PROVE  FilesInv'
  BY <1>2, PathOpenInv
<1>3. ASSUME NEW s \in Slots,
             \/ FdClose(s) \/ FdRead(s)
             \/ \E v \in Cells : FdWrite(s, v)
             \/ \E v \in Cells, off \in Offsets : FdPwrite(s, off, v)
             \/ \E off \in Offsets, whence \in {"set", "cur", "end"} :
                  FdSeek(s, off, whence)
             \/ \E off, len \in Offsets : FdAllocate(s, off, len)
             \/ \E size \in Offsets : FdSetSize(s, size)
             \/ \E fl \in FlagSets : FdSetFlags(s, fl)
      PROVE  FilesInv'
  BY <1>3, FdCloseInv, FdReadInv, FdWriteInv, FdPwriteInv, FdSeekInv,
     FdAllocateInv, FdSetSizeInv, FdSetFlagsInv
<1>4. QED BY <1>1, <1>2, <1>3 DEF FilesNext

\* The shim does to the files what its file calls do.
LEMMA FilesStep == [Next]_vars => [FilesNext]_fileVars
BY DEF Next, vars, UsesFiles, UsesDir, UsesMemory

LEMMA FilesAlwaysInv == Spec => []FilesInv
<1>1. Init => FilesInv
  BY FilesInitInv DEF Init
<1>2. FilesInv /\ [Next]_vars => FilesInv'
  BY FilesNextInv, FilesStep
<1>3. QED BY <1>1, <1>2, PTL DEF Spec

--------------------------------------------------------------------------------
(***************************************************************************)
(* The properties.                                                         *)
(***************************************************************************)

\* Whatever the guest opens, seeks, writes and sizes, no file grows past the
\* host's limit, no position leaves it, and the files behind the slots exist.
THEOREM FileTypesAreKept == Spec => []FilesTypeOK
<1>1. FilesInv => FilesTypeOK
  BY DEF FilesInv
<1>2. QED BY <1>1, FilesAlwaysInv, PTL

\* A slot that was opened without FD_WRITE changes no file, as the host refuses
\* to write through it.
LEMMA RightsHoldInStep ==
  ASSUME FilesInv, [FilesNext]_fileVars
  PROVE  [RightsStep]_fileVars
<1>1. ASSUME FilesNext, "fd_write" \notin rights[call'.slot],
             call'.op \in {"write", "pwrite", "set_size", "allocate"},
             content' # content
      PROVE  FALSE
  <2>1. PICK s \in Slots, op \in Ops, end \in Nat :
               Calls(op, s, end) /\ Used(s) /\ Writable(s)
    <3>1. ASSUME NEW f \in Files, NEW oflags \in SUBSET OFlags,
                 NEW fl \in FlagSets, NEW r \in SUBSET Rights,
                 PathOpen(f, oflags, fl, r)
          PROVE  FALSE
      BY <1>1, <3>1 DEF PathOpen, Calls
    <3>2. PICK s \in Slots :
            \/ \E v \in Cells : FdWrite(s, v)
            \/ \E v \in Cells, off \in Offsets : FdPwrite(s, off, v)
            \/ \E off, len \in Offsets : FdAllocate(s, off, len)
            \/ \E size \in Offsets : FdSetSize(s, size)
      BY <1>1, <3>1 DEF FilesNext, FdClose, FdRead, FdSeek, FdSetFlags
    <3>3. CASE \E off, len \in Offsets : FdAllocate(s, off, len)
      BY <1>1, <3>3, WantIs DEF FdAllocate, Ops
    <3>4. CASE \/ \E v \in Cells : FdWrite(s, v)
               \/ \E v \in Cells, off \in Offsets : FdPwrite(s, off, v)
               \/ \E size \in Offsets : FdSetSize(s, size)
      BY <3>4 DEF FdWrite, FdPwrite, FdSetSize, Ops
    <3>5. QED BY <3>2, <3>3, <3>4
  <2>2. call'.slot = s
    BY <2>1 DEF Calls
  <2>3. QED BY <1>1, <2>1, <2>2 DEF FilesInv, Granted
<1>2. QED BY <1>1 DEF RightsStep

\* A descriptor opened without FD_WRITE changes no file.
THEOREM RightsAreHeld == Spec => RightsHold
<1>1. FilesInv /\ [FilesNext]_fileVars => [RightsStep]_fileVars
  BY RightsHoldInStep
<1>2. QED BY <1>1, FilesAlwaysInv, FilesStep, PTL DEF Spec, RightsHold

\* The call a step was.
LEMMA CallIs ==
  ASSUME FilesNext
  PROVE  /\ call'.op = "write" =>
              \E s \in Slots, v \in Cells : call'.slot = s /\ FdWrite(s, v)
         /\ call'.op = "allocate" =>
              \E s \in Slots, off, len \in Offsets :
                /\ call'.slot = s /\ call'.end = off + len
                /\ FdAllocate(s, off, len)
BY DEF FilesNext, Calls, PathOpen, FdClose, FdRead, FdWrite, FdPwrite, FdSeek,
       FdAllocate, FdSetSize, FdSetFlags

\* What a slot that reports O_APPEND writes goes behind what is there.
LEMMA AppendsInStep ==
  ASSUME FilesInv, [FilesNext]_fileVars
  PROVE  [AppendStep]_fileVars
<1>1. SUFFICES ASSUME FilesNext, call'.op = "write",
                      ReportsAppend(call'.slot)
               PROVE  IsPrefix(Data(call'.slot),
                               content'[file[Open(call'.slot)].of])
  BY DEF AppendStep
<1>2. PICK s \in Slots, v \in Cells : call'.slot = s /\ FdWrite(s, v)
  BY <1>1, CallIs
<1>3. Used(s) /\ Data(s) \in Seq(Values) /\ Len(Data(s)) <= MaxSize
  BY <1>2, DataIs DEF FilesInv, FdWrite
<1>4. "append" \in file[Open(s)].flags
  BY <1>1, <1>2, <1>3 DEF FilesInv, Reported
<1>5. /\ Len(Data(s)) < MaxSize
      /\ Puts(s, WriteAt(Data(s), Len(Data(s)), v))
      /\ exists' = exists
  BY <1>2, <1>4 DEF FdWrite
<1>6. /\ WriteAt(Data(s), Len(Data(s)), v) \in Seq(Values)
      /\ Len(WriteAt(Data(s), Len(Data(s)), v)) <= MaxSize
      /\ IsPrefix(Data(s), WriteAt(Data(s), Len(Data(s)), v))
  BY <1>3, <1>5, WriteAtIs
<1>7. content'[file[Open(s)].of] = WriteAt(Data(s), Len(Data(s)), v)
  BY <1>3, <1>5, <1>6, Put DEF FilesInv
<1>8. QED BY <1>2, <1>6, <1>7

\* A file the guest sees as one it only appends to keeps what it holds.
THEOREM AppendingIsSafe == Spec => AppendsOnlyAppend
<1>1. FilesInv /\ [FilesNext]_fileVars => [AppendStep]_fileVars
  BY AppendsInStep
<1>2. QED BY <1>1, FilesAlwaysInv, FilesStep, PTL DEF Spec, AppendsOnlyAppend

\* A range fd_allocate is given is there afterwards, and all that was.
LEMMA AllocatesInStep ==
  ASSUME FilesInv, [FilesNext]_fileVars
  PROVE  [AllocateStep]_fileVars
<1>1. SUFFICES ASSUME FilesNext, call'.op = "allocate"
               PROVE  AllocateStep
  BY DEF AllocateStep
<1>2. PICK s \in Slots, off \in Offsets, len \in Offsets :
             /\ call'.slot = s /\ call'.end = off + len
             /\ FdAllocate(s, off, len)
  BY <1>1, CallIs
<1> DEFINE want  == Signed((off + len) % (2 * SignBit))
           after == content'[file[Open(s)].of]
<1>3. Used(s) /\ Data(s) \in Seq(Values) /\ Len(Data(s)) <= MaxSize
  BY <1>2, DataIs DEF FilesInv, FdAllocate
<1>4. /\ want \in Int
      /\ off + len < SignBit => want = off + len
  BY WantIs
<1>5. IF Len(Data(s)) < want
      THEN want <= MaxSize /\ Puts(s, Resized(Data(s), want))
      ELSE UNCHANGED content
  BY <1>2 DEF FdAllocate
<1>6. exists' = exists
  BY <1>2 DEF FdAllocate
<1> HIDE DEF want
<1>7. IsPrefix(Data(s), after) /\ Len(after) >= want
  <2>1. CASE Len(Data(s)) < want
    <3>1. want \in Nat
      BY <1>3, <1>4, <2>1
    <3>2. /\ Resized(Data(s), want) \in Seq(Values)
          /\ Len(Resized(Data(s), want)) = want
          /\ IsPrefix(Data(s), Resized(Data(s), want))
      BY <1>3, <2>1, <3>1, ResizedIs
    <3>3. after = Resized(Data(s), want)
      BY <1>3, <1>5, <1>6, <2>1, <3>2, Put DEF FilesInv
    <3>4. QED BY <3>1, <3>2, <3>3
  <2>2. CASE ~(Len(Data(s)) < want)
    <3>1. after = Data(s)
      BY <1>5, <2>2 DEF Data
    <3>2. QED BY <1>3, <1>4, <2>2, <3>1, PrefixCells
  <2>3. QED BY <2>1, <2>2
<1>8. QED BY <1>2, <1>4, <1>7 DEF AllocateStep

\* fd_allocate takes nothing away, and makes the file long enough for every
\* range whose end has a number on the host.
THEOREM AllocationReserves == Spec => AllocateReserves
<1>1. FilesInv /\ [FilesNext]_fileVars => [AllocateStep]_fileVars
  BY AllocatesInStep
<1>2. QED BY <1>1, FilesAlwaysInv, FilesStep, PTL DEF Spec, AllocateReserves

--------------------------------------------------------------------------------
(***************************************************************************)
(* The guest's memory: words, spans and regions.                            *)
(***************************************************************************)

\* The remainder is what there is above a multiple.
LEMMA Remainder ==
  ASSUME NEW m \in Nat, m > 0, NEW q \in Int, NEW a \in 0..(m - 1)
  PROVE  (m * q + a) % m = a
BY SMTT(30)

\* Wrap gives an address, leaves one alone, and goes on where it left off.
LEMMA WrapIs ==
  ASSUME NEW x \in Nat
  PROVE  /\ Wrap(x) \in 0..(Addresses - 1)
         /\ x < Addresses => Wrap(x) = x
         /\ \A k \in Nat : Wrap(x) + k < Addresses => Wrap(x + k) = Wrap(x) + k
<1> DEFINE q == x \div Addresses
           a == x % Addresses
<1>1. Addresses \in Nat /\ Addresses > 0
  BY ShimMemoryAssumption
<1>2. q \in Int /\ a \in 0..(Addresses - 1) /\ x = Addresses * q + a
  BY <1>1
<1>3. Addresses * q \in Int
  BY <1>1, <1>2
<1>4. x < Addresses => x % Addresses = x
  BY <1>1
<1> HIDE DEF q, a
<1>5. ASSUME NEW k \in Nat, a + k < Addresses
      PROVE  (x + k) % Addresses = a + k
  <2>1. a + k \in 0..(Addresses - 1)
    BY <1>1, <1>2, <1>5
  <2>2. x + k = Addresses * q + (a + k)
    BY <1>2, <1>3
  <2>3. QED BY <1>1, <1>2, <2>1, <2>2, Remainder
<1>6. QED BY <1>2, <1>4, <1>5 DEF Wrap, a

\* A region has no place that is no address.
LEMMA RegionIs ==
  ASSUME NEW p \in Nat, NEW len \in Int
  PROVE  Region(p, len) \subseteq 0..(Addresses - 1)
<1>1. \A k \in 0..(len - 1) : Wrap(p + k) \in 0..(Addresses - 1)
  BY WrapIs
<1>2. QED BY <1>1 DEF Region

Memory == 0..(MemSize - 1)

\* What gptr let through lies in the memory, and in the region that was meant
\* however far into it and wherever the sums wrapped.
LEMMA SpanInRegion ==
  ASSUME NEW p \in Nat, NEW off \in Nat, NEW len \in Nat, NEW all \in Nat,
         off + len <= all, Gptr(Wrap(p + off), len)
  PROVE  Span(Wrap(p + off), len) \subseteq Region(p, all) \cap Memory
<1> DEFINE w == Wrap(p + off)
<1>1. w \in Nat /\ w + len <= MemSize
  BY WrapIs, ShimMemoryAssumption DEF Gptr
<1>2. SUFFICES ASSUME NEW x \in w..(w + len - 1)
               PROVE  x \in Region(p, all) \cap Memory
  BY DEF Span
<1>3. x - w \in Nat /\ w + (x - w) < Addresses /\ x \in Memory
  BY <1>1, ShimMemoryAssumption DEF Memory
<1>4. Wrap((p + off) + (x - w)) = w + (x - w)
  BY <1>3, WrapIs
<1>5. off + (x - w) \in 0..(all - 1) /\ x = Wrap(p + (off + (x - w)))
  BY <1>1, <1>3, <1>4
<1>6. QED BY <1>3, <1>5 DEF Region

LEMMA SpanOfPointer ==
  ASSUME NEW p \in 0..(Addresses - 1), NEW len \in Nat, Gptr(p, len)
  PROVE  Span(p, len) \subseteq Region(p, len) \cap Memory
<1>1. Wrap(p + 0) = p
  BY WrapIs, ShimMemoryAssumption
<1>2. QED BY <1>1, SpanInRegion

\* What a call has to show: it answers, it was given addresses, and it touched
\* only memory it was given.
Sound(d) ==
  /\ d.ret \in {"ok", "einval", "efault", "errno"}
  /\ d.given \subseteq 0..(Addresses - 1)
  /\ d.touched \subseteq d.given \cap Memory

Address == 0..(Addresses - 1)

\* A part of a buffer that starts where the buffer does.
LEMMA SpanOfPart ==
  ASSUME NEW p \in Address, NEW part \in Nat, NEW len \in Nat, part <= len,
         Gptr(p, len) \/ len = 0
  PROVE  Span(p, part) \subseteq Region(p, len) \cap Memory
<1>1. CASE len = 0
  BY <1>1 DEF Span, Address
<1>2. CASE Gptr(p, len)
  <2>1. p \in Nat /\ Wrap(p + 0) = p
    BY WrapIs, ShimMemoryAssumption DEF Address
  <2>2. Gptr(p, part)
    BY <1>2, <2>1, ShimMemoryAssumption DEF Gptr
  <2>3. QED BY <2>1, <2>2, SpanInRegion
<1>3. QED BY <1>1, <1>2

MemInv == MemTypeOK /\ StaysInBuffers /\ ArgsFit /\ PollAnswers

\* Of most calls it is all there is to show.
LEMMA SoundIsEnough ==
  ASSUME Sound(done'), done'.op \notin {"args", "poll"}
  PROVE  MemInv'
BY DEF Sound, MemInv, MemTypeOK, StaysInBuffers, ArgsFit, PollAnswers, Memory

LEMMA MemInitInv == MemInit => MemInv
BY ShimMemoryAssumption
   DEF MemInit, Nothing, MemInv, MemTypeOK, StaysInBuffers, ArgsFit, PollAnswers

--------------------------------------------------------------------------------
(***************************************************************************)
(* The calls that look up one place after the other.                       *)
(***************************************************************************)

\* A call is sound, however far it comes, if each place it may use is in the
\* memory and in what it was given.
LEMMA InTurnInv ==
  ASSUME NEW op, op \notin {"args", "poll"}, NEW n \in Nat,
         NEW places, DOMAIN places = 1..n, NEW breaks,
         NEW given, given \subseteq 0..(Addresses - 1),
         \A i \in 1..n : places[i].ok =>
           Span(places[i].at, places[i].len) \subseteq given \cap Memory,
         done' \in InTurn(op, places, breaks, given)
  PROVE  MemInv'
<1> DEFINE good     == { i \in DOMAIN places : \A j \in 1..i : places[j].ok }
           span(i)  == Span(places[i].at, places[i].len)
           first(k) == UNION { span(i) : i \in 1..k }
           all      == UNION { span(i) : i \in good }
<1>1. ASSUME NEW i \in good PROVE span(i) \subseteq given \cap Memory
  <2>1. i \in 1..n /\ i \in 1..i /\ \A j \in 1..i : places[j].ok
    OBVIOUS
  <2>2. QED BY <2>1
<1>2. \/ \E ret \in {"ok", "efault"} : done' = Call(op, ret, all, given)
      \/ \E k : 1..k \subseteq good /\ done' = Call(op, "errno", first(k), given)
  <2>1. \/ done' = Call(op, IF good = DOMAIN places THEN "ok" ELSE "efault", all,
                        given)
        \/ \E k \in { b \in breaks : 1..b \subseteq good } :
             done' = Call(op, "errno", first(k), given)
    BY Zenon DEF InTurn
  <2> HIDE DEF good, all, first
  <2>2. QED BY <2>1
<1>3. CASE \E ret \in {"ok", "efault"} : done' = Call(op, ret, all, given)
  <2>1. all \subseteq given \cap Memory
    BY <1>1
  <2> HIDE DEF all
  <2>2. Sound(done') /\ done'.op = op
    BY <1>3, <2>1 DEF Sound, Call
  <2>3. QED BY <2>2, SoundIsEnough
<1>4. ASSUME NEW k, 1..k \subseteq good, done' = Call(op, "errno", first(k), given)
      PROVE  MemInv'
  <2>1. first(k) \subseteq given \cap Memory
    BY <1>1, <1>4
  <2> HIDE DEF first
  <2>2. Sound(done') /\ done'.op = op
    BY <1>4, <2>1 DEF Sound, Call
  <2>3. QED BY <2>2, SoundIsEnough
<1>5. QED BY <1>2, <1>3, <1>4

\* What a place the shim may use covers, and what the guest meant by it.
LEMMA PlaceIs ==
  ASSUME NEW p \in Address, NEW len \in Nat
  PROVE  /\ Region(p, len) \subseteq 0..(Addresses - 1)
         /\ LET pl == Place(p, len)
            IN pl.ok => Span(pl.at, pl.len) \subseteq Region(p, len) \cap Memory
         /\ LET pl == PathAt(p, len)
            IN pl.ok => Span(pl.at, pl.len) \subseteq Region(p, len) \cap Memory
         /\ \A used \in 0..len : LET pl == BufferAt(p, len, used)
            IN pl.ok => Span(pl.at, pl.len) \subseteq Region(p, len) \cap Memory
<1>1. Region(p, len) \subseteq 0..(Addresses - 1)
  BY RegionIs DEF Address
<1>2. Gptr(p, len) => Span(p, len) \subseteq Region(p, len) \cap Memory
  BY SpanOfPointer DEF Address
<1>3. ASSUME NEW used \in 0..len, Gptr(p, len) \/ len = 0
      PROVE  Span(p, used) \subseteq Region(p, len) \cap Memory
  <2>1. used \in Nat /\ used <= len
    OBVIOUS
  <2>2. QED BY <1>3, <2>1, SpanOfPart
<1>4. QED BY <1>1, <1>2, <1>3 DEF Place, PathAt, BufferAt

\* What fits into the rest of a buffer.
LEMMA PartIs ==
  ASSUME NEW len \in Nat, NEW from \in Nat, from <= len, NEW want \in Nat
  PROVE  Part(len, from, want) \in Nat /\ from + Part(len, from, want) <= len
BY DEF Part

LEMMA FillsInv ==
  ASSUME NEW op, op \notin {"args", "poll"}, NEW p \in Address, NEW len \in Nat,
         NEW breaks, Fills(op, p, len, breaks)
  PROVE  MemInv'
<1> DEFINE places == <<Place(p, len)>>
<1>1. DOMAIN places = 1..1 /\ places[1] = Place(p, len)
  OBVIOUS
<1>2. done' \in InTurn(op, places, breaks, Region(p, len))
  BY DEF Fills
<1> HIDE DEF places
<1>3. \A i \in 1..1 : places[i].ok =>
        Span(places[i].at, places[i].len) \subseteq Region(p, len) \cap Memory
  BY <1>1, PlaceIs
<1>4. QED BY <1>1, <1>2, <1>3, PlaceIs, InTurnInv

LEMMA FixedInv ==
  ASSUME NEW p \in Address, NEW len \in Nat, NEW id \in Nat,
         \/ FilestatGet(p) \/ FdstatGet(p) \/ PrestatGet(p) \/ SeekOrTell(p)
         \/ RandomGet(p, len) \/ ClockTimeGet(id, p)
  PROVE  MemInv'
<1>1. 2 * EventLen \in Nat /\ SubLen \in Nat /\ 2 * Word \in Nat
  BY DEF EventLen, SubLen, Word
<1>2. CASE FilestatGet(p) \/ FdstatGet(p) \/ PrestatGet(p) \/ SeekOrTell(p)
           \/ RandomGet(p, len)
  BY <1>1, <1>2, FillsInv
     DEF FilestatGet, FdstatGet, PrestatGet, SeekOrTell, RandomGet
<1>3. CASE ClockTimeGet(id, p) /\ id \in 0..3
  BY <1>1, <1>3, FillsInv DEF ClockTimeGet
<1>4. CASE ClockTimeGet(id, p) /\ id \notin 0..3
  <2>1. Sound(done') /\ done'.op = "clock"
    BY <1>4 DEF ClockTimeGet, Sound, Call
  <2>2. QED BY <2>1, SoundIsEnough
<1>5. QED BY <1>2, <1>3, <1>4

\* Two places, each in its own part of what was given.
LEMMA PairInv ==
  ASSUME NEW op, op \notin {"args", "poll"}, NEW a, NEW b, NEW breaks,
         NEW A, NEW B, A \subseteq 0..(Addresses - 1), B \subseteq 0..(Addresses - 1),
         a.ok => Span(a.at, a.len) \subseteq A \cap Memory,
         b.ok => Span(b.at, b.len) \subseteq B \cap Memory,
         done' \in InTurn(op, <<a, b>>, breaks, A \cup B)
  PROVE  MemInv'
<1> DEFINE places == <<a, b>>
<1>1. DOMAIN places = 1..2 /\ places[1] = a /\ places[2] = b
  OBVIOUS
<1>2. done' \in InTurn(op, places, breaks, A \cup B)
  OBVIOUS
<1> HIDE DEF places
<1>3. \A i \in 1..2 : places[i].ok =>
        Span(places[i].at, places[i].len) \subseteq (A \cup B) \cap Memory
  <2>1. \A i \in 1..2 : i = 1 \/ i = 2
    OBVIOUS
  <2>2. QED BY <1>1, <2>1
<1>4. A \cup B \subseteq 0..(Addresses - 1)
  OBVIOUS
<1>5. QED BY <1>1, <1>2, <1>3, <1>4, InTurnInv

LEMMA SizesInv ==
  ASSUME NEW p \in Address, NEW q \in Address, SizesGet(p, q)
  PROVE  MemInv'
<1>1. Word \in Nat
  BY DEF Word
<1>2. QED BY <1>1, PlaceIs, PairInv DEF SizesGet

LEMMA PrestatDirNameInv ==
  ASSUME NEW p \in Address, NEW len \in Nat, PrestatDirName(p, len)
  PROVE  MemInv'
<1> DEFINE places == <<Place(p, GuestPath)>>
<1>1. Region(p, len) \subseteq 0..(Addresses - 1)
  BY PlaceIs
<1>2. CASE len < GuestPath
  <2>1. Sound(done') /\ done'.op = "dir_name"
    BY <1>1, <1>2 DEF PrestatDirName, Sound, Call
  <2>2. QED BY <2>1, SoundIsEnough
<1>3. CASE ~(len < GuestPath)
  <2>1. DOMAIN places = 1..1 /\ places[1] = Place(p, GuestPath)
    OBVIOUS
  <2>2. done' \in InTurn("dir_name", places, {0}, Region(p, len))
    BY <1>3 DEF PrestatDirName
  <2> HIDE DEF places
  <2>3. Gptr(p, GuestPath) => Span(p, GuestPath) \subseteq Region(p, len) \cap Memory
    <3>1. p \in Nat /\ Wrap(p + 0) = p
      BY WrapIs, ShimMemoryAssumption DEF Address
    <3>2. GuestPath \in Nat /\ 0 + GuestPath <= len
      BY <1>3, ShimMemoryAssumption
    <3>3. QED BY <3>1, <3>2, SpanInRegion
  <2>4. \A i \in 1..1 : places[i].ok =>
          Span(places[i].at, places[i].len) \subseteq Region(p, len) \cap Memory
    BY <2>1, <2>3 DEF Place
  <2>5. QED BY <1>1, <2>1, <2>2, <2>4, InTurnInv
<1>4. QED BY <1>2, <1>3

LEMMA PathOnlyInv ==
  ASSUME NEW p \in Address, NEW len \in Nat, PathOnly(p, len)
  PROVE  MemInv'
<1> DEFINE places == <<PathAt(p, len)>>
<1>1. DOMAIN places = 1..1 /\ places[1] = PathAt(p, len)
  OBVIOUS
<1>2. done' \in InTurn("path", places, {0, 1}, Region(p, len))
  BY DEF PathOnly
<1> HIDE DEF places
<1>3. \A i \in 1..1 : places[i].ok =>
        Span(places[i].at, places[i].len) \subseteq Region(p, len) \cap Memory
  BY <1>1, PlaceIs
<1>4. QED BY <1>1, <1>2, <1>3, PlaceIs, InTurnInv

LEMMA PathsInv ==
  ASSUME NEW p \in Address, NEW pLen \in Nat, NEW q \in Address, NEW qLen \in Nat,
         \/ TwoPaths(p, pLen, q, qLen)
         \/ PathFilestatGet(p, pLen, q) \/ OpenPath(p, pLen, q)
  PROVE  MemInv'
<1>1. 2 * EventLen \in Nat /\ Word \in Nat
  BY DEF EventLen, Word
<1>2. CASE TwoPaths(p, pLen, q, qLen)
  BY <1>2, PlaceIs, PairInv DEF TwoPaths
<1>3. ASSUME NEW op, op \notin {"args", "poll"}, NEW len \in Nat,
             PathResult(op, p, pLen, q, len)
      PROVE  MemInv'
  BY <1>3, PlaceIs, PairInv DEF PathResult
<1>4. QED BY <1>1, <1>2, <1>3 DEF PathFilestatGet, OpenPath

LEMMA PathReadlinkInv ==
  ASSUME NEW pathP \in Address, NEW pathLen \in Nat, NEW p \in Address,
         NEW len \in Nat, NEW usedP \in Address, NEW target \in Nat,
         PathReadlink(pathP, pathLen, p, len, usedP, target)
  PROVE  MemInv'
<1> DEFINE put    == Part(len, 0, target)
           places == <<PathAt(pathP, pathLen), BufferAt(p, len, put),
                       Place(usedP, Word)>>
           A == Region(pathP, pathLen)
           B == Region(p, len)
           C == Region(usedP, Word)
<1>1. /\ DOMAIN places = 1..3 /\ places[1] = PathAt(pathP, pathLen)
      /\ places[2] = BufferAt(p, len, put) /\ places[3] = Place(usedP, Word)
  OBVIOUS
<1>2. done' \in InTurn("readlink", places, {0, 2}, A \cup B \cup C)
  BY DEF PathReadlink
<1>3. put \in 0..len /\ Word \in Nat
  BY PartIs DEF Word
<1> HIDE DEF places, put
<1>4. /\ A \cup B \cup C \subseteq 0..(Addresses - 1)
      /\ places[1].ok => Span(places[1].at, places[1].len) \subseteq A \cap Memory
      /\ places[2].ok => Span(places[2].at, places[2].len) \subseteq B \cap Memory
      /\ places[3].ok => Span(places[3].at, places[3].len) \subseteq C \cap Memory
  BY <1>1, <1>3, PlaceIs
<1> HIDE DEF A, B, C
<1>5. \A i \in 1..3 : places[i].ok =>
        Span(places[i].at, places[i].len) \subseteq (A \cup B \cup C) \cap Memory
  <2>1. \A i \in 1..3 : i = 1 \/ i = 2 \/ i = 3
    OBVIOUS
  <2>2. QED BY <1>4, <2>1
<1>6. QED BY <1>1, <1>2, <1>4, <1>5, InTurnInv

--------------------------------------------------------------------------------
(***************************************************************************)
(* Lists of buffers.                                                       *)
(***************************************************************************)
LEMMA IovsInv ==
  ASSUME NEW iovsP \in Address, NEW countP \in Address,
         NEW bufs \in Seq([p : Address, len : Nat]), Iovs(iovsP, bufs, countP)
  PROVE  MemInv'
<1> DEFINE n       == Len(bufs)
           word(k) == Place(Wrap(iovsP + Word * k), Word)
           table   == Region(iovsP, 2 * Word * n)
           buffers == UNION { Region(bufs[i].p, bufs[i].len) : i \in 1..n }
           count   == Region(countP, Word)
           given   == table \cup count \cup buffers
           place(k) == LET i == (k + 2) \div 3
                       IN IF k > 4 * n THEN Place(countP, Word)
                          ELSE IF k > 3 * n
                          THEN BufferAt(bufs[k - 3 * n].p, bufs[k - 3 * n].len,
                                        bufs[k - 3 * n].len)
                          ELSE IF k = 3 * i
                          THEN BufferAt(bufs[i].p, bufs[i].len, 0)
                          ELSE word(k - i)
           places  == [k \in 1..(4 * n + 1) |-> place(k)]
<1>1. n \in Nat /\ \A i \in 1..n : bufs[i] \in [p : Address, len : Nat]
  BY LenProperties, ElementOfSeq
<1>2. \/ \E ret \in {"efault", "errno"} : done' = Call("iovs", ret, {}, given)
      \/ done' \in InTurn("iovs", places, {0, 4 * n}, given)
  BY Zenon DEF Iovs
<1> HIDE DEF n
<1>3. given \subseteq 0..(Addresses - 1)
  <2>1. table \subseteq 0..(Addresses - 1)
    BY <1>1, RegionIs DEF Word, Address
  <2>2. count \subseteq 0..(Addresses - 1)
    BY RegionIs DEF Word, Address
  <2>3. buffers \subseteq 0..(Addresses - 1)
    <3>1. SUFFICES ASSUME NEW i \in 1..n
                   PROVE  Region(bufs[i].p, bufs[i].len) \subseteq 0..(Addresses - 1)
      OBVIOUS
    <3>2. bufs[i].p \in Address /\ bufs[i].len \in Nat
      BY <1>1
    <3>3. QED BY <3>2, RegionIs DEF Address
  <2> HIDE DEF table, count, buffers
  <2>4. QED BY <2>1, <2>2, <2>3
\* One word of the array.
<1>4. ASSUME NEW k \in 0..(2 * n - 1), word(k).ok
      PROVE  Span(word(k).at, word(k).len) \subseteq table \cap Memory
  <2>1. /\ Word * k \in Nat /\ Word \in Nat /\ 2 * Word * n \in Nat
        /\ Word * k + Word <= 2 * Word * n /\ iovsP \in Nat
    BY <1>1 DEF Word, Address
  <2>2. Gptr(Wrap(iovsP + Word * k), Word)
    BY <1>4 DEF Place
  <2>3. Span(Wrap(iovsP + Word * k), Word) \subseteq table \cap Memory
    BY <2>1, <2>2, SpanInRegion
  <2>4. QED BY <2>3 DEF Place
\* One buffer, looked up or used.
<1>5. ASSUME NEW i \in 1..n, NEW used \in {0, bufs[i].len},
             BufferAt(bufs[i].p, bufs[i].len, used).ok
      PROVE  Span(BufferAt(bufs[i].p, bufs[i].len, used).at,
                  BufferAt(bufs[i].p, bufs[i].len, used).len)
               \subseteq buffers \cap Memory
  <2>1. bufs[i].p \in Address /\ bufs[i].len \in Nat
    BY <1>1
  <2>2. used \in 0..bufs[i].len
    BY <2>1
  <2>3. Span(BufferAt(bufs[i].p, bufs[i].len, used).at,
             BufferAt(bufs[i].p, bufs[i].len, used).len)
          \subseteq Region(bufs[i].p, bufs[i].len) \cap Memory
    BY <1>5, <2>1, <2>2, PlaceIs
  <2>4. QED BY <2>3
<1>6. Place(countP, Word).ok =>
        Span(Place(countP, Word).at, Place(countP, Word).len)
          \subseteq count \cap Memory
  BY PlaceIs DEF Word
<1> HIDE DEF table, buffers, count, word
<1>7. ASSUME NEW k \in 1..(4 * n + 1), place(k).ok
      PROVE  Span(place(k).at, place(k).len) \subseteq given \cap Memory
  <2>1. CASE k > 4 * n
    <3>1. place(k) = Place(countP, Word)
      BY <2>1
    <3>2. QED BY <1>6, <1>7, <3>1
  <2>2. CASE k > 3 * n /\ ~(k > 4 * n)
    <3>1. k - 3 * n \in 1..n
      BY <1>1, <2>2
    <3>2. place(k) = BufferAt(bufs[k - 3 * n].p, bufs[k - 3 * n].len,
                              bufs[k - 3 * n].len)
      BY <2>2
    <3>3. QED BY <1>5, <1>7, <3>1, <3>2
  <2>3. CASE ~(k > 3 * n)
    <3> DEFINE i == (k + 2) \div 3
    <3>1. i \in 1..n /\ (k # 3 * i => k - i \in 0..(2 * n - 1))
      <4>1. i \in Int /\ 3 * i <= k + 2 /\ k + 2 < 3 * i + 3
        OBVIOUS
      <4>2. n \in Nat /\ k \in Nat /\ 1 <= k /\ k <= 3 * n
        BY <1>1, <2>3
      <4> HIDE DEF i, n
      <4>3. QED BY <4>1, <4>2
    <3>2. ~(k > 4 * n)
      BY <1>1, <2>3
    <3>3. place(k) = IF k = 3 * i THEN BufferAt(bufs[i].p, bufs[i].len, 0)
                                  ELSE word(k - i)
      BY <2>3, <3>2
    <3> HIDE DEF i, place
    <3>4. CASE k = 3 * i
      <4>1. place(k) = BufferAt(bufs[i].p, bufs[i].len, 0)
        BY <3>3, <3>4
      <4>2. QED BY <1>5, <1>7, <3>1, <4>1
    <3>5. CASE k # 3 * i
      <4>1. place(k) = word(k - i)
        BY <3>3, <3>5
      <4>2. QED BY <1>4, <1>7, <3>1, <3>5, <4>1
    <3>6. QED BY <3>4, <3>5
  <2>4. QED BY <2>1, <2>2, <2>3
<1> HIDE DEF given, place
<1>8. 4 * n + 1 \in Nat /\ DOMAIN places = 1..(4 * n + 1)
      /\ \A k \in 1..(4 * n + 1) : places[k] = place(k)
  BY <1>1
<1> HIDE DEF places
<1>9. CASE \E ret \in {"efault", "errno"} : done' = Call("iovs", ret, {}, given)
  <2>1. Sound(done') /\ done'.op = "iovs"
    BY <1>3, <1>9 DEF Sound, Call
  <2>2. QED BY <2>1, SoundIsEnough
<1>10. CASE done' \in InTurn("iovs", places, {0, 4 * n}, given)
  <2>1. \A k \in 1..(4 * n + 1) : places[k].ok =>
          Span(places[k].at, places[k].len) \subseteq given \cap Memory
    BY <1>7, <1>8
  <2>2. QED BY <1>3, <1>8, <1>10, <2>1, InTurnInv
<1>11. QED BY <1>2, <1>9, <1>10

--------------------------------------------------------------------------------
(***************************************************************************)
(* Strings.                                                                *)
(***************************************************************************)

\* Upto is what its recursive definition says, and grows with every string.
LEMMA UptoIs ==
  ASSUME NEW list \in Seq(Nat \ {0})
  PROVE  /\ Len(list) \in Nat /\ Upto(list)[0] = 0
         /\ \A i \in 0..Len(list) : Upto(list)[i] \in Nat
         /\ \A i \in 1..Len(list) :
              /\ list[i] \in Nat \ {0}
              /\ Upto(list)[i] = Upto(list)[i - 1] + list[i]
         /\ \A i \in 0..Len(list) : Upto(list)[i] <= Upto(list)[Len(list)]
<1> DEFINE n == Len(list)
           u == Upto(list)
<1>1. n \in Nat /\ \A i \in 1..n : list[i] \in Nat \ {0}
  BY LenProperties, ElementOfSeq
<1>2. PICK f \in [0..n -> Nat] :
             f[0] = 0 /\ \A i \in 1..n : f[i] = f[i - 1] + list[i]
  <2> DEFINE step == [i \in 1..n |-> [x \in Nat |-> x + list[i]]]
  <2>1. step \in [1..n -> [Nat -> Nat]]
    BY <1>1
  <2>2. \E f \in [0..n -> Nat] : Unfolds(f, n, 0, step)
    <3> HIDE DEF step, n
    <3>1. QED BY <1>1, <2>1, Recursion
  <2>3. PICK f \in [0..n -> Nat] :
               f[0] = 0 /\ \A i \in 1..n : f[i] = step[i][f[i - 1]]
    BY <2>2 DEF Unfolds
  <2>4. \A i \in 1..n : step[i][f[i - 1]] = f[i - 1] + list[i]
    <3>1. TAKE i \in 1..n
    <3>2. i - 1 \in 0..n
      BY <1>1
    <3>3. f[i - 1] \in Nat
      BY <3>2
    <3>4. QED BY <3>3
  <2>5. QED BY <2>3, <2>4
<1>3. f = [i \in 0..n |-> IF i = 0 THEN 0 ELSE f[i - 1] + list[i]]
  <2>1. \A i \in 0..n : f[i] = IF i = 0 THEN 0 ELSE f[i - 1] + list[i]
    BY <1>1, <1>2
  <2>2. QED BY <2>1
<1>4. u = [i \in 0..n |-> IF i = 0 THEN 0 ELSE u[i - 1] + list[i]]
  BY <1>3 DEF Upto
<1> HIDE DEF u
<1>5. \A i \in 1..n : u[i] = u[i - 1] + list[i]
  BY <1>1, <1>4
<1>6. \A i \in 0..n : u[i] \in Nat
  <2> DEFINE P == { i \in 0..n : u[i] \in Nat }
  <2>1. 0 \in P
    BY <1>1, <1>4
  <2>2. \A i \in 1..n : i - 1 \in P => i \in P
    BY <1>1, <1>5
  <2> HIDE DEF P
  <2>3. \A i \in 0..n : i \in P
    BY <1>1, <2>1, <2>2, Induction
  <2>4. QED BY <2>3 DEF P
<1>7. \A i \in 0..n : u[i] <= u[n]
  <2> DEFINE P == { i \in 0..n : u[n - i] <= u[n] }
  <2>1. 0 \in P
    BY <1>1, <1>6
  <2>2. ASSUME NEW i \in 1..n, i - 1 \in P PROVE i \in P
    <3>1. n - i \in 0..n /\ n - (i - 1) \in 1..n /\ n - (i - 1) - 1 = n - i
          /\ n - (i - 1) \in 0..n
      BY <1>1
    <3>2. u[n - (i - 1)] = u[n - i] + list[n - (i - 1)]
      BY <1>5, <3>1
    <3>3. list[n - (i - 1)] \in Nat
      BY <1>1, <3>1
    <3>4. u[n] \in Nat /\ u[n - i] \in Nat /\ u[n - (i - 1)] \in Nat
      BY <1>1, <1>6, <3>1
    <3>5. u[n - (i - 1)] <= u[n]
      BY <2>2
    <3>6. u[n - i] <= u[n]
      BY <3>2, <3>3, <3>4, <3>5
    <3>7. QED BY <3>6
  <2>3. \A i \in 0..n : i \in P
    <3>1. \A i \in 1..n : i - 1 \in P => i \in P
      BY <2>2
    <3> HIDE DEF P
    <3>2. QED BY <1>1, <2>1, <3>1, Induction
  <2>4. TAKE i \in 0..n
  <2>5. n - i \in 0..n /\ n - (n - i) = i
    BY <1>1
  <2>6. QED BY <2>3, <2>5
<1>8. u[0] = 0
  BY <1>1, <1>4
<1>9. QED BY <1>1, <1>5, <1>6, <1>7, <1>8 DEF u

LEMMA StringsInv ==
  ASSUME NEW list \in Seq(Nat \ {0}), NEW ptrP \in Address, NEW bufP \in Address,
         StringsGet("args", list, ptrP, bufP)
  PROVE  MemInv'
<1> DEFINE n       == Len(list)
           u       == Upto(list)
           at      == StringAt(list, bufP)
           ptr(i)  == Wrap(ptrP + Word * (i - 1))
           good(i) == Gptr(at[i], list[i]) /\ Gptr(ptr(i), Word)
           put     == { i \in 1..n : \A j \in 1..i : good(j) }
           touched == UNION { Span(at[i], list[i]) \cup Span(ptr(i), Word) : i \in put }
           pointers == Region(ptrP, Word * n)
           strings  == Region(bufP, u[n])
<1>1. /\ n \in Nat
      /\ \A i \in 0..n : u[i] \in Nat /\ u[i] <= u[n]
      /\ \A i \in 1..n : list[i] \in Nat \ {0} /\ u[i] = u[i - 1] + list[i]
  BY UptoIs
<1>2. \A i \in 1..n : at[i] = Wrap(bufP + u[i - 1])
  BY DEF StringAt
<1>3. done' = [op |-> "args", touched |-> touched, given |-> pointers \cup strings,
               ret |-> IF put = 1..n THEN "ok" ELSE "efault",
               list |-> list, ptrP |-> ptrP, bufP |-> bufP, at |-> at]
  BY DEF StringsGet, Sizes
<1>4. u[n] \in Nat /\ Sizes(list).size = u[n] /\ Sizes(list).count = n
  BY <1>1 DEF Sizes
<1> HIDE DEF n, u, at
<1>5. pointers \cup strings \subseteq 0..(Addresses - 1)
  BY <1>1, <1>4, RegionIs DEF Address, Word
<1>6. touched \subseteq (pointers \cup strings) \cap Memory
  <2>1. SUFFICES ASSUME NEW i \in 1..n, good(i)
                 PROVE  /\ Span(at[i], list[i]) \subseteq strings \cap Memory
                        /\ Span(ptr(i), Word) \subseteq pointers \cap Memory
    <3>1. ASSUME NEW i \in put PROVE i \in 1..n /\ good(i)
      <4> HIDE DEF good
      <4>1. i \in 1..n /\ \A j \in 1..i : good(j)
        OBVIOUS
      <4>2. i \in 1..i
        BY <1>1, <4>1
      <4>3. QED BY <4>1, <4>2
    <3> HIDE DEF good, put, pointers, strings, ptr
    <3>2. QED BY <3>1
  <2>2. Span(at[i], list[i]) \subseteq strings \cap Memory
    <3>1. i - 1 \in 0..n /\ i \in 0..n
      BY <1>1
    <3>2. u[i - 1] \in Nat /\ list[i] \in Nat /\ u[i - 1] + list[i] <= u[n]
      BY <1>1, <3>1
    <3>3. bufP \in Nat /\ Gptr(Wrap(bufP + u[i - 1]), list[i])
      BY <1>2, <2>1 DEF Address
    <3>4. Span(Wrap(bufP + u[i - 1]), list[i]) \subseteq strings \cap Memory
      BY <1>4, <3>2, <3>3, SpanInRegion
    <3>5. QED BY <1>2, <3>4
  <2>3. Span(ptr(i), Word) \subseteq pointers \cap Memory
    <3>1. /\ Word * (i - 1) \in Nat /\ Word * n \in Nat /\ Word \in Nat
          /\ Word * (i - 1) + Word <= Word * n /\ ptrP \in Nat
      BY <1>1 DEF Word, Address
    <3>2. Gptr(ptr(i), Word)
      BY <2>1
    <3>3. QED BY <3>1, <3>2, SpanInRegion
  <2>4. QED BY <2>2, <2>3
<1>7. ASSUME bufP + u[n] <= MemSize, ptrP + Word * n <= MemSize
      PROVE  /\ put = 1..n
             /\ \A i \in 1..n : at[i] + list[i] = IF i = n THEN bufP + u[n]
                                                ELSE at[i + 1]
  <2>1. ASSUME NEW i \in 1..n
        PROVE  at[i] = bufP + u[i - 1] /\ at[i] + list[i] = bufP + u[i] /\ good(i)
    <3>1. i - 1 \in 0..n /\ i \in 0..n /\ i \in Nat
      BY <1>1
    <3>2. u[i - 1] \in Nat /\ u[i] \in Nat /\ list[i] \in Nat \ {0}
          /\ u[i] = u[i - 1] + list[i] /\ u[i] <= u[n]
      BY <1>1, <3>1
    <3>3. bufP \in Nat /\ ptrP \in Nat /\ MemSize \in Nat /\ MemSize <= Addresses
          /\ Addresses \in Nat
      BY ShimMemoryAssumption DEF Address
    <3>4. /\ bufP + u[i - 1] < Addresses /\ bufP + u[i - 1] \in Nat
          /\ bufP + u[i] <= MemSize
      <4> DEFINE a == u[i - 1]
                 b == u[i]
                 c == u[n]
                 l == list[i]
      <4>1. /\ a \in Nat /\ b \in Nat /\ c \in Nat /\ l \in Nat \ {0}
            /\ b = a + l /\ b <= c /\ bufP + c <= MemSize
        BY <1>4, <1>7, <3>2
      <4> HIDE DEF a, b, c, l
      <4>2. bufP + a < Addresses /\ bufP + a \in Nat /\ bufP + b <= MemSize
        BY <3>3, <4>1
      <4>3. QED BY <4>2 DEF a, b
    <3>5. at[i] = bufP + u[i - 1]
      BY <1>2, <3>4, WrapIs
    <3>6. at[i] + list[i] = bufP + u[i] /\ Gptr(at[i], list[i])
      <4> DEFINE a == u[i - 1]
                 b == u[i]
                 l == list[i]
      <4>1. a \in Nat /\ b \in Nat /\ l \in Nat /\ b = a + l
            /\ bufP + b <= MemSize /\ at[i] = bufP + a
        BY <3>2, <3>4, <3>5
      <4> HIDE DEF a, b, l
      <4>2. (bufP + a) + l = bufP + b /\ (bufP + a) + l <= MemSize
        BY <3>3, <4>1
      <4>3. at[i] + l = bufP + b /\ at[i] + l <= MemSize
        BY <4>1, <4>2
      <4>4. QED BY <4>3 DEF Gptr, b, l
    <3>7. ptrP + Word * (i - 1) \in Nat /\ ptrP + Word * (i - 1) < Addresses
          /\ ptrP + Word * (i - 1) + Word <= MemSize
      BY <1>1, <1>7, <3>1, <3>3 DEF Word
    <3>8. Gptr(ptr(i), Word)
      BY <3>7, WrapIs DEF Gptr
    <3>9. QED BY <3>5, <3>6, <3>8
  <2> HIDE DEF good
  <2>2. put = 1..n
    BY <1>1, <2>1
  <2>3. ASSUME NEW i \in 1..n, i # n
        PROVE  i + 1 \in 1..n /\ (i + 1) - 1 = i
    BY <1>1, <2>3
  <2>4. ASSUME NEW i \in 1..n
        PROVE  at[i] + list[i] = IF i = n THEN bufP + u[n] ELSE at[i + 1]
    BY <2>1, <2>3
  <2>5. QED BY <2>2, <2>4
<1> HIDE DEF put, touched, pointers, strings
<1>8. Sound(done')
  BY <1>3, <1>5, <1>6 DEF Sound
<1>9. ArgsFit'
  <2>1. SUFFICES ASSUME bufP + u[n] <= MemSize, ptrP + Word * n <= MemSize
                 PROVE  /\ done'.ret = "ok"
                        /\ \A i \in 1..n :
                             at[i] + list[i] = IF i = n THEN bufP + u[n] ELSE at[i + 1]
    BY <1>3, <1>4 DEF ArgsFit, n
  <2>2. QED BY <1>3, <1>7, <2>1
<1>10. MemTypeOK' /\ StaysInBuffers' /\ PollAnswers'
  BY <1>3, <1>8 DEF Sound, MemTypeOK, StaysInBuffers, PollAnswers, Memory
<1>11. QED BY <1>9, <1>10 DEF MemInv

--------------------------------------------------------------------------------
(***************************************************************************)
(* Directory entries.                                                      *)
(***************************************************************************)

\* Heads and names go one behind the other into the buffer, the last one cut.
LEMMA FdReaddirInv ==
  ASSUME NEW bufP \in Address, NEW len \in Nat, NEW usedP \in Address,
         NEW names \in Seq(Nat \ {0}), FdReaddir(bufP, len, usedP, names)
  PROVE  MemInv'
<1> DEFINE n        == 2 * Len(names)
           part(k)  == IF k % 2 = 1 THEN DirentLen ELSE names[k \div 2]
           parts    == [k \in 1..n |-> part(k)]
           begin(k) == Upto(parts)[k - 1]
           place(k) == IF k > n THEN Place(usedP, Word)
                       ELSE IF begin(k) < len \/ k = 1
                       THEN Place(Wrap(bufP + begin(k)),
                                  Part(len, begin(k), parts[k]))
                       ELSE BufferAt(bufP, 0, 0)
           copied   == [k \in 1..(n + 1) |-> place(k)]
           buffer   == Region(bufP, len)
           used     == Region(usedP, Word)
<1>1. Len(names) \in Nat /\ \A i \in 1..Len(names) : names[i] \in Nat \ {0}
  BY LenProperties, ElementOfSeq
<1>2. done' \in InTurn("readdir", copied, {0}, buffer \cup used)
  BY Zenon DEF FdReaddir
<1>3. n \in Nat /\ parts \in Seq(Nat \ {0}) /\ Len(parts) = n
  <2>1. n \in Nat
    BY <1>1
  <2>2. ASSUME NEW k \in 1..n PROVE part(k) \in Nat \ {0}
    <3>1. CASE k % 2 = 1
      BY <3>1 DEF DirentLen
    <3>2. CASE k % 2 # 1
      <4>1. k \div 2 \in 1..Len(names)
        BY <1>1, <3>2
      <4>2. QED BY <1>1, <3>2, <4>1
    <3>3. QED BY <3>1, <3>2
  <2> HIDE DEF n, part
  <2>3. parts \in [1..n -> Nat \ {0}]
    BY <2>2
  <2>4. QED BY <2>1, <2>3, LenIs
<1>4. \A k \in 1..n : begin(k) \in Nat /\ parts[k] \in Nat
  <2> HIDE DEF n, parts
  <2>1. \A k \in 1..n : k - 1 \in 0..n
    BY <1>3
  <2>2. QED BY <1>3, <2>1, UptoIs
<1>5. n >= 1 => begin(1) = 0
  <2> HIDE DEF n, parts
  <2>1. QED BY <1>3, UptoIs
<1> HIDE DEF n, parts, begin
<1>6. buffer \cup used \subseteq 0..(Addresses - 1)
  BY RegionIs DEF Word, Address
<1>7. ASSUME NEW k \in 1..(n + 1), place(k).ok
      PROVE  Span(place(k).at, place(k).len) \subseteq (buffer \cup used) \cap Memory
  <2>1. CASE k > n
    <3>1. place(k) = Place(usedP, Word)
      BY <2>1
    <3>2. Word \in Nat
      BY DEF Word
    <3>3. QED BY <1>7, <3>1, <3>2, PlaceIs
  <2>2. CASE ~(k > n) /\ (begin(k) < len \/ k = 1)
    <3> DEFINE put == Part(len, begin(k), parts[k])
    <3>1. k \in 1..n /\ n >= 1
      BY <1>3, <2>2
    <3>2. begin(k) \in Nat /\ begin(k) <= len /\ parts[k] \in Nat
      BY <1>4, <1>5, <2>2, <3>1
    <3>3. put \in Nat /\ begin(k) + put <= len
      BY <3>2, PartIs
    <3>4. place(k) = Place(Wrap(bufP + begin(k)), put)
      BY <2>2
    <3> HIDE DEF put, place
    <3>5. Gptr(Wrap(bufP + begin(k)), put) /\ bufP \in Nat
      BY <1>7, <3>4 DEF Place, Address
    <3>6. Span(Wrap(bufP + begin(k)), put) \subseteq buffer \cap Memory
      BY <3>2, <3>3, <3>5, SpanInRegion
    <3>7. QED BY <3>4, <3>6 DEF Place
  <2>3. CASE ~(k > n) /\ ~(begin(k) < len \/ k = 1)
    <3>1. place(k) = BufferAt(bufP, 0, 0)
      BY <2>3
    <3>2. Span(bufP, 0) = {}
      BY DEF Span, Address
    <3>3. QED BY <3>1, <3>2 DEF BufferAt
  <2>4. QED BY <2>1, <2>2, <2>3
<1>8. n + 1 \in Nat /\ DOMAIN copied = 1..(n + 1)
      /\ \A k \in 1..(n + 1) : copied[k] = place(k)
  BY <1>3
<1> HIDE DEF copied, place, buffer, used
<1>9. \A k \in 1..(n + 1) : copied[k].ok =>
        Span(copied[k].at, copied[k].len) \subseteq (buffer \cup used) \cap Memory
  BY <1>7, <1>8
<1>10. QED BY <1>2, <1>6, <1>8, <1>9, InTurnInv

--------------------------------------------------------------------------------
(***************************************************************************)
(* poll_oneoff.                                                            *)
(***************************************************************************)
\* The places the descriptors' events are written to: below the number of
\* subscriptions, and each up to the number of events taken by one alone.
LEMMA EmittedIs ==
  ASSUME NEW subs, NEW n \in Nat, Len(subs) = n
  PROVE  /\ Cardinality(Fds(subs)) \in Nat
         /\ Fds(subs) = {} <=> Cardinality(Fds(subs)) = 0
         /\ \A i \in 1..n : Emitted(subs, i) \in 0..(i - 1)
         /\ \A i, j \in Fds(subs) :
              Emitted(subs, i) = Emitted(subs, j) => i = j
         /\ \A i \in Fds(subs) :
              Emitted(subs, i) \in 0..(Cardinality(Fds(subs)) - 1)
         /\ \A k \in 0..(Cardinality(Fds(subs)) - 1) :
              \E i \in Fds(subs) : Emitted(subs, i) = k
<1>1. \A j \in Fds(subs) : j \in Int /\ 1 <= j /\ j <= n
  BY DEF Fds
<1>2. \A i : Emitted(subs, i) = Cardinality(Below(Fds(subs), i))
  BY DEF Emitted, Below
<1>3. IsFiniteSet(Fds(subs))
  <2>1. Fds(subs) \in SUBSET (1..n) /\ IsFiniteSet(1..n)
    BY FS_Interval DEF Fds
  <2>2. QED BY <2>1, FS_Subset
<1>4. /\ Cardinality(Fds(subs)) \in 0..n
      /\ \A i \in 1..(n + 1) : Cardinality(Below(Fds(subs), i)) \in 0..(i - 1)
  BY <1>1, CountBelow
<1>5. \A i \in 1..n : i \in 1..(n + 1)
  OBVIOUS
<1>6. Fds(subs) = {} <=> Cardinality(Fds(subs)) = 0
  BY <1>3, FS_EmptySet
<1>7. /\ \A i, j \in Fds(subs) :
           Emitted(subs, i) = Emitted(subs, j) => i = j
      /\ \A i \in Fds(subs) :
           Emitted(subs, i) \in 0..(Cardinality(Fds(subs)) - 1)
      /\ \A k \in 0..(Cardinality(Fds(subs)) - 1) :
           \E i \in Fds(subs) : Emitted(subs, i) = k
  <2> DEFINE F == Fds(subs)
  <2>1. /\ \A i, j \in F :
              Cardinality(Below(F, i)) = Cardinality(Below(F, j)) => i = j
        /\ \A i \in F : Cardinality(Below(F, i)) \in 0..(Cardinality(F) - 1)
        /\ \A k \in 0..(Cardinality(F) - 1) :
              \E i \in F : Cardinality(Below(F, i)) = k
    <3>1. \A j \in F : j \in Int /\ 1 <= j /\ j <= n
      BY <1>1
    <3> HIDE DEF F
    <3>2. QED BY <3>1, EveryPlaceOnce
  <2>2. \A i : Emitted(subs, i) = Cardinality(Below(F, i))
    BY <1>2
  <2> HIDE DEF F
  <2>3. QED BY <2>1, <2>2 DEF F
<1>8. QED BY <1>2, <1>4, <1>5, <1>6, <1>7

Clocks(subs) == { i \in 1..Len(subs) : subs[i].tag = "clock" }

\* The loop over the subscriptions finds the clock with the least to go, if none
\* has so much that it counts as negative.
LEMMA ShortestIs ==
  ASSUME NEW n \in Nat, NEW subs \in [1..n -> Subs], Len(subs) = n,
         NEW now \in Times,
         \A i \in Clocks(subs) : Remaining(subs[i], now) < TimeSign
  PROVE  LET short == Shortest(subs, now)[n]
         IN /\ Clocks(subs) = {} => short.ns = -1
            /\ Clocks(subs) # {} =>
                 /\ short.sub \in Clocks(subs)
                 /\ short.ns = Remaining(subs[short.sub], now)
                 /\ short.ns \in Nat
                 /\ \A j \in Clocks(subs) : short.ns <= Remaining(subs[j], now)
<1> DEFINE r(i) == SignedTime(Remaining(subs[i], now))
           S == [ns : Int, sub : Nat]
           first == [ns |-> -1, sub |-> 0]
           step == [i \in 1..n |-> [x \in S |->
                      IF subs[i].tag = "clock" /\ (x.ns < 0 \/ r(i) < x.ns)
                      THEN [ns |-> r(i), sub |-> i] ELSE x]]
<1>1. ASSUME NEW i \in Clocks(subs)
      PROVE  i \in 1..n /\ r(i) = Remaining(subs[i], now) /\ r(i) \in Nat
  <2>1. i \in 1..n /\ subs[i].tag = "clock" /\ subs[i] \in Subs
    BY DEF Clocks
  <2>2. subs[i].timeout \in Times
    BY <2>1 DEF Subs
  <2>3. Remaining(subs[i], now) \in Nat
    BY <2>2, ShimMemoryAssumption DEF Remaining, Times
  <2>4. QED BY <2>1, <2>3 DEF SignedTime
<1>2. PICK s \in [0..n -> S] :
        s[0] = first /\ \A i \in 1..n : s[i] = step[i][s[i - 1]]
  <2>1. first \in S
    OBVIOUS
  <2>2. step \in [1..n -> [S -> S]]
    <3>1. ASSUME NEW i \in 1..n, NEW x \in S
          PROVE  (IF subs[i].tag = "clock" /\ (x.ns < 0 \/ r(i) < x.ns)
                  THEN [ns |-> r(i), sub |-> i] ELSE x) \in S
      <4>1. CASE subs[i].tag = "clock"
        <5>1. i \in Clocks(subs)
          BY <4>1 DEF Clocks
        <5>2. r(i) \in Int /\ i \in Nat
          BY <1>1, <5>1
        <5> HIDE DEF r
        <5>3. QED BY <5>2
      <4>2. CASE subs[i].tag # "clock"
        BY <4>2
      <4>3. QED BY <4>1, <4>2
    <3> HIDE DEF S, r
    <3>2. QED BY <3>1
  <2>3. \E s \in [0..n -> S] : Unfolds(s, n, first, step)
    <3> HIDE DEF S, step, first
    <3>1. QED BY <2>1, <2>2, Recursion
  <2> HIDE DEF S, step, first
  <2>4. QED BY <2>3 DEF Unfolds
<1>3. \A i \in 1..n : s[i] =
        IF subs[i].tag = "clock" /\ (s[i - 1].ns < 0 \/ r(i) < s[i - 1].ns)
        THEN [ns |-> r(i), sub |-> i] ELSE s[i - 1]
  <2>1. \A i \in 1..n : i - 1 \in 0..n /\ s[i - 1] \in S
    OBVIOUS
  <2> HIDE DEF r, S
  <2>2. QED BY <1>2, <2>1
<1> DEFINE m == Shortest(subs, now)
<1>4. m = [i \in 0..n |-> IF i = 0 THEN first
            ELSE IF subs[i].tag = "clock" /\ (m[i - 1].ns < 0 \/ r(i) < m[i - 1].ns)
                 THEN [ns |-> r(i), sub |-> i] ELSE m[i - 1]]
  <2>1. s = [i \in 0..n |-> IF i = 0 THEN first
            ELSE IF subs[i].tag = "clock" /\ (s[i - 1].ns < 0 \/ r(i) < s[i - 1].ns)
                 THEN [ns |-> r(i), sub |-> i] ELSE s[i - 1]]
    <3>1. \A i \in 0..n : i # 0 => i \in 1..n
      OBVIOUS
    <3> HIDE DEF r, S, first
    <3>2. QED BY <1>2, <1>3, <3>1
  <2>2. QED BY <2>1 DEF Shortest
<1> HIDE DEF m
<1>5. m[0] = first /\ \A i \in 1..n : m[i] =
        IF subs[i].tag = "clock" /\ (m[i - 1].ns < 0 \/ r(i) < m[i - 1].ns)
        THEN [ns |-> r(i), sub |-> i] ELSE m[i - 1]
  <2> DEFINE body(i) == IF i = 0 THEN first
            ELSE IF subs[i].tag = "clock" /\ (m[i - 1].ns < 0 \/ r(i) < m[i - 1].ns)
                 THEN [ns |-> r(i), sub |-> i] ELSE m[i - 1]
  <2>1. m = [i \in 0..n |-> body(i)]
    BY <1>4
  <2> HIDE DEF body
  <2>2. \A i \in 0..n : m[i] = body(i)
    BY <2>1
  <2>3. 0 \in 0..n /\ \A i \in 1..n : i \in 0..n /\ i # 0
    OBVIOUS
  <2> HIDE DEF r, first
  <2>4. m[0] = first
    BY <2>2, <2>3 DEF body
  <2>5. ASSUME NEW i \in 1..n
        PROVE  m[i] = IF subs[i].tag = "clock"
                         /\ (m[i - 1].ns < 0 \/ r(i) < m[i - 1].ns)
                      THEN [ns |-> r(i), sub |-> i] ELSE m[i - 1]
    <3>1. m[i] = body(i) /\ i # 0
      BY <2>2, <2>3
    <3>2. QED BY <3>1 DEF body
  <2>6. QED BY <2>4, <2>5
<1> DEFINE C(k) == { i \in Clocks(subs) : i <= k }
           Found(k) == /\ C(k) = {} => m[k].ns = -1
                       /\ C(k) # {} => /\ m[k].sub \in C(k)
                                      /\ m[k].ns = r(m[k].sub)
                                      /\ \A j \in C(k) : m[k].ns <= r(j)
           P == { k \in 0..n : Found(k) }
<1>6. 0 \in P
  <2>1. C(0) = {}
    BY <1>1
  <2>2. QED BY <1>5, <2>1
<1>7. ASSUME NEW k \in 1..n, k - 1 \in P PROVE k \in P
  <2>1. Found(k - 1) /\ k \in 0..n
    BY <1>7
  <2>2. CASE k \notin Clocks(subs)
    <3>1. C(k) = C(k - 1)
      BY <1>1, <2>2
    <3>2. subs[k].tag # "clock"
      BY <2>2 DEF Clocks
    <3>3. m[k] = m[k - 1]
      BY <1>5, <3>2
    <3> HIDE DEF C, r
    <3>4. QED BY <2>1, <3>1, <3>3
  <2>3. CASE k \in Clocks(subs)
    <3>1. /\ k \in C(k)
          /\ \A j \in C(k) : j = k \/ j \in C(k - 1)
          /\ \A j \in C(k - 1) : j \in C(k)
      BY <1>1, <2>3
    <3>2. subs[k].tag = "clock"
      BY <2>3 DEF Clocks
    <3>3. m[k] = IF m[k - 1].ns < 0 \/ r(k) < m[k - 1].ns
                 THEN [ns |-> r(k), sub |-> k] ELSE m[k - 1]
      BY <1>5, <3>2
    <3>4. r(k) \in Nat /\ \A j \in C(k - 1) : r(j) \in Nat
      BY <1>1, <2>3
    <3> HIDE DEF C, r
    <3>5. CASE C(k - 1) = {} \/ r(k) < m[k - 1].ns
      <4>1. m[k].ns = r(k) /\ m[k].sub = k
        BY <2>1, <3>3, <3>5
      <4>2. \A j \in C(k - 1) : r(k) <= r(j)
        <5>1. TAKE j \in C(k - 1)
        <5>2. /\ m[k - 1].sub \in C(k - 1) /\ m[k - 1].ns = r(m[k - 1].sub)
              /\ m[k - 1].ns <= r(j)
          BY <2>1
        <5>3. m[k - 1].ns \in Nat /\ r(j) \in Nat
          BY <3>4, <5>2
        <5>4. QED BY <3>4, <3>5, <5>2, <5>3
      <4>3. \A j \in C(k) : r(k) <= r(j)
        BY <3>1, <3>4, <4>2
      <4>4. Found(k)
        BY <3>1, <4>1, <4>3
      <4>5. QED BY <2>1, <4>4
    <3>6. CASE C(k - 1) # {} /\ ~(r(k) < m[k - 1].ns)
      <4>1. /\ m[k - 1].sub \in C(k - 1) /\ m[k - 1].ns = r(m[k - 1].sub)
            /\ \A j \in C(k - 1) : m[k - 1].ns <= r(j)
        BY <2>1, <3>6
      <4>2. m[k - 1].ns \in Nat
        BY <3>4, <4>1
      <4>3. m[k] = m[k - 1]
        BY <3>3, <3>6, <4>2
      <4>4. m[k - 1].ns <= r(k)
        BY <3>4, <3>6, <4>2
      <4>5. Found(k)
        BY <3>1, <4>1, <4>3, <4>4
      <4>6. QED BY <2>1, <4>5
    <3>7. QED BY <3>5, <3>6
  <2>4. QED BY <2>2, <2>3
<1>8. Found(n)
  <2>1. \A k \in 1..n : k - 1 \in P => k \in P
    BY <1>7
  <2> HIDE DEF P
  <2>2. \A k \in 0..n : k \in P
    BY <1>6, <2>1, Induction
  <2>3. n \in 0..n
    OBVIOUS
  <2>4. QED BY <2>2, <2>3 DEF P
<1>9. C(n) = Clocks(subs)
  BY <1>1
<1> HIDE DEF C, r
<1>10. QED BY <1>1, <1>8, <1>9 DEF m

\* What the host touches: the subscriptions, a place in the guest's list of
\* events for each descriptor among them or for the clock, and the count.
LEMMA PollSound ==
  ASSUME NEW n \in Nat \ {0}, NEW subs \in [1..n -> Subs], NEW now \in Times,
         NEW inP \in Address, NEW outP \in Address, NEW countP \in Address,
         PollOneoff(inP, outP, countP, subs, now)
  PROVE  Sound(done')
<1> DEFINE sub(i)   == Wrap(inP + SubLen * (i - 1))
           event(i) == Wrap(outP + EventLen * Emitted(subs, i))
           good(i)  == /\ Gptr(sub(i), SubLen)
                       /\ i \in Fds(subs) => Gptr(event(i), EventLen)
           read     == { i \in 1..n : \A j \in 1..i : good(j) }
           short    == Shortest(subs, now)[n]
           clock    == Fds(subs) = {} /\ short.ns >= 0
           faults   == \/ read # 1..n
                       \/ clock /\ ~Gptr(outP, EventLen)
                       \/ ~Gptr(countP, Word)
           slot(i)  == IF i \in Fds(subs) THEN Span(event(i), EventLen) ELSE {}
           lists    == UNION { Span(sub(i), SubLen) \cup slot(i) : i \in read }
           alarm    == IF read = 1..n /\ clock /\ Gptr(outP, EventLen)
                       THEN Span(outP, EventLen) ELSE {}
           count    == IF ~faults THEN Span(countP, Word) ELSE {}
           inBuf    == Region(inP, SubLen * n)
           outBuf   == Region(outP, EventLen * n)
           countBuf == Region(countP, Word)
<1>1. Len(subs) = n
  BY LenIs
<1>2. /\ done'.touched = alarm \cup count \cup lists
      /\ done'.given = inBuf \cup outBuf \cup countBuf
      /\ done'.ret = IF faults THEN "efault" ELSE "ok"
  <2> HIDE DEF Address
  <2>1. n # 0
    OBVIOUS
  <2>2. QED BY <1>1, <2>1 DEF PollOneoff
<1>3. inBuf \cup outBuf \cup countBuf \subseteq 0..(Addresses - 1)
  BY RegionIs DEF Address, SubLen, EventLen, Word
<1>4. alarm \subseteq outBuf \cap Memory
  <2>1. SUFFICES ASSUME Gptr(outP, EventLen)
                 PROVE  Span(outP, EventLen) \subseteq outBuf \cap Memory
    OBVIOUS
  <2>2. outP \in Nat /\ Wrap(outP + 0) = outP
    BY WrapIs, ShimMemoryAssumption DEF Address
  <2>3. EventLen \in Nat /\ EventLen * n \in Nat /\ 0 + EventLen <= EventLen * n
    BY DEF EventLen
  <2>4. Gptr(Wrap(outP + 0), EventLen)
    BY <2>1, <2>2
  <2>5. Span(Wrap(outP + 0), EventLen) \subseteq outBuf \cap Memory
    BY <2>2, <2>3, <2>4, SpanInRegion
  <2>6. QED BY <2>2, <2>5
<1>5. count \subseteq countBuf \cap Memory
  BY SpanOfPointer DEF Word, Address
<1>6. lists \subseteq (inBuf \cup outBuf) \cap Memory
  <2>1. ASSUME NEW i \in read PROVE i \in 1..n /\ good(i)
    <3> HIDE DEF good
    <3>1. i \in 1..n /\ \A j \in 1..i : good(j)
      OBVIOUS
    <3>2. i \in 1..i
      BY <3>1
    <3>3. QED BY <3>1, <3>2
  <2>2. ASSUME NEW i \in 1..n, good(i)
        PROVE  Span(sub(i), SubLen) \subseteq inBuf \cap Memory
    <3>1. /\ SubLen * (i - 1) \in Nat /\ SubLen * n \in Nat /\ SubLen \in Nat
          /\ SubLen * (i - 1) + SubLen <= SubLen * n /\ inP \in Nat
      BY DEF SubLen, Address
    <3>2. Gptr(sub(i), SubLen)
      BY <2>2
    <3>3. QED BY <3>1, <3>2, SpanInRegion
  <2>3. ASSUME NEW i \in 1..n, good(i)
        PROVE  slot(i) \subseteq outBuf \cap Memory
    <3>1. SUFFICES ASSUME Gptr(event(i), EventLen)
                   PROVE  Span(event(i), EventLen) \subseteq outBuf \cap Memory
      BY <2>3
    <3>2. Emitted(subs, i) \in 0..(i - 1)
      BY <1>1, EmittedIs
    <3>3. /\ EventLen * Emitted(subs, i) \in Nat /\ EventLen * n \in Nat
          /\ EventLen * Emitted(subs, i) + EventLen <= EventLen * n
          /\ EventLen \in Nat /\ outP \in Nat
      BY <3>2 DEF EventLen, Address
    <3>4. QED BY <3>1, <3>3, SpanInRegion
  <2> HIDE DEF read, good, sub, slot, inBuf, outBuf
  <2>4. QED BY <2>1, <2>2, <2>3
<1> HIDE DEF alarm, count, lists, inBuf, outBuf, countBuf, faults
<1>7. QED BY <1>2, <1>3, <1>4, <1>5, <1>6 DEF Sound

\* What is answered to a poll.
Answered(subs, now, events, slept) ==
  LET wait(i) == Remaining(subs[i], now)
      got     == { events[k] : k \in 1..Len(events) }
  IN (\A i \in Clocks(subs) : wait(i) < TimeSign) =>
       IF Fds(subs) # {} THEN got = Fds(subs) /\ slept = 0
       ELSE IF Clocks(subs) = {} THEN got = {}
       ELSE /\ Len(events) = 1
            /\ \E i \in Clocks(subs) :
                 /\ got = {i}
                 /\ slept = wait(i)
                 /\ \A j \in Clocks(subs) : wait(i) <= wait(j)

LEMMA AnsweredIs ==
  /\ PollAnswers =>
       ((done.op = "poll" /\ done.ret = "ok") =>
          Answered(done.subs, done.now, done.events, done.slept))
  /\ ((done'.op = "poll" /\ done'.ret = "ok") =>
        Answered(done'.subs, done'.now, done'.events, done'.slept)) => PollAnswers'
BY DEF Answered, PollAnswers, Clocks

LEMMA PollAnswersInv ==
  ASSUME NEW n \in Nat \ {0}, NEW subs \in [1..n -> Subs], NEW now \in Times,
         NEW inP, NEW outP, NEW countP, PollOneoff(inP, outP, countP, subs, now)
  PROVE  PollAnswers'
<1> DEFINE wait(i) == Remaining(subs[i], now)
           short   == Shortest(subs, now)[n]
           c       == Cardinality(Fds(subs))
           clock   == Fds(subs) = {} /\ short.ns >= 0
           events  == IF clock THEN <<short.sub>>
                      ELSE [k \in 1..c |->
                              CHOOSE i \in Fds(subs) : Emitted(subs, i) = k - 1]
           got     == { events[k] : k \in 1..Len(events) }
           slept   == IF clock THEN short.ns ELSE 0
<1>1. Len(subs) = n
  BY LenIs
<1>2. /\ done'.subs = subs /\ done'.now = now
      /\ done'.events = events /\ done'.slept = slept
  <2>1. n # 0
    OBVIOUS
  <2>2. QED BY <1>1, <2>1 DEF PollOneoff
<1>3. SUFFICES ASSUME \A i \in Clocks(subs) : wait(i) < TimeSign
      PROVE  IF Fds(subs) # {} THEN got = Fds(subs) /\ slept = 0
             ELSE IF Clocks(subs) = {} THEN got = {}
             ELSE /\ Len(events) = 1
                  /\ \E i \in Clocks(subs) :
                       /\ got = {i}
                       /\ slept = wait(i)
                       /\ \A j \in Clocks(subs) : wait(i) <= wait(j)
  <2>1. Answered(subs, now, events, slept)
    BY <1>3 DEF Answered
  <2> HIDE DEF events, slept
  <2>2. QED BY <1>2, <2>1, AnsweredIs
<1>4. /\ Clocks(subs) = {} => short.ns = -1
      /\ Clocks(subs) # {} =>
           /\ short.sub \in Clocks(subs)
           /\ short.ns = wait(short.sub)
           /\ short.ns \in Nat
           /\ \A j \in Clocks(subs) : short.ns <= wait(j)
  BY <1>1, <1>3, ShortestIs
<1>5. c \in Nat /\ (Fds(subs) = {} <=> c = 0)
  BY <1>1, EmittedIs
<1> HIDE DEF wait, c, short
<1>6. CASE Fds(subs) # {}
  <2> DEFINE at(k) == CHOOSE i \in Fds(subs) : Emitted(subs, i) = k - 1
  <2>1. ~clock /\ slept = 0
    BY <1>6
  <2>2. events = [k \in 1..c |-> at(k)]
    BY <2>1
  <2>3. \A k \in 1..c : at(k) \in Fds(subs)
    <3>1. TAKE k \in 1..c
    <3>2. k - 1 \in 0..(c - 1)
      BY <1>5
    <3>3. \E i \in Fds(subs) : Emitted(subs, i) = k - 1
      BY <1>1, <3>2, EmittedIs DEF c
    <3>4. QED BY <3>3
  <2>4. \A i \in Fds(subs) : \E k \in 1..c : at(k) = i
    <3>1. TAKE i \in Fds(subs)
    <3>2. Emitted(subs, i) \in 0..(c - 1)
      BY <1>1, EmittedIs DEF c
    <3>3. Emitted(subs, i) + 1 \in 1..c /\ (Emitted(subs, i) + 1) - 1 = Emitted(subs, i)
      BY <1>5, <3>2
    <3>4. at(Emitted(subs, i) + 1) \in Fds(subs)
          /\ Emitted(subs, at(Emitted(subs, i) + 1)) = Emitted(subs, i)
      BY <3>3
    <3>5. at(Emitted(subs, i) + 1) = i
      BY <1>1, <3>4, EmittedIs
    <3>6. QED BY <3>3, <3>5
  <2> HIDE DEF at, events, slept
  <2>5. Len(events) = c /\ \A k \in 1..c : events[k] = at(k)
    BY <1>5, <2>2, LenIs
  <2>6. got = Fds(subs)
    BY <2>3, <2>4, <2>5
  <2>7. QED BY <1>6, <2>1, <2>6
<1>7. CASE Fds(subs) = {} /\ Clocks(subs) = {}
  <2>1. ~clock
    BY <1>4, <1>7
  <2>2. c = 0
    BY <1>5, <1>7
  <2>3. events = [k \in 1..0 |-> CHOOSE i \in Fds(subs) : Emitted(subs, i) = k - 1]
    BY <2>1, <2>2
  <2>4. Len(events) = 0
    <3>1. events \in [1..0 -> {}]
      BY <2>3
    <3> HIDE DEF events
    <3>2. QED BY <3>1, LenIs
  <2> HIDE DEF events
  <2>5. got = {}
    BY <2>4
  <2>6. QED BY <1>7, <2>5
<1>8. CASE Fds(subs) = {} /\ Clocks(subs) # {}
  <2>1. clock
    BY <1>4, <1>8
  <2>2. events = <<short.sub>> /\ slept = short.ns
    BY <2>1
  <2> HIDE DEF events, slept
  <2>3. Len(events) = 1 /\ got = {short.sub}
    BY <2>2
  <2>4. QED BY <1>4, <1>8, <2>2, <2>3
<1>9. QED BY <1>6, <1>7, <1>8

LEMMA PollInv ==
  ASSUME NEW n \in Nat, NEW subs \in [1..n -> Subs], NEW now \in Times,
         NEW inP \in Address, NEW outP \in Address, NEW countP \in Address,
         PollOneoff(inP, outP, countP, subs, now)
  PROVE  MemInv'
<1>1. Len(subs) = n
  BY LenIs
<1>2. done'.op = "poll"
  BY DEF PollOneoff, Call
<1>3. CASE n = 0
  <2>1. done' = Call("poll", "einval", {}, Region(inP, SubLen * n)
                       \cup Region(outP, EventLen * n) \cup Region(countP, Word))
    BY <1>1, <1>3 DEF PollOneoff
  <2>2. Region(inP, SubLen * n) \cup Region(outP, EventLen * n)
          \cup Region(countP, Word) \subseteq 0..(Addresses - 1)
    BY RegionIs DEF Address, SubLen, EventLen, Word
  <2>3. QED BY <2>1, <2>2
    DEF Call, MemInv, MemTypeOK, StaysInBuffers, ArgsFit, PollAnswers
<1>4. CASE n # 0
  <2>1. Sound(done') /\ PollAnswers'
    BY <1>4, PollSound, PollAnswersInv
  <2>2. QED BY <1>2, <2>1
    DEF Sound, MemInv, MemTypeOK, StaysInBuffers, ArgsFit, Memory
<1>5. QED BY <1>3, <1>4

--------------------------------------------------------------------------------
(***************************************************************************)
(* The calls that use memory, together, and the properties.                *)
(***************************************************************************)
LEMMA MemNextInv ==
  ASSUME MemNext PROVE MemInv'
<1>1. PICK p, q, r \in Pointers :
       \/ \E n \in 0..MaxSubs : \E subs \in [1..n -> Subs], now \in Times :
            PollOneoff(p, q, r, subs, now)
       \/ FilestatGet(p) \/ FdstatGet(p) \/ PrestatGet(p) \/ SeekOrTell(p)
       \/ SizesGet(p, q) \/ ArgsGet(p, q) \/ EnvironGet(p, q)
       \/ \E n, m \in Lens :
            \/ RandomGet(p, n) \/ PrestatDirName(p, n) \/ ClockTimeGet(n, p)
            \/ PathOnly(p, n) \/ TwoPaths(p, n, q, m)
            \/ PathFilestatGet(p, n, q) \/ OpenPath(p, n, q)
            \/ \E target \in Lens : PathReadlink(p, n, q, m, r, target)
            \/ \E k \in 0..MaxList :
                 \/ \E bufs \in [1..k -> {[p |-> q, len |-> n],
                                         [p |-> r, len |-> m]}] : Iovs(p, bufs, q)
                 \/ \E names \in [1..k -> Lens \ {0}] : FdReaddir(p, n, q, names)
  BY DEF MemNext
<1>2. p \in Address /\ q \in Address /\ r \in Address
  BY ShimMemoryAssumption DEF Address
<1>3. ASSUME NEW n \in 0..MaxSubs, NEW subs \in [1..n -> Subs], NEW now \in Times,
             PollOneoff(p, q, r, subs, now)
      PROVE  MemInv'
  <2>1. n \in Nat
    OBVIOUS
  <2>2. QED BY <1>2, <1>3, <2>1, PollInv
<1>4. CASE FilestatGet(p) \/ FdstatGet(p) \/ PrestatGet(p) \/ SeekOrTell(p)
  <2>1. 0 \in Nat
    OBVIOUS
  <2>2. QED BY <1>2, <1>4, <2>1, FixedInv
<1>5. CASE SizesGet(p, q)
  BY <1>2, <1>5, SizesInv
<1>6. CASE ArgsGet(p, q) \/ EnvironGet(p, q)
  BY <1>2, <1>6, StringsInv, ShimMemoryAssumption DEF ArgsGet, EnvironGet
<1>7. ASSUME NEW n \in Lens, NEW m \in Lens,
             \/ RandomGet(p, n) \/ PrestatDirName(p, n) \/ ClockTimeGet(n, p)
             \/ PathOnly(p, n) \/ TwoPaths(p, n, q, m)
             \/ PathFilestatGet(p, n, q) \/ OpenPath(p, n, q)
             \/ \E target \in Lens : PathReadlink(p, n, q, m, r, target)
             \/ \E k \in 0..MaxList :
                  \/ \E bufs \in [1..k -> {[p |-> q, len |-> n],
                                          [p |-> r, len |-> m]}] : Iovs(p, bufs, q)
                  \/ \E names \in [1..k -> Lens \ {0}] : FdReaddir(p, n, q, names)
      PROVE  MemInv'
  <2>1. n \in Nat /\ m \in Nat /\ \A target \in Lens : target \in Nat
    BY ShimMemoryAssumption
  <2>2. CASE RandomGet(p, n) \/ ClockTimeGet(n, p)
    BY <1>2, <2>1, <2>2, FixedInv
  <2>3. CASE PrestatDirName(p, n)
    BY <1>2, <2>1, <2>3, PrestatDirNameInv
  <2>4. CASE PathOnly(p, n)
    BY <1>2, <2>1, <2>4, PathOnlyInv
  <2>5. CASE TwoPaths(p, n, q, m) \/ PathFilestatGet(p, n, q) \/ OpenPath(p, n, q)
    BY <1>2, <2>1, <2>5, PathsInv
  <2>6. ASSUME NEW target \in Lens, PathReadlink(p, n, q, m, r, target)
        PROVE  MemInv'
    BY <1>2, <2>1, <2>6, PathReadlinkInv
  <2>7. ASSUME NEW k \in 0..MaxList,
               NEW bufs \in [1..k -> {[p |-> q, len |-> n], [p |-> r, len |-> m]}],
               Iovs(p, bufs, q)
        PROVE  MemInv'
    <3>1. k \in Nat
      BY ShimMemoryAssumption
    <3>2. bufs \in [1..k -> [p : Address, len : Nat]]
      BY <1>2, <2>1
    <3>3. bufs \in Seq([p : Address, len : Nat])
      BY <3>1, <3>2, LenIs
    <3>4. QED BY <1>2, <2>7, <3>3, IovsInv
  <2>8. ASSUME NEW k \in 0..MaxList, NEW names \in [1..k -> Lens \ {0}],
               FdReaddir(p, n, q, names)
        PROVE  MemInv'
    <3>1. k \in Nat
      BY ShimMemoryAssumption
    <3>2. \A i \in 1..k : names[i] \in Nat \ {0}
      BY <2>1
    <3>3. names \in [1..k -> Nat \ {0}]
      BY <3>2
    <3>4. names \in Seq(Nat \ {0})
      BY <3>1, <3>3, LenIs
    <3>5. QED BY <1>2, <2>1, <2>8, <3>4, FdReaddirInv
  <2>9. QED BY <1>7, <2>2, <2>3, <2>4, <2>5, <2>6, <2>7, <2>8
<1>8. QED BY <1>1, <1>3, <1>4, <1>5, <1>6, <1>7

LEMMA MemAlwaysInv == Spec => []MemInv
<1>1. Init => MemInv
  BY MemInitInv DEF Init
<1>2. MemInv /\ [Next]_vars => MemInv'
  <2>1. SUFFICES ASSUME MemInv, [Next]_vars PROVE MemInv'
    OBVIOUS
  <2>2. MemNext \/ UNCHANGED done
    BY <2>1 DEF Next, vars, UsesFiles, UsesDir, UsesMemory
  <2>3. CASE UNCHANGED done
    <3>1. MemTypeOK' /\ StaysInBuffers' /\ ArgsFit'
      BY <2>1, <2>3 DEF MemInv, MemTypeOK, StaysInBuffers, ArgsFit
    <3>2. PollAnswers'
      BY <2>1, <2>3, AnsweredIs DEF MemInv
    <3>3. QED BY <3>1, <3>2 DEF MemInv
  <2>4. QED BY <2>2, <2>3, MemNextInv
<1>3. QED BY <1>1, <1>2, PTL DEF Spec

\* Every call answers with a code it knows, and the buffers a guest names are
\* places in its address space, wherever the sums wrap.
THEOREM MemTypesAreKept == Spec => []MemTypeOK
<1>1. MemInv => MemTypeOK
  BY DEF MemInv
<1>2. QED BY <1>1, MemAlwaysInv, PTL

\* For every size of memory, every pointer and every length, for results, names,
\* paths, links, directory entries and lists of buffers, strings and
\* subscriptions of any size, the host touches only guest memory that the call
\* was given: in each call of the shim that reads or writes guest memory, also
\* if it fails half way.
THEOREM HostStaysInBuffers == Spec => []StaysInBuffers
<1>1. MemInv => StaysInBuffers
  BY DEF MemInv
<1>2. QED BY <1>1, MemAlwaysInv, PTL

\* A guest that made the room args_sizes_get asked for gets every string, one
\* directly behind the other, however many there are and however long.
THEOREM ArgumentsFit == Spec => []ArgsFit
<1>1. MemInv => ArgsFit
  BY DEF MemInv
<1>2. QED BY <1>1, MemAlwaysInv, PTL

\* Of every list of subscriptions poll_oneoff reports each descriptor once, or,
\* if there is none, sleeps for the clock that has least to go and reports it.
THEOREM PollsAreAnswered == Spec => []PollAnswers
<1>1. MemInv => PollAnswers
  BY DEF MemInv
<1>2. QED BY <1>1, MemAlwaysInv, PTL

--------------------------------------------------------------------------------
(***************************************************************************)
(* Directories: entries that come and go.                                  *)
(***************************************************************************)
Entry == [name : Names, kind : Kinds]
Distinct(d) == \A i, j \in 1..Len(d) : d[i].name = d[j].name => i = j

\* A new entry moves those behind it one further.
LEMMA InsertIs ==
  ASSUME NEW d \in Seq(Entry), NEW i \in 0..Len(d), NEW e \in Entry
  PROVE  /\ InsertAt(d, i, e) \in Seq(Entry)
         /\ Len(InsertAt(d, i, e)) = Len(d) + 1
         /\ \A k \in 1..(Len(d) + 1) :
              InsertAt(d, i, e)[k] = IF k <= i THEN d[k]
                                     ELSE IF k = i + 1 THEN e ELSE d[k - 1]
<1> DEFINE n == Len(d)
           a == SubSeq(d, 1, i)
           b == <<e>>
           c == SubSeq(d, i + 1, n)
<1>1. n \in Nat /\ i \in Int /\ i + 1 \in Int /\ \A k \in 1..n : d[k] \in Entry
  BY LenProperties, ElementOfSeq
<1>2. a \in Seq(Entry) /\ Len(a) = i /\ \A k \in 1..i : a[k] = d[k]
  <2>1. \A k \in 1..i : d[k] \in Entry
    BY <1>1
  <2>2. /\ a \in Seq(Entry) /\ Len(a) = (IF 1 <= i THEN i - 1 + 1 ELSE 0)
        /\ \A k \in 1..(i - 1 + 1) : a[k] = d[1 + k - 1]
    BY <1>1, <2>1, SubSeqProperties
  <2> HIDE DEF a
  <2>3. QED BY <1>1, <2>2
<1>3. c \in Seq(Entry) /\ Len(c) = n - i /\ \A k \in 1..(n - i) : c[k] = d[i + k]
  <2>1. \A k \in (i + 1)..n : d[k] \in Entry
    BY <1>1
  <2>2. /\ c \in Seq(Entry)
        /\ Len(c) = (IF i + 1 <= n THEN n - (i + 1) + 1 ELSE 0)
        /\ \A k \in 1..(n - (i + 1) + 1) : c[k] = d[(i + 1) + k - 1]
    BY <1>1, <2>1, SubSeqProperties
  <2> HIDE DEF c
  <2>3. QED BY <1>1, <2>2
<1>4. b \in Seq(Entry) /\ Len(b) = 1 /\ b[1] = e
  OBVIOUS
<1> HIDE DEF a, b, c
<1>5. /\ a \o b \in Seq(Entry) /\ Len(a \o b) = i + 1
      /\ \A k \in 1..(i + 1) : (a \o b)[k] = IF k <= i THEN d[k] ELSE e
  <2>1. /\ a \o b \in Seq(Entry) /\ Len(a \o b) = i + 1
        /\ \A k \in 1..(i + 1) :
             (a \o b)[k] = IF k <= i THEN a[k] ELSE b[k - i]
    <3>1. /\ a \o b \in Seq(Entry) /\ Len(a \o b) = Len(a) + Len(b)
          /\ \A k \in 1..(Len(a) + Len(b)) :
               (a \o b)[k] = IF k <= Len(a) THEN a[k] ELSE b[k - Len(a)]
      BY <1>2, <1>4, ConcatProperties
    <3>2. QED BY <1>2, <1>4, <3>1
  <2>2. \A k \in 1..(i + 1) : ~(k <= i) => k - i = 1
    BY <1>1
  <2>3. QED BY <1>1, <1>2, <1>4, <2>1, <2>2
<1>6. /\ (a \o b) \o c \in Seq(Entry) /\ Len((a \o b) \o c) = n + 1
      /\ \A k \in 1..(n + 1) : ((a \o b) \o c)[k] =
           IF k <= i + 1 THEN (a \o b)[k] ELSE c[k - (i + 1)]
  <2>1. (i + 1) + (n - i) = n + 1
    BY <1>1
  <2>2. QED BY <1>3, <1>5, <2>1, ConcatProperties
<1>7. InsertAt(d, i, e) = (a \o b) \o c
  BY DEF InsertAt, a, b, c
<1> HIDE DEF n
<1>8. ASSUME NEW k \in 1..(n + 1)
      PROVE  ((a \o b) \o c)[k] = IF k <= i THEN d[k]
                                  ELSE IF k = i + 1 THEN e ELSE d[k - 1]
  <2>1. CASE k <= i + 1
    <3>1. k \in 1..(i + 1)
      BY <1>1, <2>1
    <3>2. QED BY <1>1, <1>5, <1>6, <2>1, <3>1
  <2>2. CASE ~(k <= i + 1)
    <3>1. k - (i + 1) \in 1..(n - i) /\ i + (k - (i + 1)) = k - 1
      BY <1>1, <2>2
    <3>2. c[k - (i + 1)] = d[k - 1]
      BY <1>3, <3>1
    <3>3. ((a \o b) \o c)[k] = c[k - (i + 1)]
      BY <1>6, <2>2
    <3>4. ~(k <= i) /\ k # i + 1
      BY <1>1, <2>2
    <3>5. QED BY <3>2, <3>3, <3>4
  <2>3. QED BY <2>1, <2>2
<1>9. QED BY <1>6, <1>7, <1>8 DEF n

LEMMA InsertKeeps ==
  ASSUME NEW d \in Seq(Entry), Distinct(d), NEW i \in 0..Len(d), NEW e \in Entry,
         e.name \notin NamesOf(d)
  PROVE  /\ Distinct(InsertAt(d, i, e))
         /\ NamesOf(InsertAt(d, i, e)) = NamesOf(d) \cup {e.name}
<1> DEFINE n == Len(d)
           f == InsertAt(d, i, e)
<1>1. /\ n \in Nat /\ Len(f) = n + 1
      /\ \A k \in 1..(n + 1) :
           f[k] = IF k <= i THEN d[k] ELSE IF k = i + 1 THEN e ELSE d[k - 1]
  <2>1. n \in Nat
    BY LenProperties
  <2>2. QED BY <2>1, InsertIs
<1>2. \A k \in 1..n : d[k].name # e.name
  BY DEF NamesOf
<1>3. i \in 0..n
  OBVIOUS
<1> HIDE DEF f
<1>4. \A k \in 1..(n + 1) : k = i + 1 \/ (k <= i /\ k \in 1..n)
                             \/ (~(k <= i) /\ k # i + 1 /\ k - 1 \in 1..n)
  BY <1>1, <1>3
<1>5. Distinct(f)
  <2>1. SUFFICES ASSUME NEW j \in 1..(n + 1), NEW k \in 1..(n + 1),
                        f[j].name = f[k].name
                 PROVE  j = k
    BY <1>1 DEF Distinct
  <2> DEFINE place(m) == IF m <= i THEN m ELSE m - 1
  <2>2. \A m \in 1..(n + 1) :
          m # i + 1 => place(m) \in 1..n /\ f[m] = d[place(m)]
    BY <1>1, <1>4
  <2>3. CASE j = i + 1 \/ k = i + 1
    <3>1. f[i + 1] = e
      BY <1>1, <1>3
    <3> HIDE DEF place
    <3>2. QED BY <1>2, <2>1, <2>2, <2>3, <3>1
  <2>4. CASE j # i + 1 /\ k # i + 1
    <3>1. place(j) = place(k)
      <4> HIDE DEF place
      <4>1. QED BY <2>1, <2>2, <2>4 DEF Distinct
    <3>2. QED BY <1>1, <1>3, <2>4, <3>1
  <2>5. QED BY <2>3, <2>4
<1>6. ASSUME NEW k \in 1..(n + 1) PROVE f[k].name \in NamesOf(d) \cup {e.name}
  BY <1>1, <1>4 DEF NamesOf
<1>7. ASSUME NEW k \in 1..n PROVE \E m \in 1..(n + 1) : f[m].name = d[k].name
  <2>1. CASE k <= i
    <3>1. k \in 1..(n + 1) /\ f[k] = d[k]
      BY <1>1, <2>1
    <3>2. QED BY <3>1
  <2>2. CASE ~(k <= i)
    <3>1. k + 1 \in 1..(n + 1) /\ ~(k + 1 <= i) /\ k + 1 # i + 1 /\ (k + 1) - 1 = k
      BY <1>1, <1>3, <2>2
    <3>2. f[k + 1] = d[k]
      BY <1>1, <3>1
    <3>3. QED BY <3>1, <3>2
  <2>3. QED BY <2>1, <2>2
<1>8. i + 1 \in 1..(n + 1) /\ f[i + 1] = e
  BY <1>1, <1>3
<1>9. NamesOf(f) = NamesOf(d) \cup {e.name}
  <2>1. NamesOf(f) = { f[k].name : k \in 1..(n + 1) }
    BY <1>1 DEF NamesOf
  <2>2. \A x \in NamesOf(f) : x \in NamesOf(d) \cup {e.name}
    BY <1>6, <2>1
  <2>3. \A x \in NamesOf(d) : x \in NamesOf(f)
    <3>1. TAKE x \in NamesOf(d)
    <3>2. PICK k \in 1..n : x = d[k].name
      BY DEF NamesOf
    <3>3. QED BY <1>7, <2>1, <3>2
  <2>4. e.name \in NamesOf(f)
    BY <1>8, <2>1
  <2>5. QED BY <2>2, <2>3, <2>4
<1>10. QED BY <1>5, <1>9 DEF f

\* An entry that goes lets those behind it move up.
LEMMA WithoutIs ==
  ASSUME NEW d \in Seq(Entry), NEW n, n \in NamesOf(d)
  PROVE  \E p \in 1..Len(d) :
           /\ d[p].name = n
           /\ Without(d, n) \in Seq(Entry)
           /\ Len(Without(d, n)) = Len(d) - 1
           /\ \A k \in 1..(Len(d) - 1) :
                Without(d, n)[k] = IF k < p THEN d[k] ELSE d[k + 1]
<1> DEFINE l == Len(d)
           p == PlaceOf(d, n)
           a == SubSeq(d, 1, p - 1)
           b == SubSeq(d, p + 1, l)
<1>1. l \in Nat /\ \A k \in 1..l : d[k] \in Entry
  BY LenProperties, ElementOfSeq
<1>2. p \in 1..l /\ d[p].name = n
  BY DEF PlaceOf, NamesOf
<1> HIDE DEF p
<1>3. a \in Seq(Entry) /\ Len(a) = p - 1 /\ \A k \in 1..(p - 1) : a[k] = d[k]
  <2>1. \A k \in 1..(p - 1) : d[k] \in Entry
    BY <1>1, <1>2
  <2>2. 1 \in Int /\ p - 1 \in Int
    BY <1>2
  <2>3. /\ a \in Seq(Entry)
        /\ Len(a) = (IF 1 <= p - 1 THEN (p - 1) - 1 + 1 ELSE 0)
        /\ \A k \in 1..((p - 1) - 1 + 1) : a[k] = d[1 + k - 1]
    BY <2>1, <2>2, SubSeqProperties
  <2> HIDE DEF a
  <2>4. QED BY <1>1, <1>2, <2>3
<1>4. b \in Seq(Entry) /\ Len(b) = l - p /\ \A k \in 1..(l - p) : b[k] = d[p + k]
  <2>1. \A k \in (p + 1)..l : d[k] \in Entry
    BY <1>1, <1>2
  <2>2. p + 1 \in Int /\ l \in Int
    BY <1>1, <1>2
  <2>3. /\ b \in Seq(Entry)
        /\ Len(b) = (IF p + 1 <= l THEN l - (p + 1) + 1 ELSE 0)
        /\ \A k \in 1..(l - (p + 1) + 1) : b[k] = d[(p + 1) + k - 1]
    BY <2>1, <2>2, SubSeqProperties
  <2> HIDE DEF b
  <2>4. QED BY <1>1, <1>2, <2>3
<1>5. Without(d, n) = a \o b
  BY DEF Without, p
<1> HIDE DEF a, b
<1>6. /\ a \o b \in Seq(Entry) /\ Len(a \o b) = Len(a) + Len(b)
      /\ \A k \in 1..(Len(a) + Len(b)) :
           (a \o b)[k] = IF k <= Len(a) THEN a[k] ELSE b[k - Len(a)]
  BY <1>3, <1>4, ConcatProperties
<1>7. Len(a) + Len(b) = l - 1
  BY <1>1, <1>2, <1>3, <1>4
<1>8. ASSUME NEW k \in 1..(l - 1)
      PROVE  (a \o b)[k] = IF k < p THEN d[k] ELSE d[k + 1]
  <2>1. CASE k < p
    <3>1. k \in 1..(p - 1) /\ k <= Len(a)
      BY <1>2, <1>3, <2>1
    <3>2. QED BY <1>3, <1>6, <1>7, <2>1, <3>1
  <2>2. CASE ~(k < p)
    <3>1. k - (p - 1) \in 1..(l - p) /\ ~(k <= Len(a)) /\ p + (k - (p - 1)) = k + 1
      BY <1>1, <1>2, <1>3, <2>2
    <3>2. (a \o b)[k] = b[k - (p - 1)]
      BY <1>3, <1>6, <1>7, <3>1
    <3>3. b[k - (p - 1)] = d[k + 1]
      BY <1>4, <3>1
    <3>4. QED BY <2>2, <3>2, <3>3
  <2>3. QED BY <2>1, <2>2
<1>9. QED BY <1>2, <1>5, <1>6, <1>7, <1>8

\* Without looks at every other entry, no further forward than it was.
LEMMA WithoutKeeps ==
  ASSUME NEW d \in Seq(Entry), Distinct(d), NEW n
  PROVE  /\ Without(d, n) \in Seq(Entry)
         /\ Distinct(Without(d, n))
         /\ NamesOf(Without(d, n)) \subseteq NamesOf(d)
         /\ n \notin NamesOf(Without(d, n))
         /\ \A k \in 1..Len(Without(d, n)) :
              \E j \in 1..Len(d) : k <= j /\ Without(d, n)[k] = d[j]
<1>1. CASE n \notin NamesOf(d)
  <2>1. Without(d, n) = d
    BY <1>1 DEF Without
  <2>2. \A k \in 1..Len(d) : k <= k
    OBVIOUS
  <2>3. QED BY <1>1, <2>1, <2>2
<1>2. CASE n \in NamesOf(d)
  <2> DEFINE l == Len(d)
             w == Without(d, n)
  <2>1. PICK p \in 1..l :
          /\ d[p].name = n
          /\ w \in Seq(Entry)
          /\ Len(w) = l - 1
          /\ \A k \in 1..(l - 1) : w[k] = IF k < p THEN d[k] ELSE d[k + 1]
    BY <1>2, WithoutIs
  <2>2. l \in Nat
    BY LenProperties
  <2> DEFINE place(k) == IF k < p THEN k ELSE k + 1
  <2>3. ASSUME NEW k \in 1..(l - 1)
        PROVE  /\ place(k) \in 1..l /\ place(k) # p /\ k <= place(k)
               /\ w[k] = d[place(k)]
    BY <2>1, <2>2
  <2>4. ASSUME NEW j \in 1..(l - 1), NEW k \in 1..(l - 1), place(j) = place(k)
        PROVE  j = k
    BY <2>1, <2>4
  <2> HIDE DEF place, w, l
  <2>5. ASSUME NEW j \in 1..(l - 1), NEW k \in 1..(l - 1), w[j].name = w[k].name
        PROVE  j = k
    <3>1. d[place(j)].name = d[place(k)].name
      BY <2>3, <2>5
    <3>2. place(j) = place(k)
      BY <2>3, <3>1 DEF Distinct, l
    <3>3. QED BY <2>4, <3>2
  <2>6. ASSUME NEW k \in 1..(l - 1) PROVE w[k].name # n
    <3>1. place(k) \in 1..l /\ place(k) # p /\ w[k] = d[place(k)]
      BY <2>3
    <3>2. QED BY <2>1, <3>1 DEF Distinct, l
  <2>7. Distinct(w)
    BY <2>1, <2>5 DEF Distinct
  <2>8. NamesOf(w) = { w[k].name : k \in 1..(l - 1) }
    BY <2>1 DEF NamesOf
  <2>9. \A x \in NamesOf(w) : x \in NamesOf(d) /\ x # n
    <3>1. TAKE x \in NamesOf(w)
    <3>2. PICK k \in 1..(l - 1) : x = w[k].name
      BY <2>8
    <3>3. QED BY <2>3, <2>6, <3>2 DEF NamesOf, l
  <2>10. \A k \in 1..Len(w) : \E j \in 1..l : k <= j /\ w[k] = d[j]
    BY <2>1, <2>3
  <2>11. QED BY <2>1, <2>7, <2>9, <2>10 DEF w, l
<1>3. QED BY <1>1, <1>2

--------------------------------------------------------------------------------
(***************************************************************************)
(* fd_readdir.                                                             *)
(***************************************************************************)
LEMMA TakenIs ==
  ASSUME DirTypeOK, NEW c \in Nat
  PROVE  \A i \in 0..Len(dir) : i <= c => Taken(c)[i] = 0
<1> DEFINE n == Len(dir)
           u == Taken(c)
           more(i) == Size(dir[i].name)
<1>1. n \in Nat /\ \A i \in 1..n : more(i) \in Nat
  <2>1. n \in Nat /\ \A i \in 1..n : dir[i] \in Entry
    BY LenProperties, ElementOfSeq DEF DirTypeOK, Entry
  <2>2. QED BY <2>1, ShimDirectoryAssumption DEF Size, Entry
<1> HIDE DEF more
<1>2. PICK f \in [0..n -> Nat] :
        f[0] = 0 /\ \A i \in 1..n : f[i] = IF i <= c THEN 0 ELSE f[i - 1] + more(i)
  <2> DEFINE step == [i \in 1..n |->
                        [x \in Nat |-> IF i <= c THEN 0 ELSE x + more(i)]]
  <2>1. step \in [1..n -> [Nat -> Nat]]
    BY <1>1
  <2>2. \E f \in [0..n -> Nat] : Unfolds(f, n, 0, step)
    <3> HIDE DEF step, n
    <3>1. QED BY <1>1, <2>1, Recursion
  <2>3. PICK f \in [0..n -> Nat] :
               f[0] = 0 /\ \A i \in 1..n : f[i] = step[i][f[i - 1]]
    BY <2>2 DEF Unfolds
  <2>4. \A i \in 1..n :
          step[i][f[i - 1]] = IF i <= c THEN 0 ELSE f[i - 1] + more(i)
    <3>1. TAKE i \in 1..n
    <3>2. f[i - 1] \in Nat
      BY <1>1
    <3>3. QED BY <3>2
  <2>5. QED BY <2>3, <2>4
<1>3. f = [i \in 0..n |-> IF i <= c THEN 0 ELSE f[i - 1] + more(i)]
  <2>1. \A i \in 0..n : f[i] = IF i <= c THEN 0 ELSE f[i - 1] + more(i)
    BY <1>1, <1>2
  <2>2. QED BY <2>1
<1>4. u = [i \in 0..n |-> IF i <= c THEN 0 ELSE u[i - 1] + more(i)]
  BY <1>3 DEF Taken, more
<1> HIDE DEF u
<1>5. QED BY <1>4 DEF u

\* The entries copied whole lie behind the cookie.
LEMMA WholeIs ==
  ASSUME DirTypeOK
  PROVE  /\ Skipped(cookie) \in 0..Len(dir)
         /\ Skipped(cookie) = IF cookie <= Len(dir) THEN cookie ELSE Len(dir)
         /\ Whole(cookie, bufLen) \in Skipped(cookie)..Len(dir)
<1> DEFINE n     == Len(dir)
           first == Skipped(cookie)
           u     == Taken(first)
           fit   == { i \in first..n : u[i] <= bufLen }
<1>1. n \in Nat /\ cookie \in Nat /\ bufLen \in Nat
  BY LenProperties DEF DirTypeOK
<1>2. first \in 0..n /\ first = IF cookie <= n THEN cookie ELSE n
  BY <1>1 DEF Skipped
<1>3. u[first] = 0
  <2>1. first \in Nat /\ first \in 0..Len(dir) /\ first <= first
    BY <1>1, <1>2
  <2> HIDE DEF first
  <2>2. QED BY <2>1, TakenIs
<1>4. first \in fit /\ fit \in SUBSET (0..n)
  <2> HIDE DEF u, first
  <2>1. QED BY <1>1, <1>2, <1>3
<1>5. \E m \in fit : \A j \in fit : j <= m
  <2> HIDE DEF fit
  <2>1. QED BY <1>1, <1>4, Greatest
<1>6. Whole(cookie, bufLen) = CHOOSE i \in fit : \A j \in fit : j <= i
  BY DEF Whole
<1>7. Whole(cookie, bufLen) \in fit
  <2> HIDE DEF fit
  <2>1. QED BY <1>5, <1>6
<1> HIDE DEF u, first
<1>8. QED BY <1>2, <1>7 DEF first

Batch == [name : Names, next : Nat]

\* fd_readdir gives the next entries, numbered on from the cookie, and a buffer
\* that is not full when there is no more.
LEMMA ReaddirIs ==
  ASSUME DirTypeOK, Readdir
  PROVE  /\ batch' \in Seq(Batch) /\ full' \in BOOLEAN /\ cut' \in Nat
         /\ cookie > Len(dir) => Len(batch') = 0
         /\ cookie <= Len(dir) => cookie + Len(batch') <= Len(dir)
         /\ \A i \in 1..Len(batch') :
              /\ cookie + i \in 1..Len(dir)
              /\ batch'[i].name = dir[cookie + i].name
              /\ batch'[i].next = cookie + i
         /\ ~full' => cookie + Len(batch') >= Len(dir)
<1> DEFINE n     == Len(dir)
           first == Skipped(cookie)
           last  == Whole(cookie, bufLen)
           used  == Taken(first)[last]
           entry(i) == [name |-> dir[first + i].name, next |-> cookie + i]
<1>1. /\ n \in Nat /\ cookie \in Nat /\ bufLen \in Nat
      /\ \A i \in 1..n : dir[i].name \in Names
  <2>1. n \in Nat /\ cookie \in Nat /\ bufLen \in Nat
        /\ \A i \in 1..n : dir[i] \in Entry
    BY LenProperties, ElementOfSeq DEF DirTypeOK, Entry
  <2>2. QED BY <2>1 DEF Entry
<1>2. /\ first \in 0..n /\ first = IF cookie <= n THEN cookie ELSE n
      /\ last \in first..n
  BY WholeIs
<1>3. /\ batch' = [i \in 1..(last - first) |-> entry(i)]
      /\ full' = (last < n \/ used = bufLen)
      /\ cut' = IF last < n /\ bufLen - used >= HeadLen
                THEN Size(dir[last + 1].name) ELSE 0
  BY DEF Readdir
<1> HIDE DEF first, last, used, n
<1>4. last - first \in Nat
  BY <1>1, <1>2
<1>5. \A i \in 1..(last - first) : first + i \in 1..n
  BY <1>1, <1>2
<1>6. \A i \in 1..(last - first) : entry(i) \in Batch
  BY <1>1, <1>2, <1>5 DEF Batch
<1>7. batch' \in Seq(Batch) /\ Len(batch') = last - first
  <2>1. batch' \in [1..(last - first) -> Batch]
    BY <1>3, <1>6
  <2>2. QED BY <1>4, <2>1, LenIs
<1>8. cut' \in Nat
  <2>1. ASSUME last < n PROVE Size(dir[last + 1].name) \in Nat
    <3>1. last + 1 \in 1..n
      BY <1>1, <1>2, <2>1
    <3>2. QED BY <1>1, <3>1, ShimDirectoryAssumption DEF Size
  <2>2. QED BY <1>3, <2>1
<1>9. \A i \in 1..(last - first) :
        /\ batch'[i].name = dir[first + i].name
        /\ batch'[i].next = cookie + i
  BY <1>3
<1>10. cookie > n => last - first = 0
  BY <1>1, <1>2
<1>11. cookie <= n => cookie + (last - first) <= n
  BY <1>1, <1>2
<1>12. ~full' => cookie + (last - first) >= n
  <2>1. ~full' => ~(last < n)
    BY <1>3
  <2>2. ~(last < n) => cookie + (last - first) >= n
    BY <1>1, <1>2
  <2>3. QED BY <2>1, <2>2
<1>13. \A i \in 1..(last - first) : first = cookie
  BY <1>1, <1>2
<1>14. QED BY <1>3, <1>5, <1>7, <1>8, <1>9, <1>10, <1>11, <1>12, <1>13 DEF n

--------------------------------------------------------------------------------
(***************************************************************************)
(* The listing.  What was handed out and what waits in the buffer is one    *)
(* list, and NextEntry moves the border inside it.                         *)
(***************************************************************************)
Reach  == cookie + Len(batch)
Handed == [k \in 1..Reach |-> IF k <= cookie THEN seen[k] ELSE batch[k - cookie].name]

Counted ==
  /\ cookie = Len(seen)
  /\ \A i \in 1..Len(batch) : batch[i].next = cookie + i
  /\ loop \in {"refill", "ended"} => batch = <<>>
  /\ loop = "ended" => ~full

Untouched ==
  loop = "closed" =>
    /\ batch = <<>> /\ seen = <<>> /\ cookie = 0
    /\ start = {} /\ came = {} /\ left = {}

\* A directory that did not change has been handed out as far as Reach.
Same ==
  (came = {} /\ left = {} /\ loop # "closed") =>
    /\ Reach <= Len(dir)
    /\ ~full => Reach = Len(dir)
    /\ \A k \in 1..Reach : Handed[k] = dir[k].name

\* If nothing went, what there was from the start is further on or handed out,
\* and behind a buffer that was not full there is nothing left of it.
NoneMissed ==
  left = {} =>
    /\ start \subseteq NamesOf(dir)
    /\ \A i \in 1..Len(dir) :
         (i <= Reach /\ dir[i].name \in start) =>
           \E k \in 1..Reach : Handed[k] = dir[i].name
    /\ (loop # "closed" /\ ~full) =>
         \A n \in start : \E k \in 1..Reach : Handed[k] = n

\* If nothing came, nothing was handed out twice, nor is further on.
NoneTwice ==
  came = {} =>
    /\ \A j, k \in 1..Reach : Handed[j] = Handed[k] => j = k
    /\ \A i \in 1..Len(dir), k \in 1..Reach : i > Reach => Handed[k] # dir[i].name

NoneInvented ==
  loop # "closed" =>
    /\ NamesOf(dir) \subseteq start \cup came
    /\ \A k \in 1..Reach : Handed[k] \in start \cup came

DirInv == /\ DirTypeOK /\ Counted /\ Untouched
          /\ Same /\ NoneMissed /\ NoneTwice /\ NoneInvented

LEMMA DirInitInv == DirInit => DirInv
<1> SUFFICES ASSUME DirInit PROVE DirInv
  OBVIOUS
<1>1. PICK n \in 0..MaxEntries : dir \in [1..n -> [name : Names, kind : {"reg"}]]
  BY DEF DirInit, InitDirs
<1>2. dir \in Seq(Entry) /\ Len(dir) = n
  <2>1. n \in Nat /\ dir \in [1..n -> Entry]
    BY <1>1, ShimDirectoryAssumption DEF Entry, Kinds
  <2>2. QED BY <2>1, LenIs
<1>3. Distinct(dir)
  BY DEF DirInit, InitDirs, Distinct
<1>4. DirTypeOK
  <2> DEFINE B == [name : Names, next : Nat]
  <2>1. /\ batch \in Seq(B) /\ seen \in Seq(Names)
        /\ cookie \in Nat /\ cut \in Nat /\ full \in BOOLEAN /\ bufLen \in Nat
        /\ start \subseteq Names /\ came \subseteq Names /\ left \subseteq Names
        /\ loop \in {"closed", "refill", "entries", "ended"}
    <3> HIDE DEF B
    <3>1. batch \in Seq(B)
      BY EmptySeq DEF DirInit
    <3>2. seen \in Seq(Names)
      BY EmptySeq DEF DirInit
    <3>3. QED BY <3>1, <3>2, ShimDirectoryAssumption DEF DirInit
  <2>2. changes \in 0..MaxChanges
    BY ShimDirectoryAssumption DEF DirInit
  <2>3. dir \in Seq([name : Names, kind : Kinds])
    BY <1>2 DEF Entry
  <2>4. \A i, j \in 1..Len(dir) : dir[i].name = dir[j].name => i = j
    BY <1>3 DEF Distinct
  <2>5. QED BY <2>1, <2>2, <2>3, <2>4 DEF DirTypeOK
<1>5. Counted /\ Untouched
  BY DEF DirInit, Counted, Untouched
<1>6. Reach = 0
  BY DEF DirInit, Reach
<1>7. Same /\ NoneMissed /\ NoneTwice /\ NoneInvented
  BY <1>2, <1>6 DEF DirInit, Same, NoneMissed, NoneTwice, NoneInvented
<1>8. QED BY <1>4, <1>5, <1>7 DEF DirInv

\* What DirTypeOK says, with names for its parts.
LEMMA DirTypes ==
  DirTypeOK => /\ dir \in Seq(Entry) /\ Distinct(dir) /\ Len(dir) \in Nat
               /\ \A i \in 1..Len(dir) : dir[i] \in Entry
               /\ batch \in Seq(Batch) /\ Len(batch) \in Nat
               /\ \A i \in 1..Len(batch) : batch[i] \in Batch
               /\ seen \in Seq(Names) /\ Len(seen) \in Nat
               /\ cookie \in Nat /\ Reach \in Nat
<1> SUFFICES ASSUME DirTypeOK
             PROVE  /\ dir \in Seq(Entry) /\ Distinct(dir) /\ Len(dir) \in Nat
                    /\ \A i \in 1..Len(dir) : dir[i] \in Entry
                    /\ batch \in Seq(Batch) /\ Len(batch) \in Nat
                    /\ \A i \in 1..Len(batch) : batch[i] \in Batch
                    /\ seen \in Seq(Names) /\ Len(seen) \in Nat
                    /\ cookie \in Nat /\ Reach \in Nat
  OBVIOUS
<1>1. dir \in Seq(Entry) /\ batch \in Seq(Batch) /\ seen \in Seq(Names)
      /\ cookie \in Nat /\ Distinct(dir)
  BY DEF DirTypeOK, Entry, Batch, Distinct
<1>2. Len(dir) \in Nat /\ Len(batch) \in Nat /\ Len(seen) \in Nat
  BY <1>1, LenProperties
<1>3. /\ \A i \in 1..Len(dir) : dir[i] \in Entry
      /\ \A i \in 1..Len(batch) : batch[i] \in Batch
  BY <1>1, ElementOfSeq
<1>4. QED BY <1>1, <1>2, <1>3 DEF Reach

\* A change of the directory leaves the listing alone.
LEMMA ChangesIs ==
  ASSUME NEW added \in SUBSET Names, NEW removed \in SUBSET Names,
         DirInv, Changes(added, removed),
         dir' \in Seq(Entry), Distinct(dir)'
  PROVE  /\ DirTypeOK' /\ Counted' /\ Untouched'
         /\ Reach' = Reach /\ Handed' = Handed
         /\ came' = came \cup added /\ left' = left \cup removed
         /\ UNCHANGED <<loop, full, start>>
         /\ loop # "closed"
<1>1. /\ came' = came \cup added /\ left' = left \cup removed
      /\ UNCHANGED <<loop, cookie, batch, cut, full, bufLen, seen, start>>
      /\ changes' = changes + 1 /\ changes < MaxChanges
      /\ loop \in {"refill", "entries"}
  BY DEF Changes, listing, Listing
<1>2. DirTypeOK'
  <2>1. changes' \in 0..MaxChanges
    BY <1>1, ShimDirectoryAssumption DEF DirInv, DirTypeOK
  <2>2. came' \subseteq Names /\ left' \subseteq Names
    BY <1>1 DEF DirInv, DirTypeOK
  <2>3. QED BY <1>1, <2>1, <2>2 DEF DirInv, DirTypeOK, Entry, Distinct
<1>3. Counted' /\ Untouched'
  BY <1>1 DEF DirInv, Counted, Untouched
<1>4. Reach' = Reach /\ Handed' = Handed
  BY <1>1 DEF Reach, Handed
<1>5. QED BY <1>1, <1>2, <1>3, <1>4

LEMMA CreatesInv ==
  ASSUME DirInv, NEW n \in Names, NEW kind \in Kinds, Creates(n, kind)
  PROVE  DirInv'
<1> DEFINE l == Len(dir)
           e == [name |-> n, kind |-> kind]
<1>1. PICK i \in 0..l : dir' = InsertAt(dir, i, e)
  BY DEF Creates
<1>2. n \notin NamesOf(dir) /\ Changes({n}, {})
  BY DEF Creates
<1>3. dir \in Seq(Entry) /\ Distinct(dir) /\ l \in Nat /\ Reach \in Nat
  BY DirTypes DEF DirInv
<1>4. e \in Entry /\ e.name = n
  BY DEF Entry
<1> HIDE DEF e
<1>5. /\ dir' \in Seq(Entry) /\ Len(dir') = l + 1
      /\ \A k \in 1..(l + 1) :
           dir'[k] = IF k <= i THEN dir[k] ELSE IF k = i + 1 THEN e ELSE dir[k - 1]
  <2> DEFINE f == InsertAt(dir, i, e)
  <2>1. /\ f \in Seq(Entry) /\ Len(f) = Len(dir) + 1
        /\ \A k \in 1..(Len(dir) + 1) :
             f[k] = IF k <= i THEN dir[k] ELSE IF k = i + 1 THEN e ELSE dir[k - 1]
    BY <1>3, <1>4, InsertIs
  <2> HIDE DEF f
  <2>2. dir' = f
    BY <1>1 DEF f
  <2>3. QED BY <2>1, <2>2
<1>6. Distinct(dir') /\ NamesOf(dir') = NamesOf(dir) \cup {n}
  <2>1. e.name \notin NamesOf(dir)
    BY <1>2, <1>4
  <2>2. QED BY <1>1, <1>3, <1>4, <2>1, InsertKeeps
<1>7. /\ DirTypeOK' /\ Counted' /\ Untouched'
      /\ Reach' = Reach /\ Handed' = Handed
      /\ came' = came \cup {n} /\ left' = left
      /\ UNCHANGED <<loop, full, start>>
      /\ loop # "closed"
  <2>1. {n} \in SUBSET Names /\ {} \in SUBSET Names /\ Distinct(dir)'
    BY <1>6 DEF Distinct
  <2>2. QED BY <1>2, <1>5, <2>1, ChangesIs
<1>8. Same' /\ NoneTwice'
  BY <1>7 DEF Same, NoneTwice
<1>9. NoneMissed'
  <2>1. SUFFICES ASSUME left = {} PROVE NoneMissed'
    BY <1>7 DEF NoneMissed
  <2>2. /\ start \subseteq NamesOf(dir)
        /\ \A k \in 1..l : (k <= Reach /\ dir[k].name \in start) =>
             \E j \in 1..Reach : Handed[j] = dir[k].name
        /\ ~full => \A m \in start : \E k \in 1..Reach : Handed[k] = m
    BY <1>7, <2>1 DEF DirInv, NoneMissed
  <2>3. ASSUME NEW k \in 1..(l + 1), k <= Reach, dir'[k].name \in start
        PROVE  \E j \in 1..Reach : Handed[j] = dir'[k].name
    <3>1. k # i + 1
      <4>1. i + 1 \in 1..(l + 1) /\ ~(i + 1 <= i)
        BY <1>3
      <4>2. dir'[i + 1] = e
        BY <1>5, <4>1
      <4>3. QED BY <1>2, <1>4, <2>2, <2>3, <4>2
    <3>2. CASE k <= i
      <4>1. k \in 1..l /\ dir'[k] = dir[k]
        BY <1>3, <1>5, <3>2
      <4>2. QED BY <2>2, <2>3, <4>1
    <3>3. CASE ~(k <= i)
      <4>1. k - 1 \in 1..l /\ k - 1 <= Reach /\ dir'[k] = dir[k - 1]
        BY <1>3, <1>5, <2>3, <3>1, <3>3
      <4>2. QED BY <2>2, <2>3, <4>1
    <3>4. QED BY <3>2, <3>3
  <2>4. QED BY <1>5, <1>6, <1>7, <2>2, <2>3 DEF NoneMissed
<1>10. NoneInvented'
  BY <1>6, <1>7 DEF DirInv, NoneInvented
<1>11. QED BY <1>7, <1>8, <1>9, <1>10 DEF DirInv

LEMMA RemovesInv ==
  ASSUME DirInv, NEW n \in Names, dir' = Without(dir, n), Changes({}, {n})
  PROVE  DirInv'
<1>1. dir \in Seq(Entry) /\ Distinct(dir) /\ Len(dir) \in Nat /\ Reach \in Nat
  BY DirTypes DEF DirInv
<1>2. /\ dir' \in Seq(Entry) /\ Distinct(dir')
      /\ NamesOf(dir') \subseteq NamesOf(dir)
      /\ \A k \in 1..Len(dir') : \E j \in 1..Len(dir) : k <= j /\ dir'[k] = dir[j]
  BY <1>1, WithoutKeeps
<1>3. /\ DirTypeOK' /\ Counted' /\ Untouched'
      /\ Reach' = Reach /\ Handed' = Handed
      /\ came' = came /\ left' = left \cup {n}
      /\ UNCHANGED <<loop, full, start>>
      /\ loop # "closed"
  <2>1. {n} \in SUBSET Names /\ {} \in SUBSET Names /\ Distinct(dir)'
    BY <1>2 DEF Distinct
  <2>2. QED BY <1>2, <2>1, ChangesIs
<1>4. Same' /\ NoneMissed'
  BY <1>3 DEF Same, NoneMissed
<1>5. NoneTwice'
  <2>1. SUFFICES ASSUME came = {} PROVE NoneTwice'
    BY <1>3 DEF NoneTwice
  <2>2. /\ \A j, k \in 1..Reach : Handed[j] = Handed[k] => j = k
        /\ \A i \in 1..Len(dir), k \in 1..Reach :
             i > Reach => Handed[k] # dir[i].name
    BY <2>1 DEF DirInv, NoneTwice
  <2>3. ASSUME NEW i \in 1..Len(dir'), NEW k \in 1..Reach, i > Reach
        PROVE  Handed[k] # dir'[i].name
    <3>1. PICK j \in 1..Len(dir) : i <= j /\ dir'[i] = dir[j]
      BY <1>2
    <3>2. Len(dir') \in Nat
      BY <1>2, LenProperties
    <3>3. j > Reach
      BY <1>1, <2>3, <3>1, <3>2
    <3>4. QED BY <2>2, <3>1, <3>3
  <2>4. QED BY <1>3, <2>2, <2>3 DEF NoneTwice
<1>6. NoneInvented'
  BY <1>2, <1>3 DEF DirInv, NoneInvented
<1>7. QED BY <1>3, <1>4, <1>5, <1>6 DEF DirInv

LEMMA RenameInv ==
  ASSUME DirInv, NEW old \in Names, NEW new \in Names, Rename(old, new)
  PROVE  DirInv'
<1> DEFINE rest    == Without(Without(dir, old), new)
           removed == {old} \cup ({new} \cap NamesOf(dir))
<1>1. dir \in Seq(Entry) /\ Distinct(dir)
  BY DirTypes DEF DirInv
<1>2. KindOf(old) \in Kinds
  <2>1. PlaceOf(dir, old) \in 1..Len(dir)
    BY DEF Rename, NamesOf, PlaceOf
  <2>2. dir[PlaceOf(dir, old)] \in Entry
    BY <2>1, DirTypes DEF DirInv
  <2>3. QED BY <2>2 DEF KindOf, Entry
<1> DEFINE e == [name |-> new, kind |-> KindOf(old)]
<1>3. e \in Entry /\ e.name = new
  BY <1>2 DEF Entry
<1>4. PICK i \in 0..Len(rest) : dir' = InsertAt(rest, i, e)
  BY DEF Rename
<1>5. Changes({new}, removed)
  BY DEF Rename
<1> HIDE DEF e
<1>6. /\ rest \in Seq(Entry) /\ Distinct(rest) /\ new \notin NamesOf(rest)
      /\ NamesOf(rest) \subseteq NamesOf(dir)
  <2>1. /\ Without(dir, old) \in Seq(Entry) /\ Distinct(Without(dir, old))
        /\ NamesOf(Without(dir, old)) \subseteq NamesOf(dir)
    BY <1>1, WithoutKeeps
  <2>2. /\ rest \in Seq(Entry) /\ Distinct(rest) /\ new \notin NamesOf(rest)
        /\ NamesOf(rest) \subseteq NamesOf(Without(dir, old))
    BY <2>1, WithoutKeeps
  <2>3. QED BY <2>1, <2>2
<1> HIDE DEF rest
<1>7. /\ dir' \in Seq(Entry) /\ Distinct(dir')
      /\ NamesOf(dir') = NamesOf(rest) \cup {new}
  BY <1>3, <1>4, <1>6, InsertIs, InsertKeeps
<1>8. /\ DirTypeOK' /\ Counted' /\ Untouched'
      /\ Reach' = Reach /\ Handed' = Handed
      /\ came' = came \cup {new} /\ left' = left \cup removed
      /\ UNCHANGED <<loop, full, start>>
      /\ loop # "closed"
  <2>1. {new} \in SUBSET Names /\ removed \in SUBSET Names /\ Distinct(dir)'
    BY <1>7 DEF Distinct
  <2> HIDE DEF removed
  <2>2. QED BY <1>5, <1>7, <2>1, ChangesIs
<1>9. Same' /\ NoneMissed' /\ NoneTwice'
  BY <1>8 DEF Same, NoneMissed, NoneTwice
<1>10. NoneInvented'
  BY <1>6, <1>7, <1>8 DEF DirInv, NoneInvented
<1>11. QED BY <1>8, <1>9, <1>10 DEF DirInv

LEMMA OpenDirInv ==
  ASSUME DirInv, OpenDir PROVE DirInv'
<1>1. /\ loop = "closed" /\ loop' = "refill" /\ full' = TRUE
      /\ start' = NamesOf(dir)
      /\ UNCHANGED <<dir, cookie, batch, cut, bufLen, seen, came, left, changes>>
  BY DEF OpenDir
<1>2. NamesOf(dir) \subseteq Names
  <2>1. \A i \in 1..Len(dir) : dir[i].name \in Names
    BY DirTypes DEF DirInv, Entry
  <2>2. QED BY <2>1 DEF NamesOf
<1>3. batch = <<>> /\ cookie = 0 /\ Reach = 0 /\ Reach' = 0
  <2>1. batch = <<>> /\ cookie = 0
    BY <1>1 DEF DirInv, Untouched
  <2>2. QED BY <1>1, <2>1 DEF Reach
<1>4. DirTypeOK'
  BY <1>1, <1>2 DEF DirInv, DirTypeOK
<1>5. Counted' /\ Untouched'
  BY <1>1, <1>3 DEF DirInv, Counted, Untouched
<1>6. Len(dir) \in Nat
  BY DirTypes DEF DirInv
<1>7. NamesOf(dir') = NamesOf(dir)
  BY <1>1
<1>8. Same' /\ NoneMissed' /\ NoneTwice'
  BY <1>1, <1>3, <1>6, <1>7 DEF Same, NoneMissed, NoneTwice
<1>9. NoneInvented'
  BY <1>1, <1>3, <1>7 DEF NoneInvented
<1>10. QED BY <1>4, <1>5, <1>8, <1>9 DEF DirInv

\* Steps that leave the directory and what was handed out as they are.
LEMMA KeepsView ==
  ASSUME DirInv, Reach' = Reach, Handed' = Handed,
         UNCHANGED <<dir, full, start, came, left>>,
         loop # "closed", loop' # "closed"
  PROVE  Same' /\ NoneMissed' /\ NoneTwice' /\ NoneInvented'
<1>1. NamesOf(dir') = NamesOf(dir)
  OBVIOUS
<1>2. Same'
  BY DEF DirInv, Same
<1>3. NoneMissed'
  BY <1>1 DEF DirInv, NoneMissed
<1>4. NoneTwice'
  BY DEF DirInv, NoneTwice
<1>5. NoneInvented'
  BY <1>1 DEF DirInv, NoneInvented
<1>6. QED BY <1>2, <1>3, <1>4, <1>5

LEMMA NextEntryInv ==
  ASSUME DirInv, NextEntry PROVE DirInv'
<1>1. /\ loop = "entries" /\ batch # <<>>
      /\ seen' = Append(seen, batch[1].name)
      /\ cookie' = batch[1].next
      /\ batch' = Tail(batch)
      /\ UNCHANGED <<dir, loop, cut, full, bufLen, start, came, left, changes>>
  BY DEF NextEntry
<1>2. /\ batch \in Seq(Batch) /\ Len(batch) \in Nat
      /\ \A i \in 1..Len(batch) : batch[i] \in Batch
      /\ seen \in Seq(Names) /\ Len(seen) \in Nat /\ cookie \in Nat
  BY DirTypes DEF DirInv
<1>3. cookie = Len(seen) /\ \A i \in 1..Len(batch) : batch[i].next = cookie + i
  BY DEF DirInv, Counted
<1>4. 1 \in 1..Len(batch)
  <2>1. Len(batch) # 0
    BY <1>1, <1>2, EmptySeq
  <2>2. QED BY <1>2, <2>1
<1>5. batch[1].name \in Names /\ batch[1].next = cookie + 1
  BY <1>2, <1>3, <1>4 DEF Batch
<1>6. /\ batch' \in Seq(Batch) /\ Len(batch') = Len(batch) - 1
      /\ \A i \in 1..(Len(batch) - 1) : batch'[i] = batch[i + 1]
  <2>1. /\ Tail(batch) \in Seq(Batch) /\ Len(Tail(batch)) = Len(batch) - 1
        /\ \A i \in 1..Len(Tail(batch)) : Tail(batch)[i] = batch[i + 1]
    BY <1>1, <1>2, HeadTailProperties
  <2>2. QED BY <1>1, <2>1
<1>7. /\ seen' \in Seq(Names) /\ Len(seen') = cookie + 1
      /\ \A i \in 1..cookie : seen'[i] = seen[i]
      /\ seen'[cookie + 1] = batch[1].name
  BY <1>1, <1>2, <1>3, <1>5, AppendProperties
<1>8. cookie' = cookie + 1
  BY <1>1, <1>5
<1>9. DirTypeOK'
  BY <1>1, <1>2, <1>6, <1>7, <1>8 DEF DirInv, DirTypeOK, Batch
<1>10. Counted'
  <2>1. \A i \in 1..(Len(batch) - 1) :
          i + 1 \in 1..Len(batch) /\ cookie + (i + 1) = (cookie + 1) + i
    BY <1>2
  <2>2. QED BY <1>1, <1>3, <1>6, <1>7, <1>8, <2>1 DEF Counted
<1>11. Untouched'
  BY <1>1 DEF Untouched
<1>12. Reach' = Reach
  BY <1>2, <1>6, <1>8 DEF Reach
<1>13. Handed' = Handed
  <2> DEFINE h(k) == IF k <= cookie THEN seen[k] ELSE batch[k - cookie].name
             g(k) == IF k <= cookie + 1 THEN seen'[k]
                     ELSE batch'[k - (cookie + 1)].name
  <2>1. ASSUME NEW k \in 1..Reach PROVE h(k) = g(k)
    <3>1. CASE k <= cookie
      <4>1. k \in 1..cookie /\ k <= cookie + 1
        BY <1>2, <3>1
      <4>2. QED BY <1>7, <3>1, <4>1
    <3>2. CASE k = cookie + 1
      <4>1. ~(k <= cookie) /\ k <= cookie + 1 /\ k - cookie = 1
        BY <1>2, <3>2
      <4>2. QED BY <1>7, <3>2, <4>1
    <3>3. CASE ~(k <= cookie) /\ k # cookie + 1
      <4>1. /\ ~(k <= cookie + 1) /\ k - (cookie + 1) \in 1..(Len(batch) - 1)
            /\ (k - (cookie + 1)) + 1 = k - cookie
        BY <1>2, <3>3 DEF Reach
      <4>2. batch'[k - (cookie + 1)] = batch[k - cookie]
        BY <1>6, <4>1
      <4>3. QED BY <3>3, <4>1, <4>2
    <3>4. QED BY <3>1, <3>2, <3>3
  <2>2. Handed = [k \in 1..Reach |-> h(k)]
    BY DEF Handed
  <2>3. Handed' = [k \in 1..Reach |-> g(k)]
    BY <1>8, <1>12 DEF Handed
  <2> HIDE DEF h, g
  <2>4. QED BY <2>1, <2>2, <2>3
<1>14. Same' /\ NoneMissed' /\ NoneTwice' /\ NoneInvented'
  BY <1>1, <1>12, <1>13, KeepsView
<1>15. QED BY <1>9, <1>10, <1>11, <1>14 DEF DirInv

LEMMA EndOfBufferInv ==
  ASSUME DirInv, EndOfBuffer PROVE DirInv'
<1>1. /\ loop = "entries" /\ batch = <<>> /\ loop' = "refill"
      /\ bufLen' = IF cut > bufLen THEN cut ELSE bufLen
      /\ UNCHANGED <<dir, cookie, batch, cut, full, seen, start, came, left, changes>>
  BY DEF EndOfBuffer
<1>2. DirTypeOK'
  BY <1>1 DEF DirInv, DirTypeOK
<1>3. Counted' /\ Untouched'
  BY <1>1 DEF DirInv, Counted, Untouched
<1>4. Reach' = Reach /\ Handed' = Handed
  BY <1>1 DEF Reach, Handed
<1>5. Same' /\ NoneMissed' /\ NoneTwice' /\ NoneInvented'
  BY <1>1, <1>4, KeepsView
<1>6. QED BY <1>2, <1>3, <1>5 DEF DirInv

\* A refill of the buffer hands on what lies behind the cookie.
LEMMA RefillInv ==
  ASSUME DirInv, Refill PROVE DirInv'
<1>1. /\ loop = "refill" /\ batch = <<>>
      /\ UNCHANGED <<dir, cookie, seen, start, came, left, changes>>
  BY DEF Refill, DirInv, Counted
<1>2. /\ Distinct(dir) /\ Len(dir) \in Nat /\ cookie \in Nat
      /\ Len(seen) \in Nat /\ cookie = Len(seen)
  BY DirTypes DEF DirInv, Counted
<1>3. CASE ~full
  <2>1. loop' = "ended" /\ UNCHANGED <<batch, cut, full, bufLen>>
    BY <1>3 DEF Refill
  <2>2. DirTypeOK'
    BY <1>1, <2>1 DEF DirInv, DirTypeOK
  <2>3. Counted' /\ Untouched'
    BY <1>1, <1>3, <2>1 DEF DirInv, Counted, Untouched
  <2>4. Reach' = Reach /\ Handed' = Handed
    BY <1>1, <2>1 DEF Reach, Handed
  <2>5. Same' /\ NoneMissed' /\ NoneTwice' /\ NoneInvented'
    BY <1>1, <2>1, <2>4, KeepsView
  <2>6. QED BY <2>2, <2>3, <2>5 DEF DirInv
<1>4. CASE full
  <2> DEFINE n == Len(dir)
             more == Len(batch')
  <2>1. Readdir /\ loop' = "entries" /\ UNCHANGED bufLen
    BY <1>4 DEF Refill
  <2>2. /\ batch' \in Seq(Batch) /\ full' \in BOOLEAN /\ cut' \in Nat
        /\ cookie > n => more = 0
        /\ cookie <= n => cookie + more <= n
        /\ \A i \in 1..more :
             /\ cookie + i \in 1..n
             /\ batch'[i].name = dir[cookie + i].name
             /\ batch'[i].next = cookie + i
        /\ ~full' => cookie + more >= n
    BY <2>1, ReaddirIs DEF DirInv
  <2>3. more \in Nat
    BY <2>2, LenProperties
  <2>4. DirTypeOK'
    BY <1>1, <2>1, <2>2 DEF DirInv, DirTypeOK, Batch
  <2>5. Counted' /\ Untouched'
    BY <1>1, <1>2, <2>1, <2>2 DEF Counted, Untouched
  <2>6. Reach = cookie /\ Reach' = cookie + more
    <3>1. Len(batch) = 0
      BY <1>1
    <3>2. QED BY <1>1, <1>2, <3>1 DEF Reach
  <2>7. \A k \in 1..Reach' :
          /\ k <= cookie => k \in 1..Reach /\ Handed'[k] = Handed[k]
          /\ ~(k <= cookie) => k \in 1..n /\ Handed'[k] = dir[k].name
    <3>1. Handed = [k \in 1..cookie |-> IF k <= cookie THEN seen[k]
                                        ELSE batch[k - cookie].name]
      BY <2>6 DEF Handed
    <3>2. Handed' = [k \in 1..(cookie + more) |->
                       IF k <= cookie THEN seen[k] ELSE batch'[k - cookie].name]
      BY <1>1, <2>6 DEF Handed
    <3>3. ASSUME NEW k \in 1..(cookie + more), k <= cookie
          PROVE  k \in 1..cookie /\ Handed'[k] = Handed[k]
      <4>1. k \in 1..cookie
        BY <1>2, <2>3, <3>3
      <4>2. QED BY <3>1, <3>2, <3>3, <4>1
    <3>4. ASSUME NEW k \in 1..(cookie + more), ~(k <= cookie)
          PROVE  k \in 1..n /\ Handed'[k] = dir[k].name
      <4>1. k - cookie \in 1..more /\ cookie + (k - cookie) = k
        BY <1>2, <2>3, <3>4
      <4>2. k \in 1..n /\ batch'[k - cookie].name = dir[k].name
        BY <2>2, <4>1
      <4>3. QED BY <3>2, <3>4, <4>2
    <3>5. QED BY <2>6, <3>3, <3>4
  <2>8. UNCHANGED <<dir, start, came, left>> /\ loop' # "closed" /\ loop # "closed"
    BY <1>1, <2>1
  <2> HIDE DEF n, more
  <2>9. n = Len(dir)
    BY DEF n
  <2>10. Same'
    <3>1. SUFFICES ASSUME came = {}, left = {} PROVE Same'
      BY <2>8 DEF Same
    <3>2. cookie <= n /\ \A k \in 1..Reach : Handed[k] = dir[k].name
      BY <2>6, <2>8, <2>9, <3>1 DEF DirInv, Same
    <3>3. Reach' <= n /\ (~full' => Reach' = n)
      BY <1>2, <2>2, <2>3, <2>6, <2>9, <3>2
    <3>4. \A k \in 1..Reach' : Handed'[k] = dir[k].name
      BY <2>7, <3>2
    <3>5. QED BY <2>8, <2>9, <3>3, <3>4 DEF Same
  <2>11. NoneMissed'
    <3>1. SUFFICES ASSUME left = {} PROVE NoneMissed'
      BY <2>8 DEF NoneMissed
    <3>2. /\ start \subseteq NamesOf(dir)
          /\ \A i \in 1..n : (i <= Reach /\ dir[i].name \in start) =>
               \E k \in 1..Reach : Handed[k] = dir[i].name
      BY <2>9, <3>1 DEF DirInv, NoneMissed
    <3>3. \A k \in 1..Reach : k \in 1..Reach' /\ k <= cookie
      BY <1>2, <2>3, <2>6
    <3>4. ASSUME NEW i \in 1..n, i <= Reach', dir[i].name \in start
          PROVE  \E k \in 1..Reach' : Handed'[k] = dir[i].name
      <4>1. CASE i <= cookie
        <5>1. PICK k \in 1..Reach : Handed[k] = dir[i].name
          BY <2>6, <3>2, <3>4, <4>1
        <5>2. k \in 1..Reach' /\ Handed'[k] = Handed[k]
          BY <2>7, <3>3
        <5>3. QED BY <5>1, <5>2
      <4>2. CASE ~(i <= cookie)
        <5>1. i \in 1..Reach'
          BY <1>2, <2>3, <2>6, <2>9, <3>4
        <5>2. QED BY <2>7, <4>2, <5>1
      <4>3. QED BY <4>1, <4>2
    <3>5. ASSUME ~full', NEW m \in start
          PROVE  \E k \in 1..Reach' : Handed'[k] = m
      <4>1. PICK i \in 1..n : dir[i].name = m
        BY <2>9, <3>2 DEF NamesOf
      <4>2. i <= Reach'
        BY <1>2, <2>2, <2>3, <2>6, <2>9, <3>5
      <4>3. QED BY <3>4, <4>1, <4>2
    <3>6. NamesOf(dir') = NamesOf(dir)
      BY <2>8
    <3>7. QED BY <2>8, <2>9, <3>2, <3>4, <3>5, <3>6 DEF NoneMissed
  <2>12. NoneTwice'
    <3>1. SUFFICES ASSUME came = {} PROVE NoneTwice'
      BY <2>8 DEF NoneTwice
    <3>2. /\ \A j, k \in 1..Reach : Handed[j] = Handed[k] => j = k
          /\ \A i \in 1..n, k \in 1..Reach : i > Reach => Handed[k] # dir[i].name
      BY <2>9, <3>1 DEF DirInv, NoneTwice
    <3>3. \A i, j \in 1..n : dir[i].name = dir[j].name => i = j
      BY <1>2, <2>9 DEF Distinct
    <3>4. \A i \in 1..n : ~(i <= cookie) => i > Reach
      BY <1>2, <2>6, <2>9
    <3>5. ASSUME NEW j \in 1..Reach', NEW k \in 1..Reach', Handed'[j] = Handed'[k]
          PROVE  j = k
      <4>1. CASE j <= cookie /\ k <= cookie
        BY <2>7, <3>2, <3>5, <4>1
      <4>2. CASE j <= cookie /\ ~(k <= cookie)
        BY <2>7, <3>2, <3>4, <3>5, <4>2
      <4>3. CASE ~(j <= cookie) /\ k <= cookie
        BY <2>7, <3>2, <3>4, <3>5, <4>3
      <4>4. CASE ~(j <= cookie) /\ ~(k <= cookie)
        BY <2>7, <3>3, <3>5, <4>4
      <4>5. QED BY <4>1, <4>2, <4>3, <4>4
    <3>6. ASSUME NEW i \in 1..n, NEW k \in 1..Reach', i > Reach'
          PROVE  Handed'[k] # dir[i].name
      <4>1. i > Reach /\ i # k
        BY <1>2, <2>3, <2>6, <2>9, <3>6
      <4>2. CASE k <= cookie
        BY <2>7, <3>2, <4>1, <4>2
      <4>3. CASE ~(k <= cookie)
        BY <2>7, <3>3, <4>1, <4>3
      <4>4. QED BY <4>2, <4>3
    <3>7. QED BY <2>8, <2>9, <3>5, <3>6 DEF NoneTwice
  <2>13. NoneInvented'
    <3>1. /\ NamesOf(dir) \subseteq start \cup came
          /\ \A k \in 1..Reach : Handed[k] \in start \cup came
      BY <2>8 DEF DirInv, NoneInvented
    <3>2. \A k \in 1..n : dir[k].name \in NamesOf(dir)
      BY <2>9 DEF NamesOf
    <3>3. \A k \in 1..Reach' : Handed'[k] \in start \cup came
      BY <2>7, <3>1, <3>2
    <3>4. NamesOf(dir') = NamesOf(dir)
      BY <2>8
    <3>5. QED BY <2>8, <3>1, <3>3, <3>4 DEF NoneInvented
  <2>14. QED BY <2>4, <2>5, <2>10, <2>11, <2>12, <2>13 DEF DirInv
<1>5. QED BY <1>3, <1>4

LEMMA DirNextInv == DirInv /\ [DirNext]_dirVars => DirInv'
<1> SUFFICES ASSUME DirInv, [DirNext]_dirVars PROVE DirInv'
  OBVIOUS
<1>1. CASE UNCHANGED dirVars
  <2>1. /\ UNCHANGED <<dir, came, left, changes>>
        /\ UNCHANGED <<loop, cookie, batch, cut, full, bufLen, seen, start>>
    BY <1>1 DEF dirVars, listing
  <2>2. DirTypeOK'
    BY <2>1 DEF DirInv, DirTypeOK
  <2>3. Counted' /\ Untouched'
    BY <2>1 DEF DirInv, Counted, Untouched
  <2>4. Reach' = Reach /\ Handed' = Handed /\ NamesOf(dir') = NamesOf(dir)
    BY <2>1 DEF Reach, Handed
  <2>5. Same' /\ NoneMissed'
    BY <2>1, <2>4 DEF DirInv, Same, NoneMissed
  <2>6. NoneTwice' /\ NoneInvented'
    BY <2>1, <2>4 DEF DirInv, NoneTwice, NoneInvented
  <2>7. QED BY <2>2, <2>3, <2>5, <2>6 DEF DirInv
<1>2. ASSUME NEW n \in Names, OpenCreates(n) \/ CreateDirectory(n) \/ Symlink(n)
      PROVE  DirInv'
  BY <1>2, CreatesInv DEF OpenCreates, CreateDirectory, Symlink, Kinds
<1>3. ASSUME NEW n \in Names, UnlinkFile(n) \/ RemoveDirectory(n)
      PROVE  DirInv'
  BY <1>3, RemovesInv DEF UnlinkFile, RemoveDirectory
<1>4. ASSUME NEW old \in Names, NEW new \in Names, Rename(old, new)
      PROVE  DirInv'
  BY <1>4, RenameInv
<1>5. CASE ListingStep
  BY <1>5, OpenDirInv, RefillInv, NextEntryInv, EndOfBufferInv DEF ListingStep
<1>6. QED BY <1>1, <1>2, <1>3, <1>4, <1>5 DEF DirNext

LEMMA DirAlwaysInv == Spec => []DirInv
<1>1. Init => DirInv
  BY DirInitInv DEF Init
<1>2. DirInv /\ [Next]_vars => DirInv'
  <2>1. [Next]_vars => [DirNext]_dirVars
    BY DEF Next, vars, UsesFiles, UsesDir, UsesMemory
  <2>2. QED BY <2>1, DirNextInv
<1>3. QED BY <1>1, <1>2, PTL DEF Spec

\* Whatever is created, removed and renamed while the guest lists it, a name is
\* in a directory once, and the listing's variables keep their types.
THEOREM DirTypesAreKept == Spec => []DirTypeOK
<1>1. DirInv => DirTypeOK
  BY DEF DirInv
<1>2. QED BY <1>1, DirAlwaysInv, PTL

\* For directories of any size, names of any length, a buffer of any size and
\* any number of changes: a listing that ends is as faithful as it can be.
THEOREM ListingsAreFaithful == Spec => []ListingIsFaithful
<1>1. DirInv => ListingIsFaithful
  <2>1. SUFFICES ASSUME DirInv, loop = "ended"
                 PROVE  /\ came = {} /\ left = {} => seen = InOrder(dir)
                        /\ left = {} => start \subseteq Listed
                        /\ came = {} => Twice(seen) = {}
                        /\ Listed \subseteq start \cup came
    BY DEF ListingIsFaithful
  <2>2. /\ batch = <<>> /\ ~full /\ cookie = Len(seen)
        /\ seen \in Seq(Names) /\ Len(seen) \in Nat /\ Len(dir) \in Nat
    BY <2>1, DirTypes DEF DirInv, Counted
  <2>3. Reach = Len(seen)
    <3>1. Len(batch) = 0
      BY <2>2
    <3>2. QED BY <2>2, <3>1 DEF Reach
  <2>4. \A k \in 1..Reach : Handed[k] = seen[k]
    BY <2>2, <2>3 DEF Handed
  <2>5. ASSUME came = {}, left = {} PROVE seen = InOrder(dir)
    <3>1. Reach = Len(dir) /\ \A k \in 1..Reach : Handed[k] = dir[k].name
      BY <2>1, <2>2, <2>5 DEF DirInv, Same
    <3>2. \A k \in 1..Len(dir) : seen[k] = dir[k].name
      BY <2>3, <2>4, <3>1
    <3>3. seen \in [1..Len(dir) -> Names]
      <4>1. seen \in [1..Len(seen) -> Names]
        BY <2>2, LenProperties
      <4>2. QED BY <2>3, <3>1, <4>1
    <3>4. QED BY <3>2, <3>3 DEF InOrder
  <2>6. ASSUME left = {} PROVE start \subseteq Listed
    <3>1. \A n \in start : \E k \in 1..Reach : Handed[k] = n
      BY <2>1, <2>2, <2>6 DEF DirInv, NoneMissed
    <3>2. \A n \in start : \E k \in 1..Len(seen) : seen[k] = n
      BY <2>3, <2>4, <3>1
    <3>3. QED BY <3>2 DEF Listed
  <2>7. ASSUME came = {} PROVE Twice(seen) = {}
    <3>1. \A j, k \in 1..Reach : Handed[j] = Handed[k] => j = k
      BY <2>7, <2>1 DEF DirInv, NoneTwice
    <3>2. \A j, k \in 1..Len(seen) : seen[j] = seen[k] => j = k
      BY <2>3, <2>4, <3>1
    <3>3. QED BY <3>2 DEF Twice
  <2>8. Listed \subseteq start \cup came
    <3>1. \A k \in 1..Reach : Handed[k] \in start \cup came
      BY <2>1 DEF DirInv, NoneInvented
    <3>2. \A k \in 1..Len(seen) : seen[k] \in start \cup came
      BY <2>3, <2>4, <3>1
    <3>3. QED BY <3>2 DEF Listed
  <2>9. QED BY <2>5, <2>6, <2>7, <2>8
<1>2. QED BY <1>1, DirAlwaysInv, PTL
===============================================================================
