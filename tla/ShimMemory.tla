------------------------------- MODULE ShimMemory -------------------------------
(***************************************************************************)
(* How the WASI shim (native/shim/wasi_shim.c) reads and writes the guest's *)
(* memory, in every call that does: the arguments and the environment, the  *)
(* clock, the preopens, the buffers of readv and writev, fixed-size         *)
(* results, paths, links, directory entries, and poll_oneoff with its list  *)
(* of subscriptions.                                                       *)
(*                                                                         *)
(* There are Addresses guest addresses, and the sums the shim forms with    *)
(* one wrap around; gptr alone adds in 64 bits.  A time is a word of        *)
(* 2 * TimeSign values, signed where the shim says int64_t, and the clocks  *)
(* an absolute time may refer to show the same time.  A call looks at       *)
(* nothing but its arguments, so one call is all that happens.              *)
(***************************************************************************)
EXTENDS Integers, Sequences, FiniteSets

CONSTANTS
  Addresses,     \* how many addresses there are (2^32)
  MemSize,       \* the size of the memory
  Pointers,      \* the addresses the guest passes
  Lens,          \* the lengths it passes, and those of names and links
  MaxList,       \* bound on the buffers of a readv and the entries of a listing
  TimeSign,      \* what the sign bit of a time counts for (2^63)
  MaxSubs,       \* most subscriptions of a poll
  Argv, Envp,    \* the lengths of the strings, their NUL included
  GuestPath,     \* the length of a preopen's guest_path
  PathCap,       \* the size of the shim's path buffers (1024)
  MaxIov         \* most buffers of a readv or writev (64)

ASSUME ShimMemoryAssumption ==
  /\ Addresses \in Nat /\ TimeSign \in Nat \ {0}
  /\ MemSize \in 1..Addresses
  /\ Pointers \subseteq 0..(Addresses - 1)
  /\ Lens \subseteq Nat /\ MaxList \in Nat
  /\ MaxSubs \in Nat /\ MaxIov \in Nat /\ PathCap \in Nat
  /\ Argv \in Seq(Nat \ {0}) /\ Envp \in Seq(Nat \ {0})
  /\ GuestPath \in Nat \ {0}

\* Lengths, in units: a pointer or a u32, an event (32 bytes), a subscription
\* (48) and the head of a directory entry (24).
Word      == 1
EventLen  == 2
SubLen    == 3
DirentLen == 2

VARIABLE
  done           \* the call that was made and what it did

Nothing == [op |-> "none", ret |-> "ok", touched |-> {}, given |-> {}]
MemInit == done = Nothing

--------------------------------------------------------------------------------
(***************************************************************************)
(* gptr and what uses it.                                                  *)
(***************************************************************************)
\* Mutant of Wrap: sums of u32 have no width.
WrapNot(x) == x

Wrap(x) == x % Addresses

\* Mutant of Gptr: the sum is formed in 32 bits.
GptrWraps(off, len) == Wrap(off + len) <= MemSize

Gptr(off, len) == off + len <= MemSize

\* What the host touches when it is given p: the len units there.
Span(p, len) == p..(p + len - 1)

\* What the guest meant with a pointer and a length.
Region(p, len) == { Wrap(p + k) : k \in 0..(len - 1) }

Call(op, ret, touched, given) ==
  [op |-> op, ret |-> ret, touched |-> touched, given |-> given]

(***************************************************************************)
(* A call asks gptr for one place after the other, and uses what it is      *)
(* given before it goes on: a place is where that is, how much of it the    *)
(* call uses, and whether it may.                                          *)
(***************************************************************************)
Place(p, len) == [at |-> p, len |-> len, ok |-> Gptr(p, len)]

\* gpath copies a path, if the shim's buffer has room for it and a NUL.
PathAt(p, len) == [at |-> p, len |-> len, ok |-> len < PathCap /\ Gptr(p, len)]

\* A buffer that may be anywhere if it is empty; of it the call uses a part.
BufferAt(p, len, used) == [at |-> p, len |-> used, ok |-> Gptr(p, len) \/ len = 0]

\* The call ends with the first place it may not use.  It may end before, behind
\* a number of places that is in breaks, with what fd_get or the host answers;
\* a call of the host that fails may have used them.
InTurn(op, places, breaks, given) ==
  LET good     == { i \in DOMAIN places : \A j \in 1..i : places[j].ok }
      first(k) == UNION { Span(places[i].at, places[i].len) : i \in 1..k }
  IN { Call(op, IF good = DOMAIN places THEN "ok" ELSE "efault",
            UNION { Span(places[i].at, places[i].len) : i \in good }, given) }
       \cup { Call(op, "errno", first(k), given) :
                k \in { b \in breaks : 1..b \subseteq good } }

--------------------------------------------------------------------------------
(***************************************************************************)
(* The calls with one buffer, and those with paths.                        *)
(***************************************************************************)

\* gwrite_u32, gwrite_u64, the memcpy of a stat, an fdstat or a prestat, and
\* random_get: one buffer of a known length.
Fills(op, p, len, breaks) ==
  done' \in InTurn(op, <<Place(p, len)>>, breaks, Region(p, len))

FilestatGet(p)    == Fills("stat", p, 2 * EventLen, {0})
FdstatGet(p)      == Fills("fdstat", p, SubLen, {0})
PrestatGet(p)     == Fills("prestat", p, 2 * Word, {0})
SeekOrTell(p)     == Fills("seek", p, 2 * Word, {0})
RandomGet(p, len) == Fills("random", p, len, {})

\* Clock ids 0 to 3 are known.
ClockTimeGet(id, p) ==
  IF id \in 0..3 THEN Fills("clock", p, 2 * Word, {0})
                 ELSE done' = Call("clock", "einval", {}, {})

\* args_sizes_get and environ_sizes_get.
SizesGet(countP, sizeP) ==
  done' \in InTurn("sizes", <<Place(countP, Word), Place(sizeP, Word)>>, {},
                   Region(countP, Word) \cup Region(sizeP, Word))

\* Mutant of PrestatDirName: the length the guest gave is not looked at.
PrestatDirNameAnyway(p, len) ==
  done' \in InTurn("dir_name", <<Place(p, GuestPath)>>, {0}, Region(p, len))

PrestatDirName(p, len) ==
  IF len < GuestPath
  THEN \E ret \in {"einval", "errno"} :
         done' = Call("dir_name", ret, {}, Region(p, len))
  ELSE done' \in InTurn("dir_name", <<Place(p, GuestPath)>>, {0}, Region(p, len))

\* path_create_directory, path_remove_directory and path_unlink_file.
PathOnly(pathP, pathLen) ==
  done' \in InTurn("path", <<PathAt(pathP, pathLen)>>, {0, 1},
                   Region(pathP, pathLen))

\* path_rename and path_symlink.
TwoPaths(oldP, oldLen, newP, newLen) ==
  done' \in InTurn("two_paths", <<PathAt(oldP, oldLen), PathAt(newP, newLen)>>,
                   {0, 2}, Region(oldP, oldLen) \cup Region(newP, newLen))

\* A path, and a result of a known length: path_filestat_get, and path_open,
\* which tells the guest its new descriptor.
PathResult(op, pathP, pathLen, p, len) ==
  done' \in InTurn(op, <<PathAt(pathP, pathLen), Place(p, len)>>, {0, 1},
                   Region(pathP, pathLen) \cup Region(p, len))

PathFilestatGet(pathP, pathLen, p) ==
  PathResult("path_stat", pathP, pathLen, p, 2 * EventLen)
OpenPath(pathP, pathLen, fdP) ==
  PathResult("path_open", pathP, pathLen, fdP, Word)

\* Mutant of Part: what is there is copied whole.
PartWhole(len, from, want) == want

\* How much of what is there fits into the rest of a buffer.
Part(len, from, want) == IF want < len - from THEN want ELSE len - from

\* readlinkat puts as much of the target as fits where the guest said; how much
\* that was goes to usedP.
PathReadlink(pathP, pathLen, p, len, usedP, target) ==
  done' \in InTurn("readlink", <<PathAt(pathP, pathLen),
                                 BufferAt(p, len, Part(len, 0, target)),
                                 Place(usedP, Word)>>, {0, 2},
                   Region(pathP, pathLen) \cup Region(p, len)
                     \cup Region(usedP, Word))

--------------------------------------------------------------------------------
(***************************************************************************)
(* args_sizes_get and args_get, environ_sizes_get and environ_get: the same *)
(* code on two lists of strings.                                           *)
(***************************************************************************)
\* The length of the first i strings together.
Upto(list) ==
  LET t[i \in 0..Len(list)] == IF i = 0 THEN 0 ELSE t[i - 1] + list[i]
  IN t

Sizes(list) == [count |-> Len(list), size |-> Upto(list)[Len(list)]]

\* Mutant of StringAt: the NUL of the string before is not counted.
StringAtNoNul(list, bufP) ==
  [i \in 1..Len(list) |-> Wrap(bufP + Upto(list)[i - 1] - (i - 1))]

\* Where each string goes.
StringAt(list, bufP) ==
  [i \in 1..Len(list) |-> Wrap(bufP + Upto(list)[i - 1])]

\* String by string, until one or its pointer does not fit.
StringsGet(op, list, ptrP, bufP) ==
  LET at      == StringAt(list, bufP)
      ptr(i)  == Wrap(ptrP + Word * (i - 1))
      good(i) == Gptr(at[i], list[i]) /\ Gptr(ptr(i), Word)
      put     == { i \in 1..Len(list) : \A j \in 1..i : good(j) }
      touched == UNION { Span(at[i], list[i]) \cup Span(ptr(i), Word) : i \in put }
      given   == Region(ptrP, Word * Sizes(list).count)
                   \cup Region(bufP, Sizes(list).size)
  IN done' = [op |-> op, touched |-> touched, given |-> given,
              ret |-> IF put = 1..Len(list) THEN "ok" ELSE "efault",
              list |-> list, ptrP |-> ptrP, bufP |-> bufP, at |-> at]

ArgsGet(ptrP, bufP)    == StringsGet("args", Argv, ptrP, bufP)
EnvironGet(ptrP, bufP) == StringsGet("args", Envp, ptrP, bufP)

--------------------------------------------------------------------------------
(***************************************************************************)
(* iovs_to_host, and the readv or writev it is for: bufs are the buffers    *)
(* the array at iovsP lists, countP is where the number of bytes goes.  Of  *)
(* each entry the pointer and the length are read and the buffer looked up; *)
(* when all are known the host moves the bytes.                            *)
(***************************************************************************)
Iovs(iovsP, bufs, countP) ==
  LET n        == Len(bufs)
      word(k)  == Place(Wrap(iovsP + Word * k), Word)
      places   == [k \in 1..(4 * n + 1) |->
                     LET i == (k + 2) \div 3
                     IN IF k > 4 * n THEN Place(countP, Word)
                        ELSE IF k > 3 * n
                        THEN BufferAt(bufs[k - 3 * n].p, bufs[k - 3 * n].len,
                                      bufs[k - 3 * n].len)
                        ELSE IF k = 3 * i THEN BufferAt(bufs[i].p, bufs[i].len, 0)
                        ELSE word(k - i)]
      given    == Region(iovsP, 2 * Word * n) \cup Region(countP, Word)
                    \cup UNION { Region(bufs[i].p, bufs[i].len) : i \in 1..n }
  IN IF n > MaxIov
     THEN \E ret \in {"efault", "errno"} : done' = Call("iovs", ret, {}, given)
     ELSE done' \in InTurn("iovs", places, {0, 4 * n}, given)

--------------------------------------------------------------------------------
(***************************************************************************)
(* fd_readdir: of each entry its head and its name are copied to where the  *)
(* one before ended, until the buffer is full; what does not fit is cut.    *)
(* names are the lengths of the names from the cookie on, and ShimDirectory *)
(* has what the guest makes of the entries.                                *)
(***************************************************************************)
FdReaddir(bufP, len, usedP, names) ==
  LET n        == 2 * Len(names)
      parts    == [k \in 1..n |->
                     IF k % 2 = 1 THEN DirentLen ELSE names[k \div 2]]
      start(k) == Upto(parts)[k - 1]
      copied   == [k \in 1..(n + 1) |->
                     IF k > n THEN Place(usedP, Word)
                     ELSE IF start(k) < len \/ k = 1
                     THEN Place(Wrap(bufP + start(k)), Part(len, start(k), parts[k]))
                     ELSE BufferAt(bufP, 0, 0)]
  IN done' \in InTurn("readdir", copied, {0},
                      Region(bufP, len) \cup Region(usedP, Word))

--------------------------------------------------------------------------------
(***************************************************************************)
(* poll_oneoff.                                                            *)
(***************************************************************************)
Times == 0..(2 * TimeSign - 1)
SignedTime(x) == IF x < TimeSign THEN x ELSE x - 2 * TimeSign

Subs == [tag : {"clock"}, abs : BOOLEAN, timeout : Times]
          \cup [tag : {"fd_read", "fd_write", "other"}]

\* How long a clock subscription waits: timeout - now in unsigned arithmetic if
\* it is absolute and still to come.
Remaining(sub, now) ==
  IF ~sub.abs THEN sub.timeout
  ELSE IF sub.timeout > now THEN sub.timeout - now ELSE 0

\* Mutant of Shortest: the last clock subscription wins.
ShortestIsLast(subs, now) ==
  LET r(i) == SignedTime(Remaining(subs[i], now))
      s[i \in 0..Len(subs)] ==
        IF i = 0 THEN [ns |-> -1, sub |-> 0]
        ELSE IF subs[i].tag = "clock" THEN [ns |-> r(i), sub |-> i] ELSE s[i - 1]
  IN s

\* min_sleep_ns and the subscription it is of, after each subscription; what is
\* below 0 is no minimum.
Shortest(subs, now) ==
  LET r(i) == SignedTime(Remaining(subs[i], now))
      s[i \in 0..Len(subs)] ==
        IF i = 0 THEN [ns |-> -1, sub |-> 0]
        ELSE IF subs[i].tag = "clock" /\ (s[i - 1].ns < 0 \/ r(i) < s[i - 1].ns)
             THEN [ns |-> r(i), sub |-> i]
             ELSE s[i - 1]
  IN s

Fds(subs) == { i \in 1..Len(subs) : subs[i].tag \in {"fd_read", "fd_write"} }

\* The events there are when the loop comes to subscription i.
Emitted(subs, i) == Cardinality({ j \in Fds(subs) : j < i })

\* The subscriptions are read in turn; a descriptor's event is written at once,
\* at the next place.  If there was none, sleep and write the clock's event.
PollOneoff(inP, outP, countP, subs, now) ==
  LET n        == Len(subs)
      sub(i)   == Wrap(inP + SubLen * (i - 1))
      event(i) == Wrap(outP + EventLen * Emitted(subs, i))
      good(i)  == /\ Gptr(sub(i), SubLen)
                  /\ i \in Fds(subs) => Gptr(event(i), EventLen)
      read     == { i \in 1..n : \A j \in 1..i : good(j) }
      short    == Shortest(subs, now)[n]
      clock    == Fds(subs) = {} /\ short.ns >= 0
      faults   == \/ read # 1..n
                  \/ clock /\ ~Gptr(outP, EventLen)
                  \/ ~Gptr(countP, Word)
      touched  == (IF read = 1..n /\ clock /\ Gptr(outP, EventLen)
                   THEN Span(outP, EventLen) ELSE {})
                    \cup (IF ~faults THEN Span(countP, Word) ELSE {})
                    \cup UNION { Span(sub(i), SubLen)
                                   \cup (IF i \in Fds(subs)
                                         THEN Span(event(i), EventLen) ELSE {}) :
                                 i \in read }
      events   == IF clock THEN <<short.sub>>
                  ELSE [k \in 1..Cardinality(Fds(subs)) |->
                          CHOOSE i \in Fds(subs) : Emitted(subs, i) = k - 1]
      given    == Region(inP, SubLen * n) \cup Region(outP, EventLen * n)
                    \cup Region(countP, Word)
  IN done' = IF n = 0 THEN Call("poll", "einval", {}, given)
             ELSE [op |-> "poll", touched |-> touched, given |-> given,
                   ret |-> IF faults THEN "efault" ELSE "ok",
                   subs |-> subs, now |-> now, events |-> events,
                   slept |-> IF clock THEN short.ns ELSE 0]

MemNext ==
  /\ done = Nothing
  /\ \E p, q, r \in Pointers :
       \/ \E n \in 0..MaxSubs : \E subs \in [1..n -> Subs], now \in Times :
            PollOneoff(p, q, r, subs, now)
       \/ FilestatGet(p) \/ FdstatGet(p) \/ PrestatGet(p) \/ SeekOrTell(p)
       \/ SizesGet(p, q) \/ ArgsGet(p, q) \/ EnvironGet(p, q)
       \/ \E n, m \in Lens :
            \/ RandomGet(p, n) \/ PrestatDirName(p, n) \/ ClockTimeGet(n, p)
            \/ PathOnly(p, n) \/ TwoPaths(p, n, q, m)
            \/ PathFilestatGet(p, n, q) \/ OpenPath(p, n, q)
            \/ \E target \in Lens : PathReadlink(p, n, q, m, r, target)
            \/ \E k \in 0..MaxList :
                 \/ \E bufs \in [1..k -> {[p |-> q, len |-> n],
                                         [p |-> r, len |-> m]}] : Iovs(p, bufs, q)
                 \/ \E names \in [1..k -> Lens \ {0}] : FdReaddir(p, n, q, names)

MemSpec == MemInit /\ [][MemNext]_done

--------------------------------------------------------------------------------
MemTypeOK ==
  /\ done.ret \in {"ok", "einval", "efault", "errno"}
  /\ done.given \subseteq 0..(Addresses - 1)

\* Whatever pointers and lengths the guest passes to a call that reads or
\* writes its memory, the host touches only the guest's memory, and of it only
\* what the call was given: no sum that wraps, no list, no path, no directory
\* entry or link longer than its buffer leads anywhere else, in a call that
\* fails half way neither.
StaysInBuffers == done.touched \subseteq done.given \cap 0..(MemSize - 1)

\* A guest that makes room for what args_sizes_get (or environ_sizes_get) tells
\* it gets every string, one behind the other, each where its pointer says.
ArgsFit ==
  (done.op = "args" /\ done.bufP + Sizes(done.list).size <= MemSize
                    /\ done.ptrP + Word * Sizes(done.list).count <= MemSize) =>
    /\ done.ret = "ok"
    /\ \A i \in 1..Len(done.list) :
         done.at[i] + done.list[i] =
           IF i = Len(done.list) THEN done.bufP + Sizes(done.list).size
                                 ELSE done.at[i + 1]

\* wasi_shim.c:803-806, "emit ready events for every fd subscription; if there
\* are none, sleep for the shortest clock subscription and emit its event": as
\* long as no clock has 2^63 or more to go, from where it would count as none.
PollAnswers ==
  (done.op = "poll" /\ done.ret = "ok") =>
    LET subs    == done.subs
        left(i) == Remaining(subs[i], done.now)
        clocks  == { i \in 1..Len(subs) : subs[i].tag = "clock" }
        got     == { done.events[k] : k \in 1..Len(done.events) }
    IN (\A i \in clocks : left(i) < TimeSign) =>
         IF Fds(subs) # {} THEN got = Fds(subs) /\ done.slept = 0
         ELSE IF clocks = {} THEN got = {}
         ELSE /\ Len(done.events) = 1
              /\ \E i \in clocks :
                   /\ got = {i}
                   /\ done.slept = left(i)
                   /\ \A j \in clocks : left(i) <= left(j)
===============================================================================
