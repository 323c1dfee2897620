# pglite-ios: models, model checking and proofs

pglite-ios embeds PostgreSQL in an iOS or macOS app. The engine (PGlite, compiled
to WebAssembly and from there to C) runs on the caller's thread; C code pumps
wire-protocol bytes in and out of it and gives it files; a Swift actor and an
optional localhost server put it to use. The modules here are TLA+ models of the
parts that are the repository's own, with TLC runs that check them on small
instances and TLAPS proofs for every value of the constants.

Paths below are relative to the repository. `B` is
`native/bridge/pglite_bridge.c`, `SH` is `native/shim/wasi_shim.c`, `RT` is
`native/runtime`, `PG` is `Sources/PGliteKit/PGlite.swift`, `SV` is
`Sources/PGliteKit/PGliteServer.swift`.

## 1. Inventory

| Component | State | Operations | Status |
|---|---|---|---|
| Wire bridge (`B`) | reply buffer, idle count, `dead`, the CMA and the socket files | `pgl_open`, `exchange`, `drain`, `pgl_exec_wire`, `pgl_exec`, `pgl_close` | `WirePump`, the bytes of a reply in `ExecReply` |
| Engine (generated) | request, bytes owed, deferred ReadyForQuery, transaction | one tick (`interactive_one`), `wasipg_flush`, a trap, `proc_exit` | as far as the bridge and its users see it: `WirePump`, `BackendSession` |
| `PGlite` handle and `PGliteDatabase` actor (`PG`) | `db`, and where each task stands in `withTransaction` | `query`, `rows`, `execute`, `exec`, `withTransaction`, `rawExchange`, `close` | `PGliteDatabase`; `query` and `rows` in `ExecReply` |
| Seeding (`PG:100-152`) | the runtime tree and the data directory | `seedRuntimeFS`, `seedPristineData` | `BootSeed` |
| `PGliteServer` (`SV`) | listener, `active`, one task per connection | `start`, `stop`, `accept`, `session`, `handshake`, `readBatch` | `PGliteServer` |
| Descriptor table of the WASI shim (`SH`) | `fds`, `log_fd`, `preopens` | init, `path_open`, `fd_close`, `fd_renumber`, dispose | `FdTable` |
| Other WASI calls (`SH`) | the flags of a slot; open files and directories of the host; guest memory | reading, writing, seeking, resizing; `fd_readdir` and the `path_` calls; arguments, clocks, preopens, `poll_oneoff` | `WasiShim` (`ShimFiles`, `ShimDirectory`, `ShimMemory`) |
| `GUEST_CALL` and wasm runtime (`RT`, vendored) | per thread: jump buffer, unwind target, call depth, signal stack; `rt_ready` and the signal handler of the process | initialisation, traps, signals, exceptions, `proc_exit` | `GuestCall`; linear memory and tables not modelled |
| Wire codec (`Wire.swift`, `PGValue.swift`) | none | encoding, decoding | not modelled |
| `dlopen` shim (`module/patches/pgios`) | symbol table | registration, lookup | not modelled |
| Build scripts, tests, example app | none | | not modelled |

How they interact. The app and the server's sessions await the actor; the actor
makes one synchronous call at a time into the bridge; the bridge publishes a
request in shared memory (the CMA), ticks the engine, and collects the reply from
the CMA, from a spill file written when the reply does not fit, or from a late
flush. A guest call ends by returning, by a trap (`longjmp` to `GUEST_CALL`) or by
`proc_exit` (another `longjmp`). The engine's file calls go through the
descriptor table. All users share the engine's one backend session.

What is hard about it, and what correctness means:

- *Wire bridge.* A reply arrives in pieces over three channels and any number of
  ticks, and its end is recognised by ReadyForQuery or by ten silent ticks. Each
  caller must get exactly its own reply, a failure must not leave bytes behind
  for the next caller, a trapped engine must not be entered again, and every call
  must come back.
- *Actor and server.* `withTransaction` gives up the actor while its body runs, and
  the server sends `ROLLBACK` when a client goes. Transactions must not be left
  open or leak into each other, and the server must serve one client at a time,
  free its slot, and stop.
- *Descriptor table.* The log and the preopened directories are shared between
  slots and the shim, everything else belongs to one slot, and the process has
  other threads that reuse a descriptor number at once. No descriptor may be used
  after its close, closed twice, or lost.
- *Other WASI calls.* A file has the flags and rights of the guest on one side and
  of the host on the other, and they must agree over open, seek, resize and
  `set_flags`. A directory is listed anew at every call and resumed by counting.
  Addresses are added in 32 bits in one place and in 64 in another.
- *Guest calls.* Every way out but a return is a long jump to a buffer that an
  earlier call may have left behind, state is per thread while databases move
  between threads, and the initialisation is unlocked.
- *Reply bytes.* A reply may be cut anywhere, a body may look like a frame, and
  what `pgl_exec` prints is read back as rows.
- *Seeding.* The app may be killed between any two files, and what is there is
  taken for complete.

`PROJECT.json` lists each hazard at its line with the properties that cover it.

## 2. Modules

| Module | Models | Extends / instantiates |
|---|---|---|
| `ReplyStream` | reply units, ReadyForQuery, `has_rfq` | |
| `EngineService` | abstract: calls answered one at a time with their own whole reply, or the end | `ReplyStream` |
| `WirePump` | the bridge and the engine below it | instantiates `EngineService` as `Service` |
| `WirePumpProofs` | theorems about `WirePump` | `WirePump` |
| `BackendSession` | the engine's session: transaction block, pending and committed writes | |
| `PGliteDatabase` | the actor, `withTransaction` step by step | `BackendSession` |
| `PGliteServer` | listener, slot, sessions, `stop()` | |
| `SharedSession` | tasks and clients on the one session | `PGliteDatabase`, instantiates `PGliteServer` as `Server` |
| `PGliteServerProofs` | theorems about `PGliteServer` | `PGliteServer` |
| `SharedSessionProofs` | theorems about `SharedSession` | `SharedSession`, instantiates `PGliteServerProofs` as `Proven` |
| `FdTable` | the descriptor table among the descriptors of the process | |
| `FdTableProofs` | theorems about `FdTable` | `FdTable` |
| `GuestCall` | calls into generated code and the ways out of them, on several threads | |
| `GuestCallProofs` | theorems about `GuestCall` | `GuestCall`, `BoundedInduction` |
| `ShimFiles`, `ShimDirectory`, `ShimMemory` | the other WASI calls, by the state they touch | |
| `WasiShim` | the three of them together | extends all three |
| `WasiShimProofs` | theorems about the three of them | `WasiShim`, `BoundedInduction` |
| `BoundedInduction` | lemmas: induction, recursion and counting up to a bound | |
| `ExecReply` | the bytes of a reply and what is read out of them | |
| `ExecReplyProofs` | theorems about `ExecReply` | `ExecReply`, `BoundedInduction` |
| `BootSeed` | seeding and boot of a data directory, with crashes | |
| `MCWirePump`, `MCPGliteServer`, `MCSharedSession`, `MCWasiShim`, `MCExecReply` | sets for the configurations | |

Definitions named in a comment as a *mutant* are wrong variants of the definition
they precede, used only to confirm that a property notices the bug.

### WirePump

`pc` follows `exchange()` (`B:179-226`): publish the request, then as long as
`Finished` is false a tick (`InteractiveOne`), the flush (`WasipgFlush`) and `Drain`.
`phase` follows `pgl_open`'s boot, authentication and `SET search_path`, use, and
`pgl_close` with its checkpoint. A reply is a sequence of units; a tick emits any
prefix of what it owes, cut anywhere between CMA and spill file, may defer
ReadyForQuery while authentication is busy, and may stay silent at most
`MaxSilent` times in a row while it owes something. `buf`, `idle`, `dead`, `cma`,
`spill` are the C variables and channels of the same meaning. `Faults` says what
may go wrong: traps and `proc_exit`, while booting or in an exchange, an
authentication the bridge does not know, a shim or an allocation that fails, and
unreadable channels. Whatever fails before the handle is marked `dead` goes through
`pgl_close` and its checkpoint, so `AfterStartup`, `BootTrap` and `NoMemory` lead to the
phase `"closing"`. A request that needs no ReadyForQuery (a batch without Sync) is of kind
`"partial"`.

Abstracted: bytes to units, SQL to the kind of batch, the lock files, and the
authentication message to what it asks for (`Asks`): nothing, a password (types 3 and
5), or something else. The bytes of these messages are in `ExecReply`.

### PGliteDatabase, PGliteServer, SharedSession

The actor runs one exchange at a time, so an exchange is one step; everything
else interleaves. `at[t]` is where task `t` stands in `withTransaction`: each
statement of its body, its own throw, `COMMIT`, a `COMMIT` that throws followed by
`ROLLBACK` in the same actor turn (`PG:195-198` has no await between), and
`ROLLBACK`. `issued`, `inside` and `mixed` are history: what a user wrote in its
transaction, which clients were told that they are in one, and whose transactions
somebody else's statement came into. `BackendSession` models what PostgreSQL does
with a statement; it is external, and contains the facts the code depends on
(`BEGIN` in a transaction warns, `COMMIT` of a failed one rolls back).

`session[c]` is where the task of connection `c` stands. `accept` is two steps
(`Admit`, `Take`) because `stop()` runs on another thread and comes between its
check of `active` and its assignment; the queue is serial, so no other block of the
queue does. `stop()` is three steps. `Release` is the block the state handler puts on
the queue. The handshake is one step with the three outcomes the caller sees.

`SharedSession` joins the two where `session` calls `rawExchange`: `Forward` and
`CleanUp` are steps of both. There a batch is one statement that ends in Sync.

### FdTable

`host`, `preopen`, `log`, `preopens` are the fields of the shim's table; `owner` is the
process's descriptor table, in which the app opens and closes files of its own
between any two steps, always getting the lowest free number. Init and dispose
are one step per `open` and `close`; a call of the guest is one step, because no
other thread touches the shim. A close does not ask whose descriptor it closes.

### GuestCall

`pc[t]` follows a thread through `pgl_open` (`B:314-318`, `wasm_rt_init` step by step),
a call of the bridge (`"host"`) and generated code (`"guest"`). `frames[t]` are the
guest's frames in the call the thread is in, functions and try blocks; `target`, `trapBuf`,
`depth` and `saved` are the runtime's thread-local variables, `armed` and `exitFrame` the
shim's `exit_jmp`. A buffer whose function has returned is `Dead`, and a jump to one, or to a
catch frame that is gone, loses the process: `JumpsLand`. `Builds` are the two ways
`native/scripts/build-lib.sh` compiles the runtime. What generated code does between
two calls into the runtime is external: functions call and return, try blocks put the
outer unwind target back. Whether generated code restores the call depth where it
catches is not in the sources, so it may or may not.

### ShimFiles, ShimDirectory, ShimMemory

A call that fails is left out where the failure changes nothing. In `ShimFiles` a call
moves one cell; `file` is the host's open file with its real flags, `fdflags` what the shim
tells the guest (`SH:534`), and slots 1 and 2 share the log's open file. Offsets are
64-bit words in the code and wrap at `2 * SignBit` here, addresses at `Addresses` and times
at `2 * TimeSign`. `ShimDirectory` holds one directory in the host's order and wasi-libc's
`readdir` loop (external) above `fd_readdir`; the directory may change between any two
steps of a listing, a new entry may come anywhere, the others keep their order. In
`ShimMemory` every call of the shim that has a pointer is one step that says which addresses
the host touched (`touched`) and which the guest's arguments stand for (`given`);
`poll_oneoff` also says which events it wrote and how long it slept. Most calls ask `gptr`
for one place after the other and use each before they ask for the next: `InTurn` is
what such a call may have touched when it ends, with the first place it is refused or with
what the descriptor table or the host answers in between. What the calls do to files is
not here but in the other two modules and `FdTable`; the three share no state, so
`WasiShim` lets a behaviour use one of them.

### ExecReply

`WirePump` takes a reply for a sequence of units; here it is a sequence of bytes in base
`Base`, with lengths of `WordLen` bytes, whose messages, values, tags and errors are chosen
so that a body can look like a frame. It arrives in pieces of any size, `has_rfq` and
the growth of the buffer run on each, and then one of the three readers works through it
a frame at a time. `Message` and `Fits` say what the engine may send, as far as the bridge
relies on it: frames and values whose lengths fit their numbers, command tags of one line,
strings without a terminator in them, a salt of `WordLen` bytes with an MD5 request; each
frame, value and field is otherwise any bytes. A loop of the code is a function of the number
of passes (`Start`, `Columns`, `Fields`) over one pass (`NextColumn`, `NextField`), which
is also what the proofs need. `Rows` is Swift's side: `split`, `hasPrefix` and `components`, with a
carriage return before a newline making one character that is not a newline.

### BootSeed

`pglite` and `base` are the sets of files written so far, or `None`. `Stops` is the app
being killed and an `init` that throws, at any step.

## 3. Runs

| Run | Bounds | Shows |
|---|---|---|
| `WirePump` | idle limit 10, silence 9, replies up to 2 units, 5 exchanges, traps and allocation failure | `ReplyExact`, `NothingInFlight`, `TrappedIsLeftAlone`, and that the bridge implements `EngineService` |
| `WirePumpFaults` | idle limit 2, silence 1, 3 exchanges, every fault there is | every exchange, `pgl_open` and `pgl_close` return |
| `Server` | 2 clients, 1 batch each, 2 calls of `stop()`, resets | `SessionsDoNotOverlap`, `SlotIsFreed` |
| `Shared` | a `withTransaction` task, a single-statement task, a client; 2 writes each, 2 batches; engine death, `close()`, resets | `NoOrphanTransaction`, `AloneIsAtomic` |
| `SharedClients` | 2 clients, 3 batches each, 1 write; symmetric in the clients | `AbandonedIsGone`, `AloneIsAtomic` |
| `FdTable` | 5 slots, 5 descriptors | `NothingDangles`, `NothingLeaks`, `AppKeepsItsFiles` |
| `GuestCall` | 2 threads, 2 databases, call depth limit 2, stack for 3 frames, both builds | `JumpsLand`, `DepthCountsFrames`, `HandlerWindow` |
| `WasiShim` | the log and one more slot, 1 file of up to 2 cells, 3-bit offsets; 3 names and entries, 2 changes, a name longer than the buffer; 4-bit addresses, 3-bit times, 2 subscriptions; lengths up to 5, 3 buffers (of which 2 are allowed) or directory entries in a call | `AppendsOnlyAppend`, `RightsHold`, `AllocateReserves`, `ListingIsFaithful`, `ListingEnds`, `StaysInBuffers`, `ArgsFit`, `PollAnswers` |
| `ExecReply` | base 16, lengths of 2 bytes, up to 4 messages, output buffers of 1, 2, 5 and 40 bytes | `ReadyIsFound`, `OutputIsExact`, `AnswersTheRequest`, `RowsComeBack` |

Why the bounds are enough. The idle limit of `WirePump` is the code's own. Two
units can be split into empty, partial and whole pieces over both channels, and
five exchanges go through all of boot (three), one request, the checkpoint, and
the exchange after a failure. In the liveness run the limit of two is reached, the
case the other excludes: by an engine that has gone, that waits to be authenticated or that
has nothing more to say, and, with bytes still owed, by a silent tick and one whose output
is lost. With trust its three exchanges are the two of the boot and a request, and the
checkpoint may follow as a fourth. Two clients are the one served and the one refused or
next. A transaction of a client is `BEGIN`, one write and its end: three batches. In
`FdTable` the five slots are all filled by init, so the table runs full, and slots
are freed and filled again; four descriptors are the shim's from init and the
fifth goes back and forth between it and the app. The proofs then cover all sizes.

In `GuestCall` two threads and two databases give a database to each thread, move one
between threads, and open two at once; three frames hold a function in a try block
in a function, more than the depth limit allows. In `WasiShim` the offsets hold the
smallest, the largest, the sign bit and pairs whose sum wraps to either sign; three entries
fill the listing's buffer to the byte, cut an entry in its head and in its name, and
one does not fit at all; the lengths are those of nothing, of paths that fit the shim's
buffer or are too long for it, and of names and links that fit the guest's buffer or are
cut; the last addresses are at the end of an address space that is
all memory, the only place where a 32-bit sum can wrap back into memory. In `ExecReply`
every position is a cut, and the output sizes cut a row, a tag and an error in every
place.

`WasiShim` uses a `VIEW` that leaves out `call`, the record of the last call: only action
properties read it, in the step that writes it, and no guard does.

Deadlock is not checked: the app, the clients and the guest may stop asking, a closed
handle is the end of it, and a reply that is read is done.

Fairness. `WirePump`: weak fairness of the bridge's steps, which run synchronously on
the caller's thread and wait for nothing; the engine's tick is one of them and a
tick that does not return is not modelled. The choices of the engine are not
fair. `PGliteServer`: weak fairness of each connection's queue blocks, of its
session unless it waits for a client that is still connected, and of its
exchanges, because dispatch queue and tasks are scheduled and an exchange returns
(`ExchangeReturns`). `WasiShim`: weak fairness of the steps of a listing that has begun,
a loop of the one thread the guest has. Clients, the network, the app and whoever
changes the directory are not fair.

### Disagreements between the code and what it says

Each of these runs checks one property and finds it violated.

| Run | Said | Done |
|---|---|---|
| `TwoTasks` | `PG:188`: "BEGIN / body / COMMIT" | of two concurrent `withTransaction`s one returns with its writes rolled back |
| `ThreadsAreInitialised` | `RT/wasm-rt.h:554-557`: `wasm_rt_init_thread` "Must be called by each thread" | nobody calls it: a second thread runs the guest without a signal stack (`B:315`) |
| `BootSeed` | `PG:33-35`: "Prepare `root` (seeding ... if absent) and boot the engine" | a seed that was interrupted is taken for complete (`PG:106`, `PG:124`) |

Seen while modelling, with no run of their own:

- A refused payload - empty, or above half of the CMA - gets the -1 of
  `pglite_bridge.h:41`, "-1 on engine death", and the caller closes a running
  engine (`B:186`). An engine that left through `proc_exit` gives a short success instead
  (`B:54`); one that left while booting is authenticated by silence and opened.
- After a trap while booting, or an authentication it does not know, `pgl_open` fails
  without marking the handle dead, and its `pgl_close` runs a checkpoint on an engine that
  trapped or still waits to be authenticated (`B:306`, `B:366`). It comes back
  (`OpenAndCloseReturn`); `TrappedIsLeftAlone` is about traps in exchanges.
- A spill file that cannot be buffered stays, and the next call receives it (`B:98`).
- Every departing client rolls back the app's transaction (`SV:129`), although
  `SV:127-128` says that a client must not poison the shared session. `stop()` inside
  `accept` leaves a client served (`SV:95`).
- With `Catches = TRUE` a body that catches a statement's error "commits" a failed
  transaction (`PG:195`).
- An error inside `handshake` reaches the `ROLLBACK` although `SV:134` says nothing
  reaches the engine before the handshake passes; `readBatch` forwards an incomplete
  batch at the end of the stream (`SV:250`).
- After a reset the old session's `ROLLBACK` can end the next client's transaction
  (`SV:100`), which is why `SessionsDoNotOverlap` excludes broken links and `AloneIsAtomic`
  transactions that others entered.
- `authenticate` takes a reply without an AuthenticationRequest, an ErrorResponse for
  one, for "trust" and goes on (`B:272`).
- `rows()` drops a row whose first column begins with `#`, drops a row of one empty
  column, and splits values at tabs and newlines (`PG:80-82`); `query` cuts the text
  at 1 MiB without a word (`PG:64`).
- `sappend` with a buffer of size 0 wraps around (`B:425`); nobody passes 0.
- `fd_allocate` of a range that ends at 2^63 or more succeeds and reserves nothing
  (`SH:504`); a clock with as much to go counts as none (`SH:834`).
- A listing during which entries go misses others (`SH:620`), and one during which
  they come yields some twice: `ListingIsFaithful` says how far it can be relied on.
- `proc_exit` and an uncaught exception leave frames in the call depth (`SH:359`,
  `RT/wasm-rt-exceptions-impl.c:47`).

## 4. Proofs

`WirePumpProofs`, for every idle limit, reply length, silence and number of calls:

- `TypeCorrect`: types and bounds, with no further assumption.
- `RepliesAreExact`, `NothingStaysInFlight`, `TrappedStaysAlone`,
  `BridgeImplementsService`: under `OnlySafeFaults` (no fault but a trap in an
  exchange or a reply buffer that cannot grow) and `Patient` (`MaxSilent < IdleLimit`: the engine is
  never silent for as long as the bridge waits). The second is an assumption about
  the engine that the code makes without checking it.

The inductive invariant is `DeliveryInv`. Exactness is not inductive: it speaks of
the finished reply only. The strengthening says that throughout an exchange the
concatenation of buffer, CMA, spill file, bytes owed and deferred ReadyForQuery is
one whole reply to the current request (`Conserved`), that the channels are empty
where the code takes them to be (`DrainedAtHead`, `CleanOutside`), and that the idle
count is at most the engine's own count of silent ticks (`PatientAtHead`,
`PatientInTick`), so that the loop cannot end early. The refinement follows: `Finish`
is the service's `Answer`, giving up is its `Die`, everything in between a stutter.

`FdTableProofs`, for every table size from five (what init fills) and every number
of descriptors, with no other assumption: `TypeCorrect`, `ReferencesStayOpen`,
`FilesAreReleased` and `AppIsSafe`. The invariant adds `Shared` (a slot is flagged as a
preopen exactly if its file is one, and the log is none, which is why `fd_close`,
looking at flags, and dispose, comparing descriptors, agree) and `Layout` (which
slots are free in each phase of init and dispose).

`PGliteServerProofs`, for any number of connections, batches and calls of `stop()`:
`ServerTypesAreKept` and `OneSessionAtATime`. That sessions do not overlap follows from
the slot: until `stop()` is called, whoever has a session on a link that is not broken
holds it (`HoldsSlot`), and `accept` checks the slot and takes it with no other block of
the queue in between (`Accepts`).

`SharedSessionProofs`, for any number of tasks, single statements, clients, writes and
batches:

- `SharedTypesAreKept`, `NoTransactionIsOrphaned` and `AbandonedWritesAreGone`.
- `LoneTransactionsAreAtomic`, under `~Catches`: bodies do not swallow a statement's error.
  Without that it is false, see the disagreement about `PG:195`.
- `ServerIsImplemented`: `SharedSession` implements `PGliteServer`'s safety part
  (`Server!ServerSafety`). `Forward` and `CleanUp` are the server's steps of the same name
  with the answer decided by the session, and what a task does is a stutter of the server. The server's own theorems then hold of the composition.

The invariant says that whatever the session holds has somebody who will end it: an open block
has a member (`Held`), and a client that believes itself in a transaction, or has writes
pending, still has its `ROLLBACK` to come (`Answerable`). `AloneIsAtomic` speaks of the end
of a transaction only, so `Alone` says throughout that what a user alone in it has issued is
what the backend holds; it survives the steps of the others because two users in a
transaction are both mixed (`Two`), no write is made twice (`Fresh`), and a client
outside has nothing issued (`Settled`). The server's invariant is part of it, as `CleanUp`
comes from where the session stands.

`GuestCallProofs`, for any number of threads and databases, any depth limit and stack, and
both builds: `TypesAreKept`, `EveryJumpLands`, `DepthIsExact`, `HandlerIsThere`.
`JumpsLand` alone says nothing of where the buffers are, so the invariant does: in the guest the
trap buffer and the database's exit frame are those of the present call, and the unwind target is
the innermost try block (`InGuest`); a database is worked for by one thread at a time
(`OneThread`, what the actor provides); there are frames only in the guest (`FramesFit`). The
depth is what earlier calls left behind, what this one lost, and the functions on the stack, and
what a trap goes back to is the first of the three (`SavedIsGone`). `Ready` and `Started` say how
far `wasm_rt_init` has come on each thread when another passes it.

`WasiShimProofs`, one set of theorems for each of the three modules:

- Files, for any number of slots, files and cells and words of any width: `FileTypesAreKept`,
  and the action properties `RightsAreHeld`, `AppendingIsSafe` and `AllocationReserves`.
  They rest on two facts that open, close, `set_flags` and the sharing of the log have to
  keep: what the host lets be written belongs to slots with the right to (`Granted`), and
  it appends wherever the guest is told so (`Reported`).
- Memory, for any size, pointers and lengths and any number of strings, buffers and
  subscriptions: `MemTypesAreKept`, `HostStaysInBuffers`, `ArgumentsFit`, `PollsAreAnswered`. A
  call depends on its arguments alone: one lemma for each call, and nothing to strengthen.
  Where a call uses one place after the other it is enough that each place lies in what the
  call was given (`InTurnInv`), however many there are and wherever the call ends; for the
  entries of a listing that takes the sum of those before (`UptoIs`), for a buffer at the end
  of memory that a sum which wraps is refused or comes back into it (`SpanInRegion`).
- Directories, for any number of entries and changes, names of any length and any buffer that
  holds an entry's head: `DirTypesAreKept` and `ListingsAreFaithful`. The property speaks of
  a listing that has ended. The invariant speaks of all names read so far, those handed out and
  then those in the buffer (`Handed`), and of how far into the directory they reach (`Reach`),
  and has a part for each thing that may not happen: `Same`, `NoneMissed`, `NoneTwice`,
  `NoneInvented`, with `Counted` and `Untouched` for the bookkeeping of cookies.

`BoundedInduction` holds what those proofs need of induction. The library states induction over
a predicate, which no installed prover can instantiate; here the hypothesis is a set of numbers
(`Induction`), and for a step that is itself a function there is a function over `0..n` that
unfolds by it (`Recursion`), which is what a recursive definition chooses. Both come from the order of the numbers being well founded. So what the recursive
functions of `WasiShim` and `ExecReply` compute is proved for every input.

`ExecReplyProofs`, for any base and length of words, messages of any bytes, replies cut in
any way and buffers of any size: `TypeCorrect`, `ReadyFound`, `RequestAnswered`,
`OutputExact` and `RowsReturn`. None of the properties is inductive: they speak of what has
been read, and a step of the loop reads bytes. The invariant `ReplyInv` says that the buffer is a
beginning of the reply's bytes (`Came`) and that the loop stands exactly behind some
number of its messages, has made of those what they say (`Rendering`, `Matches`, the
error in `rc`), and ends behind the last that is whole (`ReadTo`). That a step keeps it is
that a message is read back from its bytes, whatever stands around it, and this is most of
the module, bottom up:

- an Int32 (`WordIs`), a frame (`FrameAt`), and hence that the loop over the frames meets
  the messages and nothing else, so that what looks like a frame in a body is never looked at
  (`StartIs`, `RfqFound`); that the doubled capacity is enough (`GrownIs`);
- a row with its NULLs (`ColumnsIs`), a string (`CStringIs`), the fields of an error
  (`FieldsIs`), and that cutting at every `sappend` is the same as cutting once (`SappendIs`);
- for `RowsReturn` a second reading, of text: what was put together with an end behind each
  piece comes apart at the ends (`Splits`), used for the columns of a row (`RowSplits`) and
  for the lines of the text (`LinesIs`, `RowsAre`).

`RowsReturn` has the hypotheses of `RowsComeBack`, which it proves as the runs check it: rows
whose values hold no tab and no line end and do not look like a tag (`Tame`), no error, and a text
that was not cut. They are what `rows()` needs; section 3 says what it does without them.

Assumptions. Every theorem rests on the named assumption about the constants of the modules it
extends (`WirePumpAssumption`, `FdTableAssumption`, `GuestCallAssumption`, `ExecReplyAssumption`,
`PGliteServerAssumption`, `SharedSessionAssumption`, `ShimFilesAssumption` and so on), which
say what kind of numbers and sets they are; TLC evaluates each of them. `OnlySafeFaults`, `Patient`
and `~Catches` are hypotheses of the theorems that need them, and stated there.

Only model-checked:

- Liveness, and what is said under fairness: `ExchangeReturns`, `OpenAndCloseReturn`,
  `SlotIsFreed`, `ListingEnds`, the fairness half of `EngineService` and of `PGliteServer`.
  The prover has no rule for `ENABLED`.
- The three disagreements of section 3, each a counterexample.

## 5. Not modelled

- The generated engine beyond its channels and its session: it is not in the repository.
- Of the wasm runtime: linear memory and tables (`RT/wasm-rt-mem-impl.c` and its
  `.inc`), which the one instance allocates once and grows from generated code, the
  segment registers, and Windows.
- Of the WASI shim: `fd_sync`, `fd_datasync` and `fd_advise`, without an effect the guest can
  see while the process lives; the errno table; times in a filestat.
- Row decoding and the message codec (`Wire.swift`, `PGValue.swift`): pure functions.
- The byte level of the handshake and of `readBatch`: `PGliteServer` has their outcomes.
- The `dlopen` shim: a table inside the engine, filled when it is built.
- Build and packaging.

## 6. Plan

Every invariant and every action property that a run checks is also a theorem. What is left
is outside of what the tools reach or of what the sources hold:

1. Liveness stays with TLC, on instances that grow with the machine it runs on.
2. Composing `ExecReply` with `WirePump` (bytes below units): `ReadyFound` is the fact that
   makes a unit's `rfq` flag exact, and would be the step of a refinement between them.
3. The byte level of `handshake` and `readBatch`, which is where the server's two open
   disagreements (`SV:134`, `SV:250`) are.
