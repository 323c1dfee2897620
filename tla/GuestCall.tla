------------------------------- MODULE GuestCall --------------------------------
(***************************************************************************)
(* Calls into generated code (GUEST_CALL of native/bridge/pglite_bridge.c)  *)
(* and the ways out of them: a return, a trap (wasm_rt_trap), a signal      *)
(* turned into a trap, an exception nobody catches (wasm_rt_throw) and      *)
(* proc_exit.  All but the first are long jumps, to a buffer of the thread, *)
(* to a catch frame of the guest or to a buffer of the database, and a long *)
(* jump is only good while the function that set its buffer has not         *)
(* returned.                                                                *)
(*                                                                         *)
(* The runtime's state is per thread, a database is called from whichever   *)
(* thread its actor runs on, and pgl_open initialises the runtime on the    *)
(* thread that happens to come first.  native/scripts/build-lib.sh builds   *)
(* it in two ways: with guard pages and a signal handler (macOS and the     *)
(* simulator) or with explicit checks and a call depth counter (devices).   *)
(***************************************************************************)
EXTENDS Integers, Sequences, FiniteSets

CONSTANTS
  Threads,       \* the threads the app's actors run on
  Dbs,           \* the databases of the process
  MaxDepth,      \* WASM_RT_MAX_CALL_STACK_DEPTH (1500 on devices)
  MaxFrames      \* the guest frames a thread's stack has room for

ASSUME GuestCallAssumption ==
  /\ MaxDepth \in Nat
  /\ MaxFrames \in Nat

None     == "none"
Dead     == "dead"  \* a frame whose function has returned
Dangling == -1      \* an unwind target inside a frame that is gone
Builds   == {"guard", "count"}

VARIABLES
  build,         \* how the library was built
  process,       \* "runs", "killed" by a signal, "aborted", or "lost" in a
                 \* jump to a dead frame
  rtReady,       \* pgl_open's rt_ready
  handler,       \* "none", "flagged" (g_signal_handler_installed), "installed"
  pc,            \* where each thread is
  serves,        \* the database a thread works for
  open,          \* the databases that are instantiated
  altstack,      \* the threads that have an alternate signal stack
  depth,         \* wasm_rt_call_stack_depth
  saved,         \* wasm_rt_saved_call_stack_depth
  trapBuf,       \* g_wasm_rt_jmp_buf
  target,        \* g_unwind_target: 0 for trapBuf, or the catch frame's place
  frames,        \* the guest's frames of the call a thread is in
  armed,         \* wasi.exit_jmp_armed of each database
  exitFrame,     \* the thread whose live frame wasi.exit_jmp is in
  gone,          \* history: frames of earlier calls still counted in depth
  goneNow        \* history: those of the call the thread is in

runtime == <<rtReady, handler, altstack>>
thread  == <<depth, saved, trapBuf, target, frames, gone, goneNow>>
shim    == <<armed, exitFrame>>
vars == <<build, process, runtime, pc, serves, open, thread, shim>>

Functions(fs) == Cardinality({ i \in 1..Len(fs) : fs[i] = "fn" })

TypeOK ==
  /\ build \in Builds
  /\ process \in {"runs", "killed", "aborted", "lost"}
  /\ rtReady \in BOOLEAN
  /\ handler \in {"none", "flagged", "installed"}
  /\ pc \in [Threads -> {"out", "open", "thread", "test", "flag", "sig", "mark",
                         "inst", "host", "guest"}]
  /\ serves \in [Threads -> Dbs \cup {None}]
  /\ open \subseteq Dbs
  /\ altstack \subseteq Threads
  /\ depth \in [Threads -> Nat]
  /\ saved \in [Threads -> Nat]
  /\ trapBuf \in [Threads -> [initialized : BOOLEAN,
                              frame : {None, "live", Dead}]]
  /\ target \in [Threads -> Dangling..MaxFrames]
  /\ frames \in [Threads -> Seq({"fn", "try"})]
  /\ armed \subseteq Dbs
  /\ exitFrame \in [Dbs -> Threads \cup {None, Dead}]
  /\ gone \in [Threads -> Nat]
  /\ goneNow \in [Threads -> Nat]

Init ==
  /\ build \in Builds
  /\ process = "runs"
  /\ rtReady = FALSE
  /\ handler = "none"
  /\ pc = [t \in Threads |-> "out"]
  /\ serves = [t \in Threads |-> None]
  /\ open = {}
  /\ altstack = {}
  /\ depth = [t \in Threads |-> 0]
  /\ saved = [t \in Threads |-> 0]
  /\ trapBuf = [t \in Threads |-> [initialized |-> FALSE, frame |-> None]]
  /\ target = [t \in Threads |-> Dangling]
  /\ frames = [t \in Threads |-> <<>>]
  /\ armed = {}
  /\ exitFrame = [d \in Dbs |-> None]
  /\ gone = [t \in Threads |-> 0]
  /\ goneNow = [t \in Threads |-> 0]

At(t, place) == process = "runs" /\ pc[t] = place
Goes(t, place) == pc' = [pc EXCEPT ![t] = place]

--------------------------------------------------------------------------------
(***************************************************************************)
(* pgl_open and wasm_rt_init.  An actor gives its database to one thread    *)
(* at a time.                                                               *)
(***************************************************************************)
Idle(d) == \A t \in Threads : serves[t] # d

Opens(t, d) ==
  /\ At(t, "out") /\ Idle(d) /\ d \notin open
  /\ serves' = [serves EXCEPT ![t] = d]
  /\ Goes(t, "open")
  /\ UNCHANGED <<build, process, runtime, open, thread, shim>>

\* Mutant of CheckReady: rt_ready is set before the runtime is initialised.
CheckReadySetsFirst(t) ==
  /\ At(t, "open")
  /\ rtReady' = TRUE
  /\ Goes(t, IF rtReady THEN "inst" ELSE "thread")
  /\ UNCHANGED <<build, process, handler, altstack, serves, open, thread, shim>>

CheckReady(t) ==
  /\ At(t, "open")
  /\ Goes(t, IF rtReady THEN "inst" ELSE "thread")
  /\ UNCHANGED <<build, process, runtime, serves, open, thread, shim>>

\* wasm_rt_init_thread: nothing to do without a stack exhaustion handler; with
\* one, the thread must not have been given its stack before.
InitThread(t) ==
  /\ At(t, "thread")
  /\ process' = IF build = "guard" /\ t \in altstack THEN "aborted" ELSE process
  /\ altstack' = IF build = "guard" THEN altstack \cup {t} ELSE altstack
  /\ Goes(t, IF build = "guard" THEN "test" ELSE "mark")
  /\ UNCHANGED <<build, rtReady, handler, serves, open, thread, shim>>

\* g_signal_handler_installed is tested and set without a lock: two threads can
\* both find it FALSE.
TestHandler(t) ==
  /\ At(t, "test")
  /\ Goes(t, IF handler = "none" THEN "flag" ELSE "mark")
  /\ UNCHANGED <<build, process, runtime, serves, open, thread, shim>>

FlagHandler(t) ==
  /\ At(t, "flag")
  /\ handler' = IF handler = "none" THEN "flagged" ELSE handler
  /\ Goes(t, "sig")
  /\ UNCHANGED <<build, process, rtReady, altstack, serves, open, thread, shim>>

InstallHandler(t) ==
  /\ At(t, "sig")
  /\ handler' = "installed"
  /\ Goes(t, "mark")
  /\ UNCHANGED <<build, process, rtReady, altstack, serves, open, thread, shim>>

\* wasm_rt_is_initialized(), which looks at the flag and at this thread.
IsInitialized(t) ==
  build = "guard" => t \in altstack /\ handler # "none"

MarkReady(t) ==
  /\ At(t, "mark")
  /\ process' = IF IsInitialized(t) THEN process ELSE "aborted"
  /\ rtReady' = TRUE
  /\ Goes(t, "inst")
  /\ UNCHANGED <<build, handler, altstack, serves, open, thread, shim>>

\* calloc, wasi_shim_init and the instance: the first guest call can follow.
Instantiate(t) ==
  /\ At(t, "inst")
  /\ open' = open \cup {serves[t]}
  /\ armed' = armed \ {serves[t]}
  /\ exitFrame' = [exitFrame EXCEPT ![serves[t]] = None]
  /\ Goes(t, "host")
  /\ UNCHANGED <<build, process, runtime, serves, thread>>

\* pgl_exec_wire_alloc, pgl_close and the rest: any later call of the bridge.
Enters(t, d) ==
  /\ At(t, "out") /\ Idle(d) /\ d \in open
  /\ serves' = [serves EXCEPT ![t] = d]
  /\ Goes(t, "host")
  /\ UNCHANGED <<build, process, runtime, open, thread, shim>>

\* The function returns and takes with it the frames both buffers were set in;
\* pgl_close, and a pgl_open that fails, leave no instance.
Leaves(t) ==
  /\ At(t, "host")
  /\ \E closes \in BOOLEAN :
       open' = IF closes THEN open \ {serves[t]} ELSE open
  /\ trapBuf' = [trapBuf EXCEPT ![t].frame = IF @ = "live" THEN Dead ELSE @]
  /\ exitFrame' = [exitFrame EXCEPT ![serves[t]] = IF @ = t THEN Dead ELSE @]
  /\ serves' = [serves EXCEPT ![t] = None]
  /\ Goes(t, "out")
  /\ UNCHANGED <<build, process, runtime, depth, saved, target, frames, gone,
                 goneNow, armed>>

--------------------------------------------------------------------------------
(***************************************************************************)
(* GUEST_CALL.                                                              *)
(***************************************************************************)

\* Mutant of Guard: the unwind target is left as the last call left it.
GuardKeepsTarget(t) ==
  /\ At(t, "host")
  /\ saved' = [saved EXCEPT ![t] = depth[t]]
  /\ trapBuf' = [trapBuf EXCEPT ![t] = [initialized |-> TRUE, frame |-> "live"]]
  /\ armed' = armed \cup {serves[t]}
  /\ exitFrame' = [exitFrame EXCEPT ![serves[t]] = t]
  /\ frames' = [frames EXCEPT ![t] = <<>>]
  /\ Goes(t, "guest")
  /\ UNCHANGED <<build, process, runtime, serves, open, depth, target,
                 gone, goneNow>>

\* wasm_rt_impl_try(), setjmp(exit_jmp) and the arming of proc_exit.
Guard(t) ==
  /\ At(t, "host")
  /\ saved' = [saved EXCEPT ![t] = depth[t]]
  /\ target' = [target EXCEPT ![t] = 0]
  /\ trapBuf' = [trapBuf EXCEPT ![t] = [initialized |-> TRUE, frame |-> "live"]]
  /\ armed' = armed \cup {serves[t]}
  /\ exitFrame' = [exitFrame EXCEPT ![serves[t]] = t]
  /\ frames' = [frames EXCEPT ![t] = <<>>]
  /\ Goes(t, "guest")
  /\ UNCHANGED <<build, process, runtime, serves, open, depth, gone,
                 goneNow>>

\* The guest's frames are gone and the function goes on behind GUEST_CALL.  An
\* unwind target among them is not reset.
Unwound(t) ==
  /\ frames' = [frames EXCEPT ![t] = <<>>]
  /\ target' = [target EXCEPT ![t] = IF @ > 0 THEN Dangling ELSE @]
  /\ Goes(t, "host")
  /\ UNCHANGED <<build, runtime, serves, open, saved>>

\* The call is over and n frames were taken away that depth still counts.
Uncounted(t, n) ==
  /\ gone' = IF build = "count" THEN [gone EXCEPT ![t] = @ + n] ELSE gone
  /\ goneNow' = [goneNow EXCEPT ![t] = 0]

Returns(t) ==
  /\ At(t, "guest") /\ frames[t] = <<>>
  /\ armed' = armed \ {serves[t]}
  /\ Uncounted(t, goneNow[t])
  /\ Unwound(t)
  /\ UNCHANGED <<process, depth, trapBuf, exitFrame>>

\* WASM_RT_LONGJMP(g_wasm_rt_jmp_buf, ...): what becomes of the process.
JumpTop(t) ==
  /\ process' = IF ~trapBuf[t].initialized THEN "aborted"
                ELSE IF trapBuf[t].frame # "live" THEN "lost" ELSE process
  /\ trapBuf' = [trapBuf EXCEPT ![t].initialized = FALSE]
  /\ Unwound(t)
  /\ UNCHANGED shim

\* Mutant of Trap: the call depth stays where the trap found it.
TrapKeepsDepth(t) ==
  /\ JumpTop(t)
  /\ Uncounted(t, 0)
  /\ UNCHANGED depth

\* wasm_rt_trap.
Trap(t) ==
  /\ JumpTop(t)
  /\ depth' = IF build = "count" THEN [depth EXCEPT ![t] = saved[t]] ELSE depth
  /\ Uncounted(t, 0)

\* The kernel ends the process: nobody handles the signal, or there is no stack
\* to handle it on.
Killed ==
  /\ process' = "killed"
  /\ UNCHANGED <<build, runtime, pc, serves, open, thread, shim>>

\* unreachable, a division by zero, a failed explicit check, an exception that
\* is too large to load: generated code calls wasm_rt_trap.
TrapInstruction(t) == At(t, "guest") /\ Trap(t)

\* An access to a guard page.
MemoryFault(t) ==
  /\ At(t, "guest") /\ build = "guard"
  /\ IF handler = "installed" THEN Trap(t) ELSE Killed

\* The stack is used up and its own guard page is touched: os_signal_handler
\* runs on the alternate stack or not at all.
StackFault(t) ==
  /\ At(t, "guest") /\ build = "guard" /\ Len(frames[t]) = MaxFrames
  /\ IF handler = "installed" /\ t \in altstack THEN Trap(t) ELSE Killed

\* proc_exit: depth is not restored.
ProcExit(t) ==
  /\ At(t, "guest")
  /\ process' = IF serves[t] \notin armed THEN "aborted"
                ELSE IF exitFrame[serves[t]] # t THEN "lost" ELSE process
  /\ armed' = armed \ {serves[t]}
  /\ Uncounted(t, goneNow[t] + Functions(frames[t]))
  /\ Unwound(t)
  /\ UNCHANGED <<depth, trapBuf, exitFrame>>

\* wasm_rt_throw with no catch frame left: the top buffer, without wasm_rt_trap.
ThrowUncaught(t) ==
  /\ At(t, "guest") /\ target[t] = 0
  /\ JumpTop(t)
  /\ Uncounted(t, goneNow[t] + Functions(frames[t]))
  /\ UNCHANGED depth

--------------------------------------------------------------------------------
(***************************************************************************)
(* Generated code: functions that call and return, and try blocks, each of  *)
(* which makes itself the unwind target and puts the outer one back.        *)
(***************************************************************************)
Tries(fs) == { i \in 1..Len(fs) : fs[i] = "try" }
Innermost(fs) ==
  IF Tries(fs) = {} THEN 0
  ELSE CHOOSE i \in Tries(fs) : \A j \in Tries(fs) : j <= i

Push(t, f) == frames' = [frames EXCEPT ![t] = Append(@, f)]

Call(t) ==
  /\ At(t, "guest") /\ Len(frames[t]) < MaxFrames
  /\ IF build = "count" /\ depth[t] + 1 > MaxDepth
     THEN Trap(t)
     ELSE /\ depth' = IF build = "count" THEN [depth EXCEPT ![t] = @ + 1]
                                         ELSE depth
          /\ Push(t, "fn")
          /\ UNCHANGED <<build, process, runtime, pc, serves, open, saved,
                         trapBuf, target, gone, goneNow, shim>>

Try(t) ==
  /\ At(t, "guest") /\ Len(frames[t]) < MaxFrames
  /\ Push(t, "try")
  /\ target' = [target EXCEPT ![t] = Len(frames[t]) + 1]
  /\ UNCHANGED <<build, process, runtime, pc, serves, open, depth, saved,
                 trapBuf, gone, goneNow, shim>>

\* Mutant of Pop: the end of a try block is counted like that of a function.
PopCountsTries(t) ==
  /\ At(t, "guest") /\ frames[t] # <<>>
  /\ LET rest == SubSeq(frames[t], 1, Len(frames[t]) - 1)
     IN /\ frames' = [frames EXCEPT ![t] = rest]
        /\ target' = [target EXCEPT ![t] = Innermost(rest)]
        /\ depth' = IF build = "count"
                    THEN [depth EXCEPT ![t] = @ - 1] ELSE depth
  /\ UNCHANGED <<build, process, runtime, pc, serves, open, saved, trapBuf,
                 gone, goneNow, shim>>

Pop(t) ==
  /\ At(t, "guest") /\ frames[t] # <<>>
  /\ LET rest == SubSeq(frames[t], 1, Len(frames[t]) - 1)
         fn   == frames[t][Len(frames[t])] = "fn"
     IN /\ frames' = [frames EXCEPT ![t] = rest]
        /\ target' = IF fn THEN target
                           ELSE [target EXCEPT ![t] = Innermost(rest)]
        /\ depth' = IF fn /\ build = "count"
                    THEN [depth EXCEPT ![t] = @ - 1] ELSE depth
  /\ UNCHANGED <<build, process, runtime, pc, serves, open, saved, trapBuf,
                 gone, goneNow, shim>>

\* wasm_rt_throw to a catch frame.  Whether the generated code puts the call
\* depth back when it catches is not in the sources: it may or may not.
ThrowCaught(t) ==
  /\ At(t, "guest") /\ target[t] # 0
  /\ LET k    == target[t]
         land == k \in Tries(frames[t])
         rest == IF land THEN SubSeq(frames[t], 1, k - 1) ELSE <<>>
         cut  == Functions(frames[t]) - Functions(rest)
     IN /\ process' = IF land THEN process ELSE "lost"
        /\ frames' = [frames EXCEPT ![t] = rest]
        /\ target' = [target EXCEPT ![t] = Innermost(rest)]
        /\ \E restores \in BOOLEAN :
             /\ depth' = IF restores /\ build = "count"
                         THEN [depth EXCEPT ![t] = @ - cut] ELSE depth
             /\ goneNow' = IF ~restores /\ build = "count"
                           THEN [goneNow EXCEPT ![t] = @ + cut] ELSE goneNow
  /\ UNCHANGED <<build, runtime, pc, serves, open, saved, trapBuf, gone, shim>>

Next ==
  \E t \in Threads :
    \/ \E d \in Dbs : Opens(t, d) \/ Enters(t, d)
    \/ CheckReady(t) \/ InitThread(t)
    \/ TestHandler(t) \/ FlagHandler(t) \/ InstallHandler(t)
    \/ MarkReady(t) \/ Instantiate(t) \/ Leaves(t)
    \/ Guard(t) \/ Returns(t)
    \/ TrapInstruction(t) \/ MemoryFault(t) \/ StackFault(t)
    \/ ProcExit(t) \/ ThrowUncaught(t) \/ ThrowCaught(t)
    \/ Call(t) \/ Try(t) \/ Pop(t)

Spec == Init /\ [][Next]_vars

--------------------------------------------------------------------------------
\* Whatever way a guest call ends, on whichever thread, after whatever ended the
\* calls before it, the jump lands in a function that is still there:
\* wasm_rt_trap and wasm_rt_throw find the thread's buffer set, a throw finds
\* its catch frame, proc_exit finds its database armed by this very thread; and
\* no assertion of wasm_rt_init fails.
JumpsLand == process \notin {"aborted", "lost"}

\* A device's call depth counts the guest's frames and those that proc_exit or
\* an exception took away without uncounting them, nothing else: a trap leaves
\* no trace, and calls that only return or trap never wear the limit down.
DepthCountsFrames ==
  build = "count" =>
    \A t \in Threads : depth[t] = gone[t] + goneNow[t] + Functions(frames[t])

\* Generated code runs with the signal handler in place.  rt_ready is read
\* without a lock, and the one exception is a second pgl_open that found the
\* handler flagged while the first is still about to install it.
HandlerWindow ==
  build = "guard" =>
    \A t \in Threads :
      pc[t] = "guest" =>
        handler = "installed" \/ \E u \in Threads \ {t} : pc[u] = "sig"

\* wasm-rt.h:554-557, wasm_rt_init_thread "Must be called by each thread (other
\* than the one that called wasm_rt_init) before initializing a Wasm module or
\* calling an exported function."
ThreadsAreInitialised ==
  build = "guard" =>
    \A t \in Threads : pc[t] \in {"inst", "guest"} => t \in altstack
===============================================================================
