---------------------------- MODULE GuestCallProofs ----------------------------
(***************************************************************************)
(* JumpsLand, DepthCountsFrames and HandlerWindow for any number of threads *)
(* and databases, any depth limit and any size of the stack.  They rest on  *)
(* what GUEST_CALL has set up while a thread is in the guest (InGuest), on  *)
(* a database being worked for by one thread at a time (OneThread), and on  *)
(* how far pgl_open has come when a thread passes it by (Started, Ready).   *)
(***************************************************************************)
EXTENDS GuestCall, BoundedInduction, FiniteSetTheorems, TLAPS

\* A thread outside the bridge works for no database, any other for one that no
\* other thread works for.
OneThread ==
  /\ \A t \in Threads : pc[t] # "out" => serves[t] \in Dbs
  /\ \A t, u \in Threads :
       pc[t] # "out" /\ pc[u] # "out" /\ serves[t] = serves[u] => t = u

\* There are frames only in the guest, and no more than the stack has room for.
FramesFit ==
  \A t \in Threads :
    /\ Len(frames[t]) <= MaxFrames
    /\ pc[t] # "guest" => frames[t] = <<>> /\ goneNow[t] = 0

\* In the guest, the buffers are those of the call and the unwind target is its
\* innermost try block.
InGuest ==
  \A t \in Threads :
    pc[t] = "guest" =>
      /\ trapBuf[t] = [initialized |-> TRUE, frame |-> "live"]
      /\ serves[t] \in armed
      /\ exitFrame[serves[t]] = t
      /\ target[t] = Innermost(frames[t])

\* The depth a trap goes back to is what earlier calls have left behind.
SavedIsGone ==
  build = "count" => \A t \in Threads : pc[t] = "guest" => saved[t] = gone[t]

\* A thread that has come to the instance, and every instance, found the runtime
\* ready; and whoever made it ready had flagged the handler.
Ready ==
  /\ \A t \in Threads : pc[t] \in {"inst", "host", "guest"} => rtReady
  /\ open # {} => rtReady
  /\ build = "guard" /\ rtReady => handler # "none"

\* Within wasm_rt_init: which threads have a stack and what they did before.
Started ==
  build = "guard" =>
    /\ \A t \in Threads :
         /\ t \in altstack => rtReady \/ pc[t] \in {"test", "flag", "sig", "mark"}
         /\ pc[t] = "thread" => t \notin altstack
         /\ pc[t] \in {"test", "flag", "sig", "mark"} => t \in altstack
         /\ pc[t] \in {"sig", "mark"} => handler # "none"
    /\ handler = "flagged" => \E u \in Threads : pc[u] = "sig"

Inv ==
  /\ TypeOK /\ OneThread /\ FramesFit /\ InGuest
  /\ SavedIsGone /\ Ready /\ Started
  /\ DepthCountsFrames /\ JumpsLand

--------------------------------------------------------------------------------
(***************************************************************************)
(* The frames of a call: its innermost try block and its functions.         *)
(***************************************************************************)
Kinds == {"fn", "try"}

\* Innermost is 0 without a try block, and else the place of the last one.
LEMMA InnermostIs ==
  ASSUME NEW fs \in Seq(Kinds)
  PROVE  /\ Innermost(fs) \in 0..Len(fs)
         /\ Tries(fs) = {} => Innermost(fs) = 0
         /\ Tries(fs) # {} => /\ Innermost(fs) \in Tries(fs)
                              /\ \A j \in Tries(fs) : j <= Innermost(fs)
<1>1. Tries(fs) \in SUBSET (1..Len(fs)) /\ Len(fs) \in Nat
  BY DEF Tries
<1>2. CASE Tries(fs) = {}
  BY <1>1, <1>2 DEF Innermost
<1>3. CASE Tries(fs) # {}
  <2>1. \E m \in Tries(fs) : \A i \in Tries(fs) : i <= m
    <3>1. Tries(fs) \in SUBSET (0..Len(fs))
      BY <1>1
    <3>2. QED BY <1>1, <1>3, <3>1, Greatest
  <2>2. /\ Innermost(fs) \in Tries(fs)
        /\ \A j \in Tries(fs) : j <= Innermost(fs)
    BY <1>3, <2>1 DEF Innermost
  <2>3. QED BY <1>1, <1>3, <2>2
<1>4. QED BY <1>2, <1>3

\* The greatest try block is the innermost one.
LEMMA InnermostUnique ==
  ASSUME NEW fs \in Seq(Kinds), NEW m \in Tries(fs),
         \A j \in Tries(fs) : j <= m
  PROVE  Innermost(fs) = m
<1>1. /\ Innermost(fs) \in Tries(fs)
      /\ \A j \in Tries(fs) : j <= Innermost(fs)
  BY InnermostIs
<1>2. Tries(fs) \subseteq Int
  BY DEF Tries
<1>3. QED BY <1>1, <1>2

\* Two stacks with the same try blocks have the same innermost one.
LEMMA InnermostOfTries ==
  ASSUME NEW fs \in Seq(Kinds), NEW gs \in Seq(Kinds), Tries(fs) = Tries(gs)
  PROVE  Innermost(fs) = Innermost(gs)
BY DEF Innermost

\* A function on top changes nothing, a try block is the innermost.
LEMMA InnermostPushed ==
  ASSUME NEW fs \in Seq(Kinds)
  PROVE  /\ Innermost(Append(fs, "fn")) = Innermost(fs)
         /\ Innermost(Append(fs, "try")) = Len(fs) + 1
<1>1. Append(fs, "fn") \in Seq(Kinds) /\ Append(fs, "try") \in Seq(Kinds)
  BY DEF Kinds
<1>2. Tries(Append(fs, "fn")) = Tries(fs)
  BY DEF Tries
<1>3. /\ Len(fs) + 1 \in Tries(Append(fs, "try"))
      /\ \A j \in Tries(Append(fs, "try")) : j <= Len(fs) + 1
  BY DEF Tries
<1>4. QED BY <1>1, <1>2, <1>3, InnermostOfTries, InnermostUnique

\* A function that returns changes nothing either.
LEMMA InnermostPopped ==
  ASSUME NEW fs \in Seq(Kinds), fs # <<>>, fs[Len(fs)] = "fn"
  PROVE  Innermost(SubSeq(fs, 1, Len(fs) - 1)) = Innermost(fs)
<1>1. SubSeq(fs, 1, Len(fs) - 1) \in Seq(Kinds)
  OBVIOUS
<1>2. Tries(SubSeq(fs, 1, Len(fs) - 1)) = Tries(fs)
  BY DEF Tries
<1>3. QED BY <1>1, <1>2, InnermostOfTries

\* The places of the functions.
Places(fs) == { i \in 1..Len(fs) : fs[i] = "fn" }

\* There are finitely many.
LEMMA PlacesFinite ==
  ASSUME NEW fs \in Seq(Kinds)
  PROVE  /\ IsFiniteSet(Places(fs))
         /\ Functions(fs) = Cardinality(Places(fs))
         /\ Functions(fs) \in Nat
<1>1. IsFiniteSet(1..Len(fs))
  BY FS_Interval
<1>2. Places(fs) \in SUBSET (1..Len(fs))
  BY DEF Places
<1>3. IsFiniteSet(Places(fs))
  BY <1>1, <1>2, FS_Subset
<1>4. QED BY <1>3, FS_CardinalityType DEF Places, Functions

\* A stack without frames has no functions.
LEMMA FunctionsEmpty == Functions(<<>>) = 0
<1>1. { i \in 1..Len(<<>>) : (<<>>)[i] = "fn" } = {}
  OBVIOUS
<1>2. QED BY <1>1, FS_EmptySet DEF Functions

\* A function that is called is one more, a try block is none.
LEMMA FunctionsPushed ==
  ASSUME NEW fs \in Seq(Kinds)
  PROVE  /\ Functions(Append(fs, "fn")) = Functions(fs) + 1
         /\ Functions(Append(fs, "try")) = Functions(fs)
<1>1. Append(fs, "fn") \in Seq(Kinds) /\ Append(fs, "try") \in Seq(Kinds)
  BY DEF Kinds
<1>2. Places(Append(fs, "fn")) = Places(fs) \cup {Len(fs) + 1}
  BY DEF Places
<1>3. Places(Append(fs, "try")) = Places(fs)
  BY DEF Places
<1>4. Len(fs) + 1 \notin Places(fs)
  BY DEF Places
<1>5. Cardinality(Places(fs) \cup {Len(fs) + 1}) = Cardinality(Places(fs)) + 1
  BY <1>4, PlacesFinite, FS_AddElement
<1>6. QED BY <1>1, <1>2, <1>3, <1>5, PlacesFinite

\* A function that returns is one less.
LEMMA FunctionsPopped ==
  ASSUME NEW fs \in Seq(Kinds), fs # <<>>
  PROVE  Functions(fs) = Functions(SubSeq(fs, 1, Len(fs) - 1))
                           + (IF fs[Len(fs)] = "fn" THEN 1 ELSE 0)
<1> DEFINE rest == SubSeq(fs, 1, Len(fs) - 1)
<1>1. rest \in Seq(Kinds) /\ fs = Append(rest, fs[Len(fs)])
  OBVIOUS
<1>2. fs[Len(fs)] \in Kinds
  OBVIOUS
<1> HIDE DEF rest
<1>3. Functions(rest) \in Nat
  BY <1>1, PlacesFinite
<1>4. CASE fs[Len(fs)] = "fn"
  <2>1. fs = Append(rest, "fn")
    BY <1>1, <1>4
  <2>2. Functions(fs) = Functions(rest) + 1
    BY <1>1, <2>1, FunctionsPushed
  <2>3. QED BY <1>4, <2>2 DEF rest
<1>5. CASE fs[Len(fs)] = "try"
  <2>1. fs = Append(rest, "try")
    BY <1>1, <1>5
  <2>2. Functions(fs) = Functions(rest)
    BY <1>1, <2>1, FunctionsPushed
  <2>3. QED BY <1>3, <1>5, <2>2 DEF rest
<1>6. QED BY <1>2, <1>4, <1>5 DEF Kinds

\* A part of the stack has no more functions than all of it.
LEMMA FunctionsPrefix ==
  ASSUME NEW fs \in Seq(Kinds), NEW k \in 1..Len(fs)
  PROVE  /\ SubSeq(fs, 1, k - 1) \in Seq(Kinds)
         /\ Len(SubSeq(fs, 1, k - 1)) = k - 1
         /\ Functions(SubSeq(fs, 1, k - 1)) <= Functions(fs)
<1>1. SubSeq(fs, 1, k - 1) \in Seq(Kinds) /\ Len(SubSeq(fs, 1, k - 1)) = k - 1
  OBVIOUS
<1>2. Places(SubSeq(fs, 1, k - 1)) \in SUBSET Places(fs)
  BY DEF Places
<1>3. Cardinality(Places(SubSeq(fs, 1, k - 1))) <= Cardinality(Places(fs))
  BY <1>2, PlacesFinite, FS_Subset
<1>4. QED BY <1>1, <1>3, PlacesFinite

--------------------------------------------------------------------------------
(***************************************************************************)
(* One lemma for every action: it preserves each part of the invariant.     *)
(***************************************************************************)

\* Nothing runs at first.
LEMMA InitInv == Init => Inv
<1> SUFFICES ASSUME Init PROVE Inv
  OBVIOUS
<1>1. TypeOK
  <2>1. target \in [Threads -> Dangling..MaxFrames]
    BY GuestCallAssumption DEF Init, Dangling
  <2>2. trapBuf \in [Threads -> [initialized : BOOLEAN, frame : {None, "live", Dead}]]
    BY DEF Init
  <2>3. frames \in [Threads -> Seq({"fn", "try"})]
    BY DEF Init
  <2>4. QED BY <2>1, <2>2, <2>3 DEF Init, TypeOK, Builds
<1>2. OneThread /\ FramesFit /\ InGuest /\ SavedIsGone
  BY GuestCallAssumption DEF Init, OneThread, FramesFit, InGuest, SavedIsGone
<1>3. Ready /\ Started /\ JumpsLand
  BY DEF Init, Ready, Started, JumpsLand
<1>4. DepthCountsFrames
  BY FunctionsEmpty DEF Init, DepthCountsFrames
<1>5. QED BY <1>1, <1>2, <1>3, <1>4 DEF Inv

\* pgl_open is called: the database is given to the thread.
LEMMA OpensInv ==
  ASSUME Inv, NEW t \in Threads, NEW d \in Dbs, Opens(t, d)
  PROVE  Inv'
<1>1. TypeOK'
  BY DEF Inv, TypeOK, OneThread, Builds, Opens, At, Goes, runtime, thread, shim
<1>2. OneThread'
  BY DEF Inv, TypeOK, OneThread, Idle, Opens, At, Goes, runtime, thread, shim
<1>3. FramesFit' /\ SavedIsGone' /\ DepthCountsFrames'
  BY DEF Inv, TypeOK, FramesFit, SavedIsGone, DepthCountsFrames, Opens, At,
         Goes, runtime, thread, shim
<1>4. InGuest'
  BY DEF Inv, TypeOK, OneThread, InGuest, Opens, At, Goes, runtime, thread,
         shim
<1>5. Ready'
  BY DEF Inv, TypeOK, Ready, Started, Opens, At, Goes, runtime, thread, shim
<1>6. Started'
  BY DEF Inv, TypeOK, Ready, Started, Opens, At, Goes, runtime, thread, shim
<1>7. JumpsLand'
  BY DEF Inv, TypeOK, Started, JumpsLand, Opens, At, Goes, runtime, thread,
         shim
<1>8. QED BY <1>1, <1>2, <1>3, <1>4, <1>5, <1>6, <1>7 DEF Inv

\* A thread finds rt_ready unset before it has been given a stack.
LEMMA CheckReadyInv ==
  ASSUME Inv, NEW t \in Threads, CheckReady(t)
  PROVE  Inv'
<1>1. TypeOK'
  BY DEF Inv, TypeOK, OneThread, Builds, CheckReady, At, Goes, runtime, thread,
         shim
<1>2. OneThread'
  BY DEF Inv, TypeOK, OneThread, CheckReady, At, Goes, runtime, thread, shim
<1>3. FramesFit' /\ SavedIsGone' /\ DepthCountsFrames'
  BY DEF Inv, TypeOK, FramesFit, SavedIsGone, DepthCountsFrames, CheckReady,
         At, Goes, runtime, thread, shim
<1>4. InGuest'
  BY DEF Inv, TypeOK, OneThread, InGuest, CheckReady, At, Goes, runtime,
         thread, shim
<1>5. Ready'
  BY DEF Inv, TypeOK, Ready, Started, CheckReady, At, Goes, runtime, thread,
         shim
<1>6. Started'
  BY DEF Inv, TypeOK, Ready, Started, CheckReady, At, Goes, runtime, thread,
         shim
<1>7. JumpsLand'
  BY DEF Inv, TypeOK, Started, JumpsLand, CheckReady, At, Goes, runtime,
         thread, shim
<1>8. QED BY <1>1, <1>2, <1>3, <1>4, <1>5, <1>6, <1>7 DEF Inv

\* No thread is given a second stack.
LEMMA InitThreadInv ==
  ASSUME Inv, NEW t \in Threads, InitThread(t)
  PROVE  Inv'
<1>1. TypeOK'
  BY DEF Inv, TypeOK, OneThread, Builds, InitThread, At, Goes, thread, shim
<1>2. OneThread'
  BY DEF Inv, TypeOK, OneThread, InitThread, At, Goes, thread, shim
<1>3. FramesFit' /\ SavedIsGone' /\ DepthCountsFrames'
  BY DEF Inv, TypeOK, FramesFit, SavedIsGone, DepthCountsFrames, InitThread,
         At, Goes, thread, shim
<1>4. InGuest'
  BY DEF Inv, TypeOK, OneThread, InGuest, InitThread, At, Goes, thread, shim
<1>5. Ready'
  BY DEF Inv, TypeOK, Ready, Started, InitThread, At, Goes, thread, shim
<1>6. Started'
  BY DEF Inv, TypeOK, Ready, Started, InitThread, At, Goes, thread, shim
<1>7. JumpsLand'
  BY DEF Inv, TypeOK, Started, JumpsLand, InitThread, At, Goes, thread, shim
<1>8. QED BY <1>1, <1>2, <1>3, <1>4, <1>5, <1>6, <1>7 DEF Inv

\* A thread goes on to the mark only if the flag is set.
LEMMA TestHandlerInv ==
  ASSUME Inv, NEW t \in Threads, TestHandler(t)
  PROVE  Inv'
<1>1. TypeOK'
  BY DEF Inv, TypeOK, OneThread, Builds, TestHandler, At, Goes, runtime, thread,
         shim
<1>2. OneThread'
  BY DEF Inv, TypeOK, OneThread, TestHandler, At, Goes, runtime, thread,
         shim
<1>3. FramesFit' /\ SavedIsGone' /\ DepthCountsFrames'
  BY DEF Inv, TypeOK, FramesFit, SavedIsGone, DepthCountsFrames, TestHandler,
         At, Goes, runtime, thread,
         shim
<1>4. InGuest'
  BY DEF Inv, TypeOK, OneThread, InGuest, TestHandler, At, Goes, runtime, thread,
         shim
<1>5. Ready'
  BY DEF Inv, TypeOK, Ready, Started, TestHandler, At, Goes, runtime, thread,
         shim
<1>6. Started'
  BY DEF Inv, TypeOK, Ready, Started, TestHandler, At, Goes, runtime, thread,
         shim
<1>7. JumpsLand'
  BY DEF Inv, TypeOK, Started, JumpsLand, TestHandler, At, Goes, runtime, thread,
         shim
<1>8. QED BY <1>1, <1>2, <1>3, <1>4, <1>5, <1>6, <1>7 DEF Inv

\* The thread that flags the handler goes on to install it.
LEMMA FlagHandlerInv ==
  ASSUME Inv, NEW t \in Threads, FlagHandler(t)
  PROVE  Inv'
<1>1. TypeOK'
  BY DEF Inv, TypeOK, OneThread, Builds, FlagHandler, At, Goes, thread, shim
<1>2. OneThread'
  BY DEF Inv, TypeOK, OneThread, FlagHandler, At, Goes, thread, shim
<1>3. FramesFit' /\ SavedIsGone' /\ DepthCountsFrames'
  BY DEF Inv, TypeOK, FramesFit, SavedIsGone, DepthCountsFrames, FlagHandler,
         At, Goes, thread, shim
<1>4. InGuest'
  BY DEF Inv, TypeOK, OneThread, InGuest, FlagHandler, At, Goes, thread, shim
<1>5. Ready'
  BY DEF Inv, TypeOK, Ready, Started, FlagHandler, At, Goes, thread, shim
<1>6. Started'
  BY DEF Inv, TypeOK, Ready, Started, FlagHandler, At, Goes, thread, shim
<1>7. JumpsLand'
  BY DEF Inv, TypeOK, Started, JumpsLand, FlagHandler, At, Goes, thread, shim
<1>8. QED BY <1>1, <1>2, <1>3, <1>4, <1>5, <1>6, <1>7 DEF Inv

\* Once it is installed nobody needs to be about to install it.
LEMMA InstallHandlerInv ==
  ASSUME Inv, NEW t \in Threads, InstallHandler(t)
  PROVE  Inv'
<1>1. TypeOK'
  BY DEF Inv, TypeOK, OneThread, Builds, InstallHandler, At, Goes, thread, shim
<1>2. OneThread'
  BY DEF Inv, TypeOK, OneThread, InstallHandler, At, Goes, thread, shim
<1>3. FramesFit' /\ SavedIsGone' /\ DepthCountsFrames'
  BY DEF Inv, TypeOK, FramesFit, SavedIsGone, DepthCountsFrames,
         InstallHandler, At, Goes, thread, shim
<1>4. InGuest'
  BY DEF Inv, TypeOK, OneThread, InGuest, InstallHandler, At, Goes, thread,
         shim
<1>5. Ready'
  BY DEF Inv, TypeOK, Ready, Started, InstallHandler, At, Goes, thread, shim
<1>6. Started'
  BY DEF Inv, TypeOK, Ready, Started, InstallHandler, At, Goes, thread, shim
<1>7. JumpsLand'
  BY DEF Inv, TypeOK, Started, JumpsLand, InstallHandler, At, Goes, thread,
         shim
<1>8. QED BY <1>1, <1>2, <1>3, <1>4, <1>5, <1>6, <1>7 DEF Inv

\* The flag and the stack wasm_rt_is_initialized asks for are there.
LEMMA MarkReadyInv ==
  ASSUME Inv, NEW t \in Threads, MarkReady(t)
  PROVE  Inv'
<1>1. TypeOK'
  BY DEF Inv, TypeOK, OneThread, Builds, MarkReady, At, Goes, thread, shim
<1>2. OneThread'
  BY DEF Inv, TypeOK, OneThread, MarkReady, At, Goes, thread, shim
<1>3. FramesFit' /\ SavedIsGone' /\ DepthCountsFrames'
  BY DEF Inv, TypeOK, FramesFit, SavedIsGone, DepthCountsFrames, MarkReady, At,
         Goes, thread, shim
<1>4. InGuest'
  BY DEF Inv, TypeOK, OneThread, InGuest, MarkReady, At, Goes, thread, shim
<1>5. Ready'
  BY DEF Inv, TypeOK, Ready, Started, MarkReady, At, Goes, thread, shim
<1>6. Started'
  BY DEF Inv, TypeOK, Ready, Started, MarkReady, At, Goes, thread, shim
<1>7. JumpsLand'
  BY DEF Inv, TypeOK, Started, JumpsLand, IsInitialized, MarkReady, At, Goes,
         thread, shim
<1>8. QED BY <1>1, <1>2, <1>3, <1>4, <1>5, <1>6, <1>7 DEF Inv

\* An instance is there only once the runtime is ready.
LEMMA InstantiateInv ==
  ASSUME Inv, NEW t \in Threads, Instantiate(t)
  PROVE  Inv'
<1>1. TypeOK'
  BY DEF Inv, TypeOK, OneThread, Builds, Instantiate, At, Goes, runtime, thread
<1>2. OneThread'
  BY DEF Inv, TypeOK, OneThread, Instantiate, At, Goes, runtime, thread
<1>3. FramesFit' /\ SavedIsGone' /\ DepthCountsFrames'
  BY DEF Inv, TypeOK, FramesFit, SavedIsGone, DepthCountsFrames, Instantiate,
         At, Goes, runtime, thread
<1>4. InGuest'
  BY DEF Inv, TypeOK, OneThread, InGuest, Instantiate, At, Goes, runtime,
         thread
<1>5. Ready'
  BY DEF Inv, TypeOK, Ready, Started, Instantiate, At, Goes, runtime, thread
<1>6. Started'
  BY DEF Inv, TypeOK, Ready, Started, Instantiate, At, Goes, runtime, thread
<1>7. JumpsLand'
  BY DEF Inv, TypeOK, Started, JumpsLand, Instantiate, At, Goes, runtime,
         thread
<1>8. QED BY <1>1, <1>2, <1>3, <1>4, <1>5, <1>6, <1>7 DEF Inv

\* A later call is given a database nobody works for.
LEMMA EntersInv ==
  ASSUME Inv, NEW t \in Threads, NEW d \in Dbs, Enters(t, d)
  PROVE  Inv'
<1>1. TypeOK'
  BY DEF Inv, TypeOK, OneThread, Builds, Enters, At, Goes, runtime, thread,
         shim
<1>2. OneThread'
  BY DEF Inv, TypeOK, OneThread, Idle, Enters, At, Goes, runtime, thread, shim
<1>3. FramesFit' /\ SavedIsGone' /\ DepthCountsFrames'
  BY DEF Inv, TypeOK, FramesFit, SavedIsGone, DepthCountsFrames, Enters, At,
         Goes, runtime, thread, shim
<1>4. InGuest'
  BY DEF Inv, TypeOK, OneThread, InGuest, Enters, At, Goes, runtime, thread,
         shim
<1>5. Ready'
  BY DEF Inv, TypeOK, Ready, Started, Enters, At, Goes, runtime, thread, shim
<1>6. Started'
  BY DEF Inv, TypeOK, Ready, Started, Enters, At, Goes, runtime, thread, shim
<1>7. JumpsLand'
  BY DEF Inv, TypeOK, Started, JumpsLand, Enters, At, Goes, runtime, thread,
         shim
<1>8. QED BY <1>1, <1>2, <1>3, <1>4, <1>5, <1>6, <1>7 DEF Inv

\* The buffers of the call are dead, and no other call's.
LEMMA LeavesInv ==
  ASSUME Inv, NEW t \in Threads, Leaves(t)
  PROVE  Inv'
<1>1. TypeOK'
  BY DEF Inv, TypeOK, OneThread, Builds, Leaves, At, Goes, runtime, thread
<1>2. OneThread'
  BY DEF Inv, TypeOK, OneThread, Leaves, At, Goes, runtime, thread
<1>3. FramesFit' /\ SavedIsGone' /\ DepthCountsFrames'
  BY DEF Inv, TypeOK, FramesFit, SavedIsGone, DepthCountsFrames, Leaves, At,
         Goes, runtime, thread
<1>4. InGuest'
  BY DEF Inv, TypeOK, OneThread, InGuest, Leaves, At, Goes, runtime, thread
<1>5. Ready'
  BY DEF Inv, TypeOK, Ready, Started, Leaves, At, Goes, runtime, thread
<1>6. Started'
  BY DEF Inv, TypeOK, Ready, Started, Leaves, At, Goes, runtime, thread
<1>7. JumpsLand'
  BY DEF Inv, TypeOK, Started, JumpsLand, Leaves, At, Goes, runtime, thread
<1>8. QED BY <1>1, <1>2, <1>3, <1>4, <1>5, <1>6, <1>7 DEF Inv

--------------------------------------------------------------------------------
(***************************************************************************)
(* The guest.                                                               *)
(***************************************************************************)

\* GUEST_CALL sets up everything a way out of the call will need.
LEMMA GuardInv ==
  ASSUME Inv, NEW t \in Threads, Guard(t)
  PROVE  Inv'
<1>1. TypeOK'
  BY GuestCallAssumption
     DEF Inv, TypeOK, OneThread, Guard, At, Goes, runtime, Dangling
<1>2. OneThread'
  BY DEF Inv, TypeOK, OneThread, Guard, At, Goes
<1>3. FramesFit' /\ SavedIsGone' /\ DepthCountsFrames'
  <2>1. FramesFit'
    BY GuestCallAssumption DEF Inv, TypeOK, FramesFit, Guard, At, Goes
  <2>2. SavedIsGone'
    BY FunctionsEmpty
       DEF Inv, TypeOK, FramesFit, SavedIsGone, DepthCountsFrames, Guard, At,
           Goes
  <2>3. DepthCountsFrames'
    BY DEF Inv, TypeOK, FramesFit, DepthCountsFrames, Guard, At, Goes
  <2>4. QED BY <2>1, <2>2, <2>3
<1>4. InGuest'
  <2>1. Innermost(<<>>) = 0
    BY DEF Innermost, Tries
  <2>2. QED BY <2>1 DEF Inv, TypeOK, OneThread, InGuest, Guard, At, Goes
<1>5. Ready' /\ Started' /\ JumpsLand'
  BY DEF Inv, TypeOK, Ready, Started, JumpsLand, Guard, At, Goes, runtime
<1>6. QED BY <1>1, <1>2, <1>3, <1>4, <1>5 DEF Inv

\* A call that ends, however, leaves the rest as it was: what is left to show
\* of it is what it does to the depth, the flags and the process.
LEMMA UnwoundInv ==
  ASSUME Inv, NEW t \in Threads, At(t, "guest"), Unwound(t), TypeOK',
         process' = process, armed' \in {armed, armed \ {serves[t]}},
         exitFrame' = exitFrame,
         \A u \in Threads \ {t} :
           trapBuf'[u] = trapBuf[u] /\ gone'[u] = gone[u] /\ goneNow'[u] = goneNow[u],
         goneNow'[t] = 0,
         DepthCountsFrames'
  PROVE  Inv'
<1> USE DEF At, Goes, Unwound
<1>1. OneThread'
  <2>1. \A u \in Threads : pc'[u] # "out" <=> pc[u] # "out"
    BY DEF Inv, TypeOK
  <2>2. serves' = serves
    OBVIOUS
  <2>3. QED BY <2>1, <2>2 DEF Inv, OneThread
<1>2. FramesFit' /\ SavedIsGone'
  <2>1. FramesFit'
    <3> SUFFICES ASSUME NEW u \in Threads
                 PROVE  /\ Len(frames'[u]) <= MaxFrames
                        /\ pc'[u] # "guest" => frames'[u] = <<>> /\ goneNow'[u] = 0
      BY DEF FramesFit
    <3>1. CASE u = t
      BY <3>1, GuestCallAssumption DEF Inv, TypeOK
    <3>2. CASE u # t
      <4>1. frames'[u] = frames[u] /\ pc'[u] = pc[u] /\ goneNow'[u] = goneNow[u]
        BY <3>2 DEF Inv, TypeOK
      <4>2. QED BY <4>1 DEF Inv, FramesFit
    <3>3. QED BY <3>1, <3>2
  <2>2. SavedIsGone'
    BY DEF Inv, TypeOK, SavedIsGone
  <2>3. QED BY <2>1, <2>2
<1>3. InGuest'
  BY DEF Inv, TypeOK, OneThread, InGuest, Unwound, At, Goes
<1>4. Ready' /\ Started' /\ JumpsLand'
  BY DEF Inv, TypeOK, Ready, Started, JumpsLand, Unwound, At, Goes, runtime
<1>5. QED BY <1>1, <1>2, <1>3, <1>4 DEF Inv

\* The depth and the frames of a thread are numbers that agree.
LEMMA Depths ==
  ASSUME Inv, NEW t \in Threads
  PROVE  /\ frames[t] \in Seq(Kinds)
         /\ Functions(frames[t]) \in Nat
         /\ depth[t] \in Nat /\ gone[t] \in Nat /\ goneNow[t] \in Nat
         /\ saved[t] \in Nat
         /\ build = "count" => depth[t] = gone[t] + goneNow[t] + Functions(frames[t])
<1>1. frames[t] \in Seq(Kinds)
  BY DEF Inv, TypeOK, Kinds
<1>2. QED BY <1>1, PlacesFinite DEF Inv, TypeOK, DepthCountsFrames

\* A call that returns has no frames left.
LEMMA ReturnsInv ==
  ASSUME Inv, NEW t \in Threads, Returns(t)
  PROVE  Inv'
<1>1. TypeOK'
  BY GuestCallAssumption
     DEF Inv, TypeOK, Returns, Uncounted, Unwound, At, Goes, runtime, Dangling
<1>2. DepthCountsFrames'
  <2> SUFFICES ASSUME build = "count", NEW u \in Threads
               PROVE  depth'[u] = gone'[u] + goneNow'[u] + Functions(frames'[u])
    BY DEF DepthCountsFrames, Returns, Uncounted, Unwound
  <2>1. CASE u = t
    BY <2>1, Depths, FunctionsEmpty
       DEF Inv, TypeOK, Returns, Uncounted, Unwound, At, Goes
  <2>2. CASE u # t
    <3>1. /\ depth'[u] = depth[u] /\ gone'[u] = gone[u]
          /\ goneNow'[u] = goneNow[u] /\ frames'[u] = frames[u]
      BY <2>2 DEF Inv, TypeOK, Returns, Uncounted, Unwound, At, Goes
    <3>2. QED BY <3>1, Depths
  <2>3. QED BY <2>1, <2>2
<1>3. QED BY <1>1, <1>2, UnwoundInv DEF Inv, TypeOK, Returns, Uncounted

\* A trap finds its buffer and puts the depth back to where the call began.
LEMMA TrapInv ==
  ASSUME Inv, NEW t \in Threads, At(t, "guest"), Trap(t)
  PROVE  Inv'
<1>1. TypeOK'
  <2>1. gone' \in [Threads -> Nat] /\ goneNow' \in [Threads -> Nat]
    BY Depths DEF Inv, TypeOK, Trap, JumpTop, Uncounted
  <2>2. target' \in [Threads -> Dangling..MaxFrames]
    BY GuestCallAssumption
       DEF Inv, TypeOK, Unwound, Trap, JumpTop, Uncounted, Dangling
  <2>3. frames' \in [Threads -> Seq({"fn", "try"})]
    BY DEF Inv, TypeOK, Unwound, Trap, JumpTop, Uncounted
  <2>4. trapBuf' \in [Threads -> [initialized : BOOLEAN,
                                  frame : {None, "live", Dead}]]
    BY DEF Inv, TypeOK, Trap, JumpTop, Uncounted
  <2>5. depth' \in [Threads -> Nat] /\ saved' \in [Threads -> Nat]
    BY DEF Inv, TypeOK, Unwound, Trap, JumpTop, Uncounted
  <2>6. QED
    BY <2>1, <2>2, <2>3, <2>4, <2>5
       DEF Inv, TypeOK, Unwound, Trap, JumpTop, Uncounted, At, Goes, runtime,
           shim
<1>2. process' = process
  BY DEF Inv, InGuest, Trap, JumpTop, At
<1>3. DepthCountsFrames'
  <2> SUFFICES ASSUME build = "count", NEW u \in Threads
               PROVE  depth'[u] = gone'[u] + goneNow'[u] + Functions(frames'[u])
    BY DEF DepthCountsFrames, Trap, JumpTop, Uncounted, Unwound
  <2>1. CASE u = t
    BY <2>1, Depths, FunctionsEmpty
       DEF Inv, TypeOK, SavedIsGone, Trap, JumpTop, Uncounted, Unwound, At,
           Goes
  <2>2. CASE u # t
    <3>1. /\ depth'[u] = depth[u] /\ gone'[u] = gone[u]
          /\ goneNow'[u] = goneNow[u] /\ frames'[u] = frames[u]
      BY <2>2 DEF Inv, TypeOK, Trap, JumpTop, Uncounted, Unwound, At, Goes
    <3>2. QED BY <3>1, Depths
  <2>3. QED BY <2>1, <2>2
<1>4. QED BY <1>1, <1>2, <1>3, UnwoundInv
             DEF Inv, TypeOK, Trap, JumpTop, Uncounted, shim

\* proc_exit finds its database armed by the thread itself.
LEMMA ProcExitInv ==
  ASSUME Inv, NEW t \in Threads, ProcExit(t)
  PROVE  Inv'
<1>1. TypeOK'
  <2>1. gone' \in [Threads -> Nat] /\ goneNow' \in [Threads -> Nat]
    <3>1. gone \in [Threads -> Nat] /\ goneNow \in [Threads -> Nat]
      BY DEF Inv, TypeOK
    <3>2. goneNow[t] + Functions(frames[t]) \in Nat
      BY <3>1, Depths
    <3>3. QED BY <3>1, <3>2 DEF ProcExit, Uncounted
  <2>2. target' \in [Threads -> Dangling..MaxFrames]
    BY GuestCallAssumption
       DEF Inv, TypeOK, Unwound, ProcExit, Uncounted, Dangling
  <2>3. frames' \in [Threads -> Seq({"fn", "try"})]
    BY DEF Inv, TypeOK, Unwound, ProcExit, Uncounted
  <2>4. QED
    BY <2>1, <2>2, <2>3
       DEF Inv, TypeOK, Unwound, ProcExit, Uncounted, At, Goes, runtime
<1>2. process' = process
  BY DEF Inv, InGuest, ProcExit, At
<1>3. DepthCountsFrames'
  <2> SUFFICES ASSUME build = "count", NEW u \in Threads
               PROVE  depth'[u] = gone'[u] + goneNow'[u] + Functions(frames'[u])
    BY DEF DepthCountsFrames, ProcExit, Uncounted, Unwound
  <2>1. CASE u = t
    BY <2>1, Depths, FunctionsEmpty
       DEF Inv, TypeOK, ProcExit, Uncounted, Unwound, At, Goes
  <2>2. CASE u # t
    <3>1. /\ depth'[u] = depth[u] /\ gone'[u] = gone[u]
          /\ goneNow'[u] = goneNow[u] /\ frames'[u] = frames[u]
      BY <2>2 DEF Inv, TypeOK, ProcExit, Uncounted, Unwound, At, Goes
    <3>2. QED BY <3>1, Depths
  <2>3. QED BY <2>1, <2>2
<1>4. QED BY <1>1, <1>2, <1>3, UnwoundInv DEF Inv, TypeOK, ProcExit, Uncounted

\* An exception nobody catches finds the buffer of the call.
LEMMA ThrowUncaughtInv ==
  ASSUME Inv, NEW t \in Threads, ThrowUncaught(t)
  PROVE  Inv'
<1>1. TypeOK'
  <2>1. gone' \in [Threads -> Nat] /\ goneNow' \in [Threads -> Nat]
    BY Depths DEF Inv, TypeOK, ThrowUncaught, JumpTop, Uncounted
  <2>2. target' \in [Threads -> Dangling..MaxFrames]
    BY GuestCallAssumption
       DEF Inv, TypeOK, Unwound, ThrowUncaught, JumpTop, Uncounted, Dangling
  <2>3. frames' \in [Threads -> Seq({"fn", "try"})]
    BY DEF Inv, TypeOK, Unwound, ThrowUncaught, JumpTop, Uncounted
  <2>4. trapBuf' \in [Threads -> [initialized : BOOLEAN,
                                  frame : {None, "live", Dead}]]
    BY DEF Inv, TypeOK, ThrowUncaught, JumpTop, Uncounted
  <2>5. depth' \in [Threads -> Nat] /\ saved' \in [Threads -> Nat]
    BY DEF Inv, TypeOK, Unwound, ThrowUncaught, JumpTop, Uncounted
  <2>6. QED
    BY <2>1, <2>2, <2>3, <2>4, <2>5
       DEF Inv, TypeOK, Unwound, ThrowUncaught, JumpTop, Uncounted, At, Goes,
           runtime, shim
<1>2. process' = process
  BY DEF Inv, InGuest, ThrowUncaught, JumpTop, At
<1>3. DepthCountsFrames'
  <2> SUFFICES ASSUME build = "count", NEW u \in Threads
               PROVE  depth'[u] = gone'[u] + goneNow'[u] + Functions(frames'[u])
    BY DEF DepthCountsFrames, ThrowUncaught, JumpTop, Uncounted, Unwound
  <2>1. CASE u = t
    BY <2>1, Depths, FunctionsEmpty
       DEF Inv, TypeOK, ThrowUncaught, JumpTop, Uncounted, Unwound, At, Goes
  <2>2. CASE u # t
    <3>1. /\ depth'[u] = depth[u] /\ gone'[u] = gone[u]
          /\ goneNow'[u] = goneNow[u] /\ frames'[u] = frames[u]
      BY <2>2
         DEF Inv, TypeOK, ThrowUncaught, JumpTop, Uncounted, Unwound, At, Goes
    <3>2. QED BY <3>1, Depths
  <2>3. QED BY <2>1, <2>2
<1>4. QED BY <1>1, <1>2, <1>3, UnwoundInv
             DEF Inv, TypeOK, ThrowUncaught, JumpTop, Uncounted, shim

\* A process a signal has ended is neither aborted nor lost.
LEMMA KilledInv ==
  ASSUME Inv, Killed
  PROVE  Inv'
BY DEF Inv, TypeOK, OneThread, FramesFit, InGuest, SavedIsGone, Ready, Started,
       DepthCountsFrames, JumpsLand, Killed, runtime, thread, shim

--------------------------------------------------------------------------------
(***************************************************************************)
(* Generated code.                                                          *)
(***************************************************************************)

\* A step that stays in the guest and moves one thread's frames only: what is
\* left to show of it is that the new frames fit, with the target and the depth
\* that belong to them.
LEMMA FramesInv ==
  ASSUME Inv, NEW t \in Threads, At(t, "guest"), TypeOK',
         UNCHANGED <<build, process, runtime, pc, serves, open, saved, trapBuf,
                     gone, shim>>,
         \A u \in Threads \ {t} :
           /\ depth'[u] = depth[u] /\ frames'[u] = frames[u]
           /\ target'[u] = target[u] /\ goneNow'[u] = goneNow[u],
         Len(frames'[t]) <= MaxFrames,
         target'[t] = Innermost(frames'[t]),
         build = "count" =>
           depth'[t] = gone[t] + goneNow'[t] + Functions(frames'[t])
  PROVE  Inv'
<1> USE DEF At, runtime, shim
<1>1. OneThread' /\ SavedIsGone' /\ Ready' /\ Started' /\ JumpsLand'
  BY DEF Inv, OneThread, SavedIsGone, Ready, Started, JumpsLand
<1>2. FramesFit' /\ InGuest'
  BY DEF Inv, FramesFit, InGuest
<1>3. DepthCountsFrames'
  BY DEF Inv, DepthCountsFrames
<1>4. QED BY <1>1, <1>2, <1>3 DEF Inv

\* A function that is called is counted, and over the limit it is a trap.
LEMMA CallInv ==
  ASSUME Inv, NEW t \in Threads, Call(t)
  PROVE  Inv'
<1> USE DEF At
<1>1. CASE build = "count" /\ depth[t] + 1 > MaxDepth
  BY <1>1, TrapInv DEF Call
<1>2. CASE ~ (build = "count" /\ depth[t] + 1 > MaxDepth)
  <2>1. /\ depth' = IF build = "count" THEN [depth EXCEPT ![t] = @ + 1] ELSE depth
        /\ frames' = [frames EXCEPT ![t] = Append(@, "fn")]
        /\ UNCHANGED <<build, process, runtime, pc, serves, open, saved, trapBuf,
                       target, gone, goneNow, shim>>
    BY <1>2 DEF Call, Push
  <2>2. TypeOK'
    <3>1. depth' \in [Threads -> Nat]
      BY <2>1 DEF Inv, TypeOK
    <3>2. frames' \in [Threads -> Seq({"fn", "try"})]
      BY <2>1 DEF Inv, TypeOK
    <3>3. QED BY <2>1, <3>1, <3>2 DEF Inv, TypeOK, runtime, shim
  <2>3. Len(frames'[t]) <= MaxFrames
    BY <2>1, GuestCallAssumption DEF Inv, TypeOK, Call
  <2>4. frames'[t] = Append(frames[t], "fn")
    BY <2>1 DEF Inv, TypeOK
  <2>5. target'[t] = Innermost(frames'[t])
    BY <2>1, <2>4, Depths, InnermostPushed DEF Inv, InGuest, Call
  <2>6. build = "count" =>
          depth'[t] = gone[t] + goneNow'[t] + Functions(frames'[t])
    BY <2>1, <2>4, Depths, FunctionsPushed DEF Inv, TypeOK
  <2>7. \A u \in Threads \ {t} :
          /\ depth'[u] = depth[u] /\ frames'[u] = frames[u]
          /\ target'[u] = target[u] /\ goneNow'[u] = goneNow[u]
    BY <2>1 DEF Inv, TypeOK
  <2>8. QED
    BY <2>1, <2>2, <2>3, <2>5, <2>6, <2>7, FramesInv DEF Call
<1>3. QED BY <1>1, <1>2

\* A try block becomes the unwind target and counts for nothing.
LEMMA TryInv ==
  ASSUME Inv, NEW t \in Threads, Try(t)
  PROVE  Inv'
<1> USE DEF At
<1>1. frames'[t] = Append(frames[t], "try") /\ target'[t] = Len(frames[t]) + 1
  BY DEF Inv, TypeOK, Try, Push
<1>2. TypeOK'
  <2>1. target' \in [Threads -> Dangling..MaxFrames]
    BY GuestCallAssumption DEF Inv, TypeOK, Try, Dangling
  <2>2. QED BY <2>1 DEF Inv, TypeOK, Try, Push, runtime, shim
<1>3. Len(frames'[t]) <= MaxFrames
  BY <1>1, GuestCallAssumption DEF Inv, TypeOK, Try
<1>4. target'[t] = Innermost(frames'[t])
  BY <1>1, Depths, InnermostPushed
<1>5. build = "count" =>
        depth'[t] = gone[t] + goneNow'[t] + Functions(frames'[t])
  BY <1>1, Depths, FunctionsPushed DEF Try
<1>6. \A u \in Threads \ {t} :
        /\ depth'[u] = depth[u] /\ frames'[u] = frames[u]
        /\ target'[u] = target[u] /\ goneNow'[u] = goneNow[u]
  BY DEF Inv, TypeOK, Try, Push
<1>7. QED BY <1>2, <1>3, <1>4, <1>5, <1>6, FramesInv DEF Try

\* A function that returns is uncounted, a try block puts the outer one back.
LEMMA PopInv ==
  ASSUME Inv, NEW t \in Threads, Pop(t)
  PROVE  Inv'
<1> DEFINE fs == frames[t]
           rest == SubSeq(fs, 1, Len(fs) - 1)
           fn == fs[Len(fs)] = "fn"
<1> USE DEF At
<1>1. /\ frames' = [frames EXCEPT ![t] = rest]
      /\ target' = IF fn THEN target ELSE [target EXCEPT ![t] = Innermost(rest)]
      /\ depth' = IF fn /\ build = "count" THEN [depth EXCEPT ![t] = @ - 1]
                                           ELSE depth
      /\ UNCHANGED <<build, process, runtime, pc, serves, open, saved, trapBuf,
                     gone, goneNow, shim>>
      /\ fs # <<>>
  BY DEF Pop
<1>2. fs \in Seq(Kinds) /\ Len(fs) <= MaxFrames /\ Len(fs) \in Nat
  BY Depths DEF Inv, FramesFit
<1>3. rest \in Seq(Kinds) /\ Len(rest) <= MaxFrames
  BY <1>1, <1>2, GuestCallAssumption
<1>4. Functions(fs) = Functions(rest) + (IF fn THEN 1 ELSE 0)
  BY <1>1, <1>2, FunctionsPopped
<1>5. Functions(rest) \in Nat
  BY <1>3, PlacesFinite
<1>6. Innermost(rest) \in 0..MaxFrames
  <2> HIDE DEF rest
  <2>1. Innermost(rest) \in 0..Len(rest) /\ Len(rest) \in Nat
    BY <1>3, InnermostIs
  <2>2. QED BY <1>3, <2>1, GuestCallAssumption
<1>7. fn => Innermost(rest) = Innermost(fs)
  BY <1>1, <1>2, InnermostPopped
<1> HIDE DEF rest, fn
<1>8. TypeOK'
  <2>1. depth' \in [Threads -> Nat]
    <3>1. fn /\ build = "count" => depth[t] - 1 \in Nat
      BY <1>4, <1>5, Depths
    <3>2. QED BY <1>1, <3>1 DEF Inv, TypeOK
  <2>2. target' \in [Threads -> Dangling..MaxFrames]
    BY <1>1, <1>6, GuestCallAssumption DEF Inv, TypeOK, Dangling
  <2>3. frames' \in [Threads -> Seq({"fn", "try"})]
    BY <1>1, <1>3 DEF Inv, TypeOK, Kinds
  <2>4. QED BY <1>1, <2>1, <2>2, <2>3 DEF Inv, TypeOK, runtime, shim
<1>9. frames'[t] = rest
  BY <1>1 DEF Inv, TypeOK
<1>10. target'[t] = Innermost(frames'[t])
  BY <1>1, <1>7, <1>9 DEF Inv, TypeOK, InGuest, Pop
<1>11. build = "count" =>
         depth'[t] = gone[t] + goneNow'[t] + Functions(frames'[t])
  <2> SUFFICES ASSUME build = "count"
               PROVE  depth'[t] = gone[t] + goneNow'[t] + Functions(frames'[t])
    OBVIOUS
  <2>1. /\ depth[t] = gone[t] + goneNow[t] + Functions(fs)
        /\ depth[t] \in Nat /\ gone[t] \in Nat /\ goneNow[t] \in Nat
    BY Depths DEF Inv, TypeOK
  <2>2. goneNow'[t] = goneNow[t] /\ Functions(frames'[t]) = Functions(rest)
    BY <1>1, <1>9
  <2> HIDE DEF fs
  <2>3. CASE fn
    <3>1. depth'[t] = depth[t] - 1
      BY <1>1, <2>3 DEF Inv, TypeOK
    <3>2. Functions(fs) = Functions(rest) + 1
      BY <1>4, <2>3
    <3>3. QED BY <1>5, <2>1, <2>2, <3>1, <3>2
  <2>4. CASE ~fn
    <3>1. depth'[t] = depth[t] /\ Functions(fs) = Functions(rest)
      BY <1>1, <1>4, <1>5, <2>4
    <3>2. QED BY <2>1, <2>2, <3>1
  <2>5. QED BY <2>3, <2>4
<1>12. \A u \in Threads \ {t} :
         /\ depth'[u] = depth[u] /\ frames'[u] = frames[u]
         /\ target'[u] = target[u] /\ goneNow'[u] = goneNow[u]
  BY <1>1 DEF Inv, TypeOK
<1>13. QED
  BY <1>1, <1>3, <1>8, <1>9, <1>10, <1>11, <1>12, FramesInv DEF Pop

\* An exception lands in the innermost catch frame, and what it takes away is
\* uncounted or remembered.
LEMMA ThrowCaughtInv ==
  ASSUME Inv, NEW t \in Threads, ThrowCaught(t)
  PROVE  Inv'
<1> DEFINE fs == frames[t]
           k == target[t]
           rest == SubSeq(fs, 1, k - 1)
           cut == Functions(fs) - Functions(rest)
<1> USE DEF At
<1>1. fs \in Seq(Kinds) /\ Len(fs) <= MaxFrames /\ Len(fs) \in Nat
  BY Depths DEF Inv, FramesFit
<1>2. k \in Tries(fs)
  <2>1. k = Innermost(fs) /\ k # 0
    BY DEF Inv, InGuest, ThrowCaught
  <2>2. QED BY <1>1, <2>1, InnermostIs
<1>3. k \in 1..Len(fs)
  BY <1>2 DEF Tries
<1>4. /\ rest \in Seq(Kinds) /\ Len(rest) <= MaxFrames
      /\ Functions(rest) <= Functions(fs)
  BY <1>1, <1>3, FunctionsPrefix, GuestCallAssumption
<1>5. Functions(rest) \in Nat /\ Functions(fs) \in Nat /\ cut \in Nat
  <2> HIDE DEF rest
  <2>1. Functions(rest) \in Nat /\ Functions(fs) \in Nat
    BY <1>1, <1>4, PlacesFinite
  <2>2. QED BY <1>4, <2>1
<1>6. PICK restores \in BOOLEAN :
        /\ depth' = IF restores /\ build = "count"
                    THEN [depth EXCEPT ![t] = @ - cut] ELSE depth
        /\ goneNow' = IF ~restores /\ build = "count"
                      THEN [goneNow EXCEPT ![t] = @ + cut] ELSE goneNow
  BY <1>2 DEF ThrowCaught
<1>7. /\ process' = process
      /\ frames' = [frames EXCEPT ![t] = rest]
      /\ target' = [target EXCEPT ![t] = Innermost(rest)]
      /\ UNCHANGED <<build, runtime, pc, serves, open, saved, trapBuf, gone, shim>>
  BY <1>2 DEF ThrowCaught
<1>8. Innermost(rest) \in 0..MaxFrames
  <2> HIDE DEF rest
  <2>1. Innermost(rest) \in 0..Len(rest) /\ Len(rest) \in Nat
    BY <1>4, InnermostIs
  <2>2. QED BY <1>4, <2>1, GuestCallAssumption
<1> HIDE DEF rest, k, cut
<1>9. TypeOK'
  <2>1. depth' \in [Threads -> Nat] /\ goneNow' \in [Threads -> Nat]
    <3>1. build = "count" => depth[t] - cut \in Nat
      BY <1>5, Depths DEF cut
    <3>2. QED BY <1>5, <1>6, <3>1 DEF Inv, TypeOK
  <2>2. target' \in [Threads -> Dangling..MaxFrames]
    BY <1>7, <1>8, GuestCallAssumption DEF Inv, TypeOK, Dangling
  <2>3. frames' \in [Threads -> Seq({"fn", "try"})]
    BY <1>4, <1>7 DEF Inv, TypeOK, Kinds
  <2>4. QED BY <1>7, <2>1, <2>2, <2>3 DEF Inv, TypeOK, runtime, shim
<1>10. frames'[t] = rest /\ target'[t] = Innermost(rest)
  BY <1>7 DEF Inv, TypeOK
<1>11. build = "count" =>
         depth'[t] = gone[t] + goneNow'[t] + Functions(rest)
  <2>1. /\ restores /\ build = "count" =>
             depth'[t] = depth[t] - cut /\ goneNow'[t] = goneNow[t]
        /\ ~restores /\ build = "count" =>
             depth'[t] = depth[t] /\ goneNow'[t] = goneNow[t] + cut
    BY <1>6 DEF Inv, TypeOK
  <2>2. QED BY <1>5, <2>1, Depths DEF cut
<1>12. \A u \in Threads \ {t} :
         /\ depth'[u] = depth[u] /\ frames'[u] = frames[u]
         /\ target'[u] = target[u] /\ goneNow'[u] = goneNow[u]
  BY <1>6, <1>7 DEF Inv, TypeOK
<1>13. QED
  BY <1>4, <1>7, <1>9, <1>10, <1>11, <1>12, FramesInv DEF ThrowCaught

--------------------------------------------------------------------------------
\* A step of the calls preserves the invariant.
LEMMA NextInv ==
  ASSUME Inv, [Next]_vars
  PROVE  Inv'
<1>1. ASSUME NEW t \in Threads, NEW d \in Dbs, Opens(t, d) \/ Enters(t, d)
      PROVE  Inv'
  BY <1>1, OpensInv, EntersInv
<1>2. ASSUME NEW t \in Threads,
             \/ CheckReady(t) \/ InitThread(t) \/ TestHandler(t) \/ FlagHandler(t)
             \/ InstallHandler(t) \/ MarkReady(t) \/ Instantiate(t) \/ Leaves(t)
      PROVE  Inv'
  BY <1>2, CheckReadyInv, InitThreadInv, TestHandlerInv, FlagHandlerInv,
     InstallHandlerInv, MarkReadyInv, InstantiateInv, LeavesInv
<1>3. ASSUME NEW t \in Threads,
             TrapInstruction(t) \/ MemoryFault(t) \/ StackFault(t)
      PROVE  Inv'
  BY <1>3, TrapInv, KilledInv DEF TrapInstruction, MemoryFault, StackFault
<1>4. ASSUME NEW t \in Threads,
             \/ Guard(t) \/ Returns(t) \/ ProcExit(t) \/ ThrowUncaught(t)
             \/ ThrowCaught(t) \/ Call(t) \/ Try(t) \/ Pop(t)
      PROVE  Inv'
  BY <1>4, GuardInv, ReturnsInv, ProcExitInv, ThrowUncaughtInv, ThrowCaughtInv,
     CallInv, TryInv, PopInv
<1>5. CASE UNCHANGED vars
  BY <1>5
     DEF vars, runtime, thread, shim, Inv, TypeOK, OneThread, FramesFit,
         InGuest, SavedIsGone, Ready, Started, DepthCountsFrames, JumpsLand
<1>6. QED BY <1>1, <1>2, <1>3, <1>4, <1>5 DEF Next

\* The invariant holds always.
LEMMA AlwaysInv == Spec => []Inv
<1>1. Init => Inv
  BY InitInv
<1>2. Inv /\ [Next]_vars => Inv'
  BY NextInv
<1>3. QED BY <1>1, <1>2, PTL DEF Spec

\* For every number of threads and databases, every depth limit and every size
\* of the stack: the runtime's variables keep their types.
THEOREM TypesAreKept == Spec => []TypeOK
<1>1. Inv => TypeOK
  BY DEF Inv
<1>2. QED BY <1>1, AlwaysInv, PTL

\* Whatever way a guest call ends, on whichever thread, the jump lands in a
\* function that is still there.
THEOREM EveryJumpLands == Spec => []JumpsLand
<1>1. Inv => JumpsLand
  BY DEF Inv
<1>2. QED BY <1>1, AlwaysInv, PTL

\* The depth counter of a device counts the guest's frames and those taken away
\* without being uncounted, whatever the order of calls, traps and exits.
THEOREM DepthIsExact == Spec => []DepthCountsFrames
<1>1. Inv => DepthCountsFrames
  BY DEF Inv
<1>2. QED BY <1>1, AlwaysInv, PTL

\* Generated code runs with the signal handler installed, or while another
\* thread is about to install it.
THEOREM HandlerIsThere == Spec => []HandlerWindow
<1>1. Inv => HandlerWindow
  BY DEF Inv, TypeOK, Ready, Started, HandlerWindow
<1>2. QED BY <1>1, AlwaysInv, PTL

================================================================================
