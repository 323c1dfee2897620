------------------------------- MODULE WirePump --------------------------------
(***************************************************************************)
(* The wire bridge (native/bridge/pglite_bridge.c) and the engine behind   *)
(* it.  The bridge boots the engine, authenticates, and then exchanges one *)
(* batch of frontend messages at a time for the backend's reply:           *)
(*                                                                         *)
(*   publish the batch in the engine's communication area (CMA);           *)
(*   until the reply holds ReadyForQuery or IdleLimit ticks in a row       *)
(*   yielded nothing: run one tick, flush, drain the CMA, then drain the   *)
(*   spill file.                                                           *)
(*                                                                         *)
(* The engine runs only inside a call of the bridge, but it decides how    *)
(* much of what it owes a tick emits, through which of the two channels,   *)
(* and whether ReadyForQuery is deferred to a later flush or tick.  Its    *)
(* code is generated and not part of the sources: InteractiveOne and       *)
(* WasipgFlush model it from how the bridge and the patch on top of it use *)
(* it (module/patches/wasipg/0006-*.patch).                                *)
(***************************************************************************)
EXTENDS ReplyStream

CONSTANTS
  IdleLimit,     \* ticks without output after which the bridge gives up (10)
  MaxSilent,     \* most ticks in a row the engine emits nothing it owes
  MaxBody,       \* longest reply, in units before ReadyForQuery
  MaxCalls,      \* bound on the number of exchanges explored
  Faults         \* what may go wrong, see AllFaults

(***************************************************************************)
(* "trap"     a guest call of an exchange traps                            *)
(* "bootTrap" _start, pgl_initdb or pgl_backend traps                      *)
(* "exit"     the guest calls proc_exit while booting or inside a tick     *)
(* "auth"     the engine asks to be authenticated in a way the bridge does *)
(*            not know                                                     *)
(* "alloc"    the handle, a message or an empty reply cannot be allocated, *)
(*            or wasi_shim_init fails                                      *)
(* "append"   append_bytes cannot grow the reply buffer                    *)
(* "channel"  get_channel reports an offset the bridge cannot use          *)
(* "keep"     the spill file cannot be opened, stat'ed or buffered         *)
(* "lose"     the spill file is removed but its bytes could not be read    *)
(***************************************************************************)
AllFaults ==
  {"trap", "bootTrap", "exit", "auth", "alloc", "append", "channel", "keep",
   "lose"}

ASSUME WirePumpAssumption ==
  /\ IdleLimit \in Nat \ {0}
  /\ MaxSilent \in Nat
  /\ MaxBody \in Nat \ {0}
  /\ MaxCalls \in Nat
  /\ Faults \subseteq AllFaults

VARIABLES
  \* the bridge
  phase,         \* how far pgl_open, use and pgl_close have come
  pc,            \* where exchange() stands, "idle" outside of it
  kind,          \* the kind of batch of the current or last exchange
  xid,           \* number of the current or last exchange
  buf,           \* reply bytes collected so far; after it, those returned
  idle,          \* ticks in a row that yielded nothing
  dead,          \* db->dead
  result,        \* what the last exchange returned: "none", "reply", "null"
  \* the engine
  published,     \* is a request waiting in the CMA (cma_rsize > 0)?
  cma,           \* reply bytes waiting in the CMA (cma_wsize of them)
  spill,         \* contents of the socket-out file, <<>> when absent
  owed,          \* reply bytes produced but not yet emitted
  due,           \* the deferred ReadyForQuery, <<>> when there is none
  authBusy,      \* does ClientAuthInProgress hold back the deferred one?
  silent,        \* ticks in a row that emitted nothing though bytes are owed
  challenge,     \* what the engine's AuthenticationRequest asks for
  health         \* "up", "trapped" or "exited"

bridge == <<phase, pc, kind, xid, buf, idle, dead, result>>
engine == <<published, cma, spill, owed, due, authBusy, silent, challenge,
            health>>
vars == <<bridge, engine>>

Kinds == {"startup", "password", "query", "partial"}

\* Batches whose reply the engine must end with ReadyForQuery: "query" stands
\* for a simple Query as well as for a batch that ends in Sync.
Terminated == {"password", "query"}

\* What an AuthenticationRequest can ask for: nothing (type 0), a password in
\* the clear or hashed (3 and 5), or something the bridge does not know.
Asks == {"ok", "password"} \cup (IF "auth" \in Faults THEN {"other"} ELSE {})

Phases == {"boot", "startup", "password", "setpath", "open", "closing",
           "closed"}

TypeOK ==
  /\ phase \in Phases
  /\ pc \in {"idle", "publish", "loop", "tick", "flush", "drain"}
  /\ kind \in Kinds
  /\ xid \in Nat
  /\ buf \in Seq(UnitType)
  /\ idle \in 0..IdleLimit
  /\ dead \in BOOLEAN
  /\ result \in {"none", "reply", "null"}
  /\ published \in BOOLEAN
  /\ cma \in Seq(UnitType)
  /\ spill \in Seq(UnitType)
  /\ owed \in Seq(UnitType)
  /\ due \in Seq(UnitType)
  /\ authBusy \in BOOLEAN
  /\ silent \in 0..MaxSilent
  /\ challenge \in Asks
  /\ health \in {"up", "trapped", "exited"}

Init ==
  /\ phase = "boot"
  /\ pc = "idle"
  /\ kind = "startup"
  /\ xid = 0
  /\ buf = <<>>
  /\ idle = 0
  /\ dead = FALSE
  /\ result = "none"
  /\ published = FALSE
  /\ cma = <<>>
  /\ spill = <<>>
  /\ owed = <<>>
  /\ due = <<>>
  /\ authBusy = FALSE
  /\ silent = 0
  /\ challenge = "ok"
  /\ health = "up"

--------------------------------------------------------------------------------
(***************************************************************************)
(* exchange() as its callers see it.                                       *)
(***************************************************************************)
Begin(k) ==
  /\ pc = "idle"
  /\ ~dead
  /\ pc' = "publish"
  /\ kind' = k
  /\ xid' = xid + 1
  /\ buf' = <<>>
  /\ idle' = 0
  /\ result' = "none"
  /\ UNCHANGED <<dead, engine>>

\* Mutant of GiveUp: the handle is not marked dead.
GiveUpAlive(nowDead) ==
  /\ result' = "null"
  /\ buf' = <<>>
  /\ pc' = "idle"
  /\ phase' = IF phase = "closing" THEN "closed" ELSE "closing"
  /\ UNCHANGED <<kind, xid, idle, dead>>

\* exchange() returns NULL.  During boot FAIL closes the handle; afterwards
\* PGlite.execWire and PGlite.query do.  pgl_close asks for a checkpoint
\* first unless the handle is marked dead.
GiveUp(nowDead) ==
  /\ dead' = nowDead
  /\ result' = "null"
  /\ buf' = <<>>
  /\ pc' = "idle"
  /\ phase' = IF nowDead \/ phase = "closing" THEN "closed" ELSE "closing"
  /\ UNCHANGED <<kind, xid, idle>>

\* What authenticate() finds in the reply to its StartupMessage, which starts
\* with the AuthenticationRequest; a reply that has lost it counts as one that
\* asks for nothing.
AuthType == IF buf # <<>> /\ buf[1].n = 1 THEN challenge ELSE "ok"

\* Where authenticate() goes from there.  When the engine asks for something
\* else than a password it fails, and pgl_open closes a handle that is not
\* marked dead.
AfterStartup ==
  [ok |-> "setpath", password |-> "password", other |-> "closing"][AuthType]

\* What the caller of exchange() does with a reply: pgl_open goes on to the
\* next boot step, pgl_close tears down, everyone else just returns it.
AfterReply ==
  CASE phase = "startup"  -> AfterStartup
    [] phase = "password" -> "setpath"
    [] phase = "setpath"  -> "open"
    [] phase = "closing"  -> "closed"
    [] OTHER              -> phase

--------------------------------------------------------------------------------
(***************************************************************************)
(* The steps of exchange().                                                *)
(***************************************************************************)

\* use_wire(1), copy the payload behind guest offset 1, interactive_write(len).
Publish ==
  /\ pc = "publish"
  /\ published' = TRUE
  /\ cma' = <<>>
  /\ pc' = "loop"
  /\ UNCHANGED <<phase, kind, xid, buf, idle, dead, result, spill, owed, due,
                 authBusy, silent, challenge, health>>

\* Mutants of Finished: no idle limit; a limit that is one tick short.
FinishedOnRfqOnly == HasRfq(buf)
FinishedEarly     == idle + 1 >= IdleLimit \/ HasRfq(buf)

\* The loop condition of exchange().
Finished == idle >= IdleLimit \/ HasRfq(buf)

Continue ==
  /\ pc = "loop"
  /\ ~Finished
  /\ pc' = "tick"
  /\ UNCHANGED <<phase, kind, xid, buf, idle, dead, result, engine>>

Finish ==
  /\ pc = "loop"
  /\ Finished
  /\ pc' = "idle"
  /\ result' = "reply"
  /\ phase' = AfterReply
  /\ UNCHANGED <<kind, xid, buf, idle, dead, engine>>

\* The reply to the request in the CMA: what this tick can emit of it, and the
\* ReadyForQuery that has to wait because authentication is under way.  An
\* engine left waiting to be authenticated is never ready for a query.
Produced(b) ==
  IF published
  THEN Body(xid, b) \o (IF kind = "query" /\ challenge # "other"
                        THEN Rfq(xid, b) ELSE <<>>)
  ELSE <<>>

Deferred(b, ask) ==
  IF published /\ (kind = "password" \/ (kind = "startup" /\ ask = "ok"))
  THEN Rfq(xid, b)
  ELSE <<>>

(***************************************************************************)
(* A tick emits some prefix of the pending bytes: the first i through the  *)
(* CMA, those up to j, which do not fit there, through the spill file,     *)
(* which a rename puts in place whole.  The short replies of the           *)
(* authentication phase never spill.                                       *)
(***************************************************************************)
Emit(pending, later, i, j) ==
  LET stalls == j = 0 /\ pending \o later # <<>>
  IN /\ later # <<>> => i = j
     /\ stalls => silent < MaxSilent
     /\ cma' = IF i > 0 THEN SubSeq(pending, 1, i) ELSE cma
     /\ spill' = IF j > i THEN SubSeq(pending, i + 1, j) ELSE spill
     /\ owed' = SubSeq(pending, j + 1, Len(pending))
     /\ due' = later
     /\ authBusy' \in BOOLEAN
     /\ authBusy' => later # <<>>
     /\ silent' = IF stalls THEN silent + 1 ELSE 0

\* One tick of the engine: it first makes good for a deferred ReadyForQuery,
\* then takes the request.
InteractiveOne ==
  /\ pc = "tick"
  /\ health = "up"
  /\ \E b \in 0..MaxBody, ask \in Asks :
       LET pending == owed \o due \o Produced(b)
       IN /\ kind = "startup" => b > 0
          /\ challenge' = IF published /\ kind = "startup" THEN ask
                                                           ELSE challenge
          /\ \E i \in 0..Len(pending) : \E j \in i..Len(pending) :
               Emit(pending, Deferred(b, ask), i, j)
  /\ published' = FALSE
  /\ pc' = "flush"
  /\ UNCHANGED <<phase, kind, xid, buf, idle, dead, result, health>>

\* wasipg_flush: emit a deferred ReadyForQuery, behind whatever is buffered.
WasipgFlush ==
  /\ pc = "flush"
  /\ IF health = "up" /\ due # <<>> /\ ~authBusy
     THEN /\ spill' = owed \o due
          /\ owed' = <<>>
          /\ due' = <<>>
          /\ silent' = 0
     ELSE UNCHANGED <<spill, owed, due, silent>>
  /\ pc' = "drain"
  /\ UNCHANGED <<phase, kind, xid, buf, idle, dead, result, published, cma,
                 authBusy, challenge, health>>

\* Mutants of DrainWith: the file before the CMA; the CMA not reset; a drain
\* that found nothing not counted.
DrainFileFirst(fault) ==
  /\ buf' = buf \o (spill \o cma)
  /\ idle' = IF spill \o cma = <<>> THEN idle + 1 ELSE 0
  /\ cma' = <<>>
  /\ published' = (published /\ cma = <<>>)
  /\ spill' = <<>>

DrainTwice(fault) ==
  /\ buf' = buf \o (cma \o spill)
  /\ idle' = IF cma \o spill = <<>> THEN idle + 1 ELSE 0
  /\ spill' = <<>>
  /\ UNCHANGED <<cma, published>>

DrainUncounted(fault) ==
  /\ buf' = buf \o (cma \o spill)
  /\ idle' = 0
  /\ cma' = <<>>
  /\ published' = (published /\ cma = <<>>)
  /\ spill' = <<>>

(***************************************************************************)
(* drain(): the CMA first, then the spill file, and the idle count of the  *)
(* loop around it.  interactive_write(0) empties both directions of the    *)
(* CMA, so it is called only when there was something to read.             *)
(***************************************************************************)
DrainWith(fault) ==
  LET fromCma  == IF fault = "channel" THEN <<>> ELSE cma
      fromFile == IF fault \in {"keep", "lose"} THEN <<>> ELSE spill
  IN /\ buf' = buf \o (fromCma \o fromFile)
     /\ idle' = IF fromCma \o fromFile = <<>> THEN idle + 1 ELSE 0
     /\ cma' = <<>>
     /\ published' = (published /\ cma = <<>>)
     /\ spill' = IF fault = "keep" THEN spill ELSE <<>>

Drain ==
  /\ pc = "drain"
  /\ \E fault \in {"none"} \cup (Faults \cap {"channel", "keep", "lose"}) :
       DrainWith(fault)
  /\ pc' = "loop"
  /\ UNCHANGED <<phase, kind, xid, dead, result, owed, due, authBusy, silent,
                 challenge, health>>

\* append_bytes fails: drain() reports -1, which exchange() takes for death.
DrainOutOfMemory ==
  /\ pc = "drain"
  /\ "append" \in Faults
  /\ cma # <<>>
  /\ GiveUp(TRUE)
  /\ UNCHANGED engine

\* Any guest call of the exchange traps.
Trap ==
  /\ pc \in {"publish", "tick", "flush", "drain"}
  /\ "trap" \in Faults
  /\ health' = "trapped"
  /\ GiveUp(TRUE)
  /\ UNCHANGED <<published, cma, spill, owed, due, authBusy, silent, challenge>>

\* proc_exit leaves the tick or the flush through the second jump buffer:
\* GUEST_CALL goes on as if the call had returned.  The other calls of an
\* exchange only read or set a variable of the guest.
ProcExit ==
  /\ pc \in {"tick", "flush"}
  /\ "exit" \in Faults
  /\ health = "up"
  /\ health' = "exited"
  /\ pc' = IF pc = "tick" THEN "flush" ELSE "drain"
  /\ UNCHANGED <<phase, kind, xid, buf, idle, dead, result, published, cma,
                 spill, owed, due, authBusy, silent, challenge>>

\* An allocation of simple_query() or the one of an empty reply fails: -1 or
\* NULL, and the handle is not marked dead.
NoMemory ==
  /\ "alloc" \in Faults
  /\ \/ pc = "idle" /\ phase \in {"setpath", "closing"}
     \/ pc = "loop" /\ Finished /\ buf = <<>>
  /\ GiveUp(dead)
  /\ UNCHANGED engine

\* The bridge keeps ticking an engine that has exited, and pgl_close one that
\* trapped while booting; such a tick yields nothing more.
TickOfStopped ==
  /\ pc = "tick"
  /\ health # "up"
  /\ pc' = "flush"
  /\ UNCHANGED <<phase, kind, xid, buf, idle, dead, result, engine>>

--------------------------------------------------------------------------------
(***************************************************************************)
(* pgl_open, the calls of the app, pgl_close.                              *)
(***************************************************************************)

\* pgl_open has no handle, or no shim: there is no engine to checkpoint.
OpenFails ==
  /\ phase = "boot"
  /\ "alloc" \in Faults
  /\ phase' = "closed"
  /\ UNCHANGED <<pc, kind, xid, buf, idle, dead, result, engine>>

\* Remove stale transport files and run _start, pgl_initdb and pgl_backend.
Boot ==
  /\ phase = "boot"
  /\ phase' = "startup"
  /\ UNCHANGED <<pc, kind, xid, buf, idle, dead, result, engine>>

\* The guest calls proc_exit in _start, pgl_initdb or pgl_backend: GUEST_CALL
\* goes on as if the call had returned, and pgl_open authenticates with what
\* is left of the engine.
BootExit ==
  /\ phase = "boot"
  /\ "exit" \in Faults
  /\ health' = "exited"
  /\ phase' = "startup"
  /\ UNCHANGED <<pc, kind, xid, buf, idle, dead, result, published, cma, spill,
                 owed, due, authBusy, silent, challenge>>

\* A trap while booting fails pgl_open but does not mark the handle dead.
BootTrap ==
  /\ phase = "boot"
  /\ "bootTrap" \in Faults
  /\ health' = "trapped"
  /\ phase' = "closing"
  /\ UNCHANGED <<pc, kind, xid, buf, idle, dead, result, published, cma, spill,
                 owed, due, authBusy, silent, challenge>>

\* authenticate() and the SET search_path of pgl_open.
BootExchange ==
  /\ phase \in {"startup", "password", "setpath"}
  /\ Begin(IF phase = "setpath" THEN "query" ELSE phase)
  /\ UNCHANGED phase

\* The app, or the server on a client's behalf, exchanges one batch.
Request(k) ==
  /\ phase = "open"
  /\ xid < MaxCalls
  /\ Begin(k)
  /\ UNCHANGED phase

\* An empty payload, or one above half of the CMA: NULL, and nothing sent.
RequestRefused ==
  /\ phase = "open"
  /\ pc = "idle"
  /\ GiveUp(dead)
  /\ UNCHANGED engine

\* pgl_close(): checkpoint first.
Close ==
  /\ phase = "open"
  /\ pc = "idle"
  /\ phase' = "closing"
  /\ result' = "none"
  /\ UNCHANGED <<pc, kind, xid, buf, idle, dead, engine>>

Checkpoint ==
  /\ phase = "closing"
  /\ Begin("query")
  /\ UNCHANGED phase

ExchangeStep ==
  \/ Publish \/ Continue \/ Finish
  \/ InteractiveOne \/ WasipgFlush \/ Drain
  \/ DrainOutOfMemory \/ Trap \/ ProcExit \/ NoMemory \/ TickOfStopped

BridgeStep ==
  \/ ExchangeStep
  \/ OpenFails \/ Boot \/ BootExit \/ BootTrap \/ BootExchange \/ Checkpoint

Caller == (\E k \in {"query", "partial"} : Request(k)) \/ RequestRefused \/ Close

Next == BridgeStep \/ Caller

Safety == Init /\ [][Next]_vars

\* The bridge runs on its caller's thread and never waits for anything: once
\* inside pgl_open, exchange() or pgl_close it keeps going.
Spec == Safety /\ WF_vars(BridgeStep)
--------------------------------------------------------------------------------
(***************************************************************************)
(* The bridge as EngineService sees it.                                    *)
(***************************************************************************)
Service ==
  INSTANCE EngineService
  WITH calls  <- xid,
       open   <- IF pc = "idle" THEN "none" ELSE kind,
       answer <- [reply |-> result = "reply",
                  units |-> IF result = "reply" THEN buf ELSE <<>>],
       alive  <- ~dead

\* The bridge implements the service: every exchange of pglite_bridge.c is one
\* call that is answered at most once, in turn, with its own reply.
ServiceSpec == Service!Spec

\* The reply exchange() returns is exactly the reply to this request: nothing
\* of an earlier one, nothing missing, nothing twice, nothing out of order,
\* whatever the engine put into the CMA, the spill file or a deferred flush.
ReplyExact == result = "reply" => buf \in Service!Replies(xid, kind)

\* Between two exchanges with a live engine nothing is under way: no byte of a
\* reply is left in the CMA, in the spill file, in the engine's buffer or in a
\* deferred ReadyForQuery, where the next exchange would take it for its own.
NothingInFlight ==
  (pc = "idle" /\ ~dead) =>
    /\ ~published
    /\ \A bytes \in {cma, spill, owed, due} : bytes = <<>>

\* Once a guest call of an exchange has trapped the bridge never calls the
\* engine again; in particular pgl_close skips its checkpoint.  It says nothing
\* of an engine that trapped while booting: BootTrap leaves the handle alive,
\* and pgl_close does enter the engine ("bootTrap" is no fault of this run).
TrappedIsLeftAlone == [][health = "trapped" => UNCHANGED engine]_vars

\* exchange() always returns: it neither waits for a ReadyForQuery that will
\* not come nor ticks forever.
ExchangeReturns == pc # "idle" ~> pc = "idle"

\* pgl_open and pgl_close return as well: when the shim or an allocation fails,
\* _start, pgl_initdb or pgl_backend trap or exit, the engine says nothing or
\* asks for an authentication the bridge does not know, and when a boot
\* exchange or the checkpoint of the failed pgl_open traps, exits or is cut.
OpenAndCloseReturn ==
  phase \notin {"open", "closed"} ~> phase \in {"open", "closed"}
===============================================================================
