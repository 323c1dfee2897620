-------------------------------- MODULE FdTable --------------------------------
(***************************************************************************)
(* The descriptor table of the WASI shim (native/shim/wasi_shim.c): the    *)
(* guest's descriptors are slots that refer to open files of the host      *)
(* process.  The files of the log and of the two preopened directories are *)
(* shared between slots and the shim itself, every other file belongs to   *)
(* one slot.  The process has other threads, which open and close files of *)
(* their own between any two calls; a number that was closed is the next   *)
(* one to be reused.                                                       *)
(***************************************************************************)
EXTENDS Integers, Sequences

CONSTANTS
  MaxFds,        \* WASI_SHIM_MAX_FDS (256)
  MaxHosts       \* the descriptors the process may have open

ASSUME FdTableAssumption ==
  /\ MaxFds \in Nat /\ MaxFds >= 5
  /\ MaxHosts \in Nat

Slots     == 0..(MaxFds - 1)
Hosts     == 0..(MaxHosts - 1)
Free      == -1    \* host_fd of a free slot, log_fd while there is no log
Preopened == 2     \* /tmp and /dev

VARIABLES
  owner,         \* who has each descriptor of the process open
  host,          \* w->fds[].host_fd
  preopen,       \* w->fds[].preopen >= 0
  log,           \* w->log_fd
  preopens,      \* w->preopens[].host_fd, n_preopens of them
  phase,         \* how far init, use and dispose have come
  cursor         \* the slot or preopen dispose comes to next

vars == <<owner, host, preopen, log, preopens, phase, cursor>>
table == <<host, preopen, log, preopens>>

TypeOK ==
  /\ owner \in [Hosts -> {"free", "shim", "app"}]
  /\ host \in [Slots -> Hosts \cup {Free}]
  /\ preopen \in [Slots -> BOOLEAN]
  /\ log \in Hosts \cup {Free}
  /\ preopens \in Seq(Hosts) /\ Len(preopens) <= Preopened
  /\ phase \in {"down", "log", "null", "preopen", "up", "failed",
                "slots", "preopens", "last"}
  /\ cursor \in 0..MaxFds
  /\ phase \in {"slots", "preopens"} \/ cursor = 0

\* calloc: a free slot's preopen is 0, which reads as a preopen until the slot
\* is first used.
Init ==
  /\ owner = [h \in Hosts |-> "free"]
  /\ host = [s \in Slots |-> Free]
  /\ preopen = [s \in Slots |-> TRUE]
  /\ log = Free
  /\ preopens = <<>>
  /\ phase = "down"
  /\ cursor = 0

--------------------------------------------------------------------------------
(***************************************************************************)
(* The host.  open takes the lowest descriptor that is free.               *)
(***************************************************************************)
Lowest ==
  { h \in Hosts : /\ owner[h] = "free"
                  /\ \A g \in Hosts : g < h => owner[g] # "free" }

HostOpens(h)  == owner' = [owner EXCEPT ![h] = "shim"]

\* close(h) does not ask who opened h.
HostCloses(h) == owner' = [owner EXCEPT ![h] = "free"]

AppOpens(h) ==
  /\ h \in Lowest
  /\ owner' = [owner EXCEPT ![h] = "app"]
  /\ UNCHANGED <<table, phase, cursor>>

AppCloses(h) ==
  /\ owner[h] = "app"
  /\ HostCloses(h)
  /\ UNCHANGED <<table, phase, cursor>>

--------------------------------------------------------------------------------
(***************************************************************************)
(* wasi_shim_init, one open at a time.                                     *)
(***************************************************************************)

\* memset and the loop that frees every slot; <root>/dev/urandom is opened and
\* closed again, or cannot be opened.
InitStarts ==
  /\ phase = "down"
  /\ host' = [s \in Slots |-> Free]
  /\ preopen' = [s \in Slots |-> TRUE]
  /\ log' = Free
  /\ preopens' = <<>>
  /\ phase' \in {"log", "failed"}
  /\ UNCHANGED <<owner, cursor>>

InitFails ==
  /\ phase \in {"log", "preopen"}
  /\ phase' = "failed"
  /\ UNCHANGED <<owner, table, cursor>>

InitLog(h) ==
  /\ phase = "log"
  /\ h \in Lowest
  /\ HostOpens(h)
  /\ log' = h
  /\ phase' = "null"
  /\ UNCHANGED <<host, preopen, preopens, cursor>>

\* What /dev/null yields is not looked at: without it slot 0 is free.
InitStdio(h) ==
  /\ phase = "null"
  /\ \/ h = Free /\ UNCHANGED owner
     \/ h \in Lowest /\ HostOpens(h)
  /\ host' = [host EXCEPT ![0] = h, ![1] = log, ![2] = log]
  /\ preopen' = [preopen EXCEPT ![0] = FALSE, ![1] = FALSE, ![2] = FALSE]
  /\ phase' = "preopen"
  /\ UNCHANGED <<log, preopens, cursor>>

\* Mutant of InitPreopen: one turn of the loop too many.
InitPreopenOnceMore(h) ==
  /\ phase = "preopen"
  /\ h \in Lowest
  /\ HostOpens(h)
  /\ preopens' = Append(preopens, h)
  /\ phase' = IF Len(preopens) = Preopened THEN "up" ELSE "preopen"
  /\ UNCHANGED <<host, preopen, log, cursor>>

\* The preopened directory goes to the slot of its number, 3 or 4.
InitPreopen(h) ==
  /\ phase = "preopen"
  /\ h \in Lowest
  /\ HostOpens(h)
  /\ LET slot == 3 + Len(preopens)
     IN /\ host' = [host EXCEPT ![slot] = h]
        /\ preopen' = [preopen EXCEPT ![slot] = TRUE]
  /\ preopens' = Append(preopens, h)
  /\ phase' = IF Len(preopens) + 1 = Preopened THEN "up" ELSE "preopen"
  /\ UNCHANGED <<log, cursor>>

--------------------------------------------------------------------------------
(***************************************************************************)
(* The guest's calls.                                                      *)
(***************************************************************************)

\* fd_get
InUse(s) == host[s] # Free

\* fd_alloc
LowestSlot(s) == ~InUse(s) /\ \A r \in Slots : r < s => InUse(r)

\* Is the file of slot s closed with it?
Owned(s) == host[s] # log /\ ~preopen[s]

\* Mutant of PathOpen: openat comes before the search for a slot.
PathOpenEarly(d, h) ==
  /\ phase = "up"
  /\ InUse(d)
  /\ h \in Lowest
  /\ HostOpens(h)
  /\ \/ \E s \in Slots :
          /\ LowestSlot(s)
          /\ host' = [host EXCEPT ![s] = h]
          /\ preopen' = [preopen EXCEPT ![s] = FALSE]
     \/ (\A s \in Slots : InUse(s)) /\ UNCHANGED <<host, preopen>>
  /\ UNCHANGED <<log, preopens, phase, cursor>>

\* path_open relative to slot d: no slot, no openat.
PathOpen(d, h) ==
  /\ phase = "up"
  /\ InUse(d)
  /\ h \in Lowest
  /\ \E s \in Slots :
       /\ LowestSlot(s)
       /\ host' = [host EXCEPT ![s] = h]
       /\ preopen' = [preopen EXCEPT ![s] = FALSE]
  /\ HostOpens(h)
  /\ UNCHANGED <<log, preopens, phase, cursor>>

\* fd_close
FdClose(s) ==
  /\ phase = "up"
  /\ InUse(s)
  /\ IF Owned(s) THEN HostCloses(host[s]) ELSE UNCHANGED owner
  /\ host' = [host EXCEPT ![s] = Free]
  /\ preopen' = [preopen EXCEPT ![s] = FALSE]
  /\ UNCHANGED <<log, preopens, phase, cursor>>

\* Mutant of FdRenumber: the target is closed whatever it is.
FdRenumberClosing(from, to) ==
  /\ phase = "up"
  /\ InUse(from)
  /\ IF InUse(to) THEN HostCloses(host[to]) ELSE UNCHANGED owner
  /\ host' = [host EXCEPT ![to] = host[from], ![from] = Free]
  /\ preopen' = [preopen EXCEPT ![to] = preopen[from], ![from] = FALSE]
  /\ UNCHANGED <<log, preopens, phase, cursor>>

\* fd_renumber: the slot of from is freed last, so renumbering a slot onto
\* itself closes it.
FdRenumber(from, to) ==
  /\ phase = "up"
  /\ InUse(from)
  /\ IF InUse(to) /\ Owned(to) THEN HostCloses(host[to]) ELSE UNCHANGED owner
  /\ host' = [host EXCEPT ![to] = host[from], ![from] = Free]
  /\ preopen' = [preopen EXCEPT ![to] = preopen[from], ![from] = FALSE]
  /\ UNCHANGED <<log, preopens, phase, cursor>>

--------------------------------------------------------------------------------
(***************************************************************************)
(* wasi_shim_dispose, one close at a time.                                 *)
(***************************************************************************)

\* pgl_close, after use or from FAIL of pgl_open.
DisposeStarts ==
  /\ phase \in {"up", "failed"}
  /\ phase' = "slots"
  /\ UNCHANGED <<owner, table, cursor>>

IsPreopened(h) == \E i \in 1..Len(preopens) : preopens[i] = h

\* Mutant of DisposeSlot: the log is closed with each slot that has it.
DisposeSlotShared ==
  /\ phase = "slots"
  /\ cursor < MaxFds
  /\ IF InUse(cursor) /\ ~IsPreopened(host[cursor])
     THEN HostCloses(host[cursor])
     ELSE UNCHANGED owner
  /\ host' = [host EXCEPT ![cursor] = Free]
  /\ cursor' = cursor + 1
  /\ UNCHANGED <<preopen, log, preopens, phase>>

DisposeSlot ==
  /\ phase = "slots"
  /\ cursor < MaxFds
  /\ IF InUse(cursor) /\ host[cursor] # log /\ ~IsPreopened(host[cursor])
     THEN HostCloses(host[cursor])
     ELSE UNCHANGED owner
  /\ host' = [host EXCEPT ![cursor] = Free]
  /\ cursor' = cursor + 1
  /\ UNCHANGED <<preopen, log, preopens, phase>>

SlotsDone ==
  /\ phase = "slots"
  /\ cursor = MaxFds
  /\ phase' = "preopens"
  /\ cursor' = 0
  /\ UNCHANGED <<owner, table>>

DisposePreopen ==
  /\ phase = "preopens"
  /\ cursor < Len(preopens)
  /\ HostCloses(preopens[cursor + 1])
  /\ cursor' = cursor + 1
  /\ UNCHANGED <<table, phase>>

PreopensDone ==
  /\ phase = "preopens"
  /\ cursor = Len(preopens)
  /\ phase' = "last"
  /\ cursor' = 0
  /\ UNCHANGED <<owner, table>>

DisposeLog ==
  /\ phase = "last"
  /\ IF log # Free THEN HostCloses(log) ELSE UNCHANGED owner
  /\ log' = Free
  /\ preopens' = <<>>
  /\ phase' = "down"
  /\ UNCHANGED <<host, preopen, cursor>>

--------------------------------------------------------------------------------
InitStep ==
  \/ InitStarts \/ InitFails
  \/ \E h \in Hosts : InitLog(h) \/ InitPreopen(h)
  \/ \E h \in Hosts \cup {Free} : InitStdio(h)

GuestStep ==
  \/ \E d \in Slots, h \in Hosts : PathOpen(d, h)
  \/ \E s \in Slots : FdClose(s)
  \/ \E from, to \in Slots : FdRenumber(from, to)

DisposeStep ==
  \/ DisposeStarts \/ DisposeSlot \/ SlotsDone
  \/ DisposePreopen \/ PreopensDone \/ DisposeLog

AppStep == \E h \in Hosts : AppOpens(h) \/ AppCloses(h)

Next == InitStep \/ GuestStep \/ DisposeStep \/ AppStep

Spec == Init /\ [][Next]_vars

--------------------------------------------------------------------------------
\* The log, and the preopened directories dispose has not closed yet.
Held(h) ==
  \/ h = log
  \/ /\ phase # "last"
     /\ \E i \in 1..Len(preopens) :
          preopens[i] = h /\ (phase = "preopens" => i > cursor)

\* Whatever the guest closes and renumbers, no slot, no preopen and not the log
\* ever refers to a descriptor that was closed, and perhaps opened again by
\* somebody else in the process.
NothingDangles ==
  /\ \A s \in Slots : InUse(s) => owner[host[s]] = "shim"
  /\ \A h \in Hosts : Held(h) => owner[h] = "shim"

InOneSlot(h) ==
  \E s \in Slots : host[s] = h /\ \A r \in Slots : host[r] = h => r = s

\* A file the shim has open can still be closed: it is the log, a preopen, or
\* in exactly one slot.  After dispose, also of an init that failed half-way,
\* none is left.
NothingLeaks ==
  \A h \in Hosts : owner[h] = "shim" => Held(h) \/ InOneSlot(h)

\* The shim never closes a descriptor the rest of the process has open: the
\* log, in two slots, and the preopens, in a slot and in preopens, are closed
\* once.
AppKeepsItsFiles ==
  [][\A h \in Hosts : owner[h] = "app" => owner'[h] = "app" \/ AppCloses(h)]_vars
================================================================================
