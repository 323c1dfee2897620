----------------------------- MODULE FdTableProofs -----------------------------
(***************************************************************************)
(* NothingDangles, NothingLeaks and AppKeepsItsFiles, for every size of    *)
(* the table and every number of descriptors the process may have.  They   *)
(* rest on where the files of the log and of the preopens are and on which *)
(* slots are free in each phase of init and dispose (Layout).              *)
(***************************************************************************)
EXTENDS FdTable, TLAPS

\* A slot is flagged as a preopen if and only if its file is one; the log is
\* not, and no two preopens have one file.
Shared ==
  /\ \A s \in Slots : InUse(s) => (preopen[s] <=> IsPreopened(host[s]))
  /\ ~IsPreopened(log)
  /\ \A i, j \in 1..Len(preopens) : preopens[i] = preopens[j] => i = j

\* Init fills free slots only, and dispose leaves none filled behind it.
Layout ==
  /\ phase \in {"down", "log"} => log = Free
  /\ phase \in {"down", "log", "null"} => preopens = <<>>
  /\ phase = "preopen" => Len(preopens) < Preopened
  /\ phase = "preopens" => cursor <= Len(preopens)
  /\ \A s \in Slots :
       /\ phase \in {"down", "log", "null", "preopens", "last"} => ~InUse(s)
       /\ phase = "preopen" /\ s >= 3 + Len(preopens) => ~InUse(s)
       /\ phase = "slots" /\ s < cursor => ~InUse(s)

Inv == TypeOK /\ Shared /\ Layout /\ NothingDangles /\ NothingLeaks

--------------------------------------------------------------------------------
\* Free is no descriptor, and the slots init fills exist.
LEMMA Numbers == Free \notin Hosts /\ 0..4 \subseteq Slots
BY FdTableAssumption DEF Free, Hosts, Slots

\* Nothing is open at first.
LEMMA InitInv == Init => Inv
BY FdTableAssumption, Numbers
   DEF Init, Inv, TypeOK, Shared, Layout, NothingDangles, NothingLeaks, Held,
       IsPreopened, InUse, Hosts, Preopened

\* What has to be shown of a step for NothingLeaks: every file the shim has
\* open after it is held or in one slot.
LEMMA LeaksStep ==
  ASSUME \A h \in Hosts : owner'[h] = "shim" => Held(h)' \/ InOneSlot(h)'
  PROVE  NothingLeaks'
BY DEF NothingLeaks

\* Steps that leave the table and the files alone.
LEMMA QuietInv ==
  ASSUME Inv, InitFails \/ DisposeStarts \/ SlotsDone \/ PreopensDone
  PROVE  Inv'
<1>1. UNCHANGED <<owner, table>>
  BY DEF InitFails, DisposeStarts, SlotsDone, PreopensDone
<1>2. TypeOK'
  BY <1>1, FdTableAssumption
     DEF Inv, TypeOK, InitFails, DisposeStarts, SlotsDone, PreopensDone, table
<1>3. Shared'
  BY <1>1 DEF Inv, Shared, InUse, IsPreopened, table
<1>4. Layout'
  BY <1>1 DEF Inv, TypeOK, Layout, InUse, Slots, InitFails, DisposeStarts,
     SlotsDone,
              PreopensDone, table
<1>5. ASSUME NEW h \in Hosts PROVE Held(h)' <=> Held(h)
  BY <1>1 DEF Inv, TypeOK, Layout, Held, InitFails, DisposeStarts, SlotsDone,
              PreopensDone, table
<1>6. NothingDangles'
  BY <1>1, <1>5 DEF Inv, NothingDangles, InUse, table
<1>7. NothingLeaks'
  BY <1>1, <1>5 DEF Inv, NothingLeaks, InOneSlot, table
<1> QED
  BY <1>2, <1>3, <1>4, <1>6, <1>7 DEF Inv

\* memset and the loop of wasi_shim_init start from a table that is empty.
LEMMA InitStartsInv == ASSUME Inv, InitStarts PROVE Inv'
<1>1. host' = host /\ log' = log /\ preopens' = preopens /\ owner' = owner
  BY DEF Inv, TypeOK, Layout, InUse, InitStarts
<1>2. TypeOK'
  BY DEF Inv, TypeOK, InitStarts, Preopened
<1>3. Shared'
  BY <1>1 DEF Inv, Shared, InUse, IsPreopened, InitStarts
<1>4. Layout'
  BY <1>1 DEF Inv, Layout, InUse, InitStarts
<1>5. ASSUME NEW h \in Hosts PROVE Held(h)' <=> Held(h)
  BY <1>1 DEF Inv, Layout, Held, InitStarts
<1>6. NothingDangles'
  BY <1>1, <1>5 DEF Inv, NothingDangles, InUse
<1>7. NothingLeaks'
  BY <1>1, <1>5 DEF Inv, NothingLeaks, InOneSlot
<1> QED
  BY <1>2, <1>3, <1>4, <1>6, <1>7 DEF Inv

\* The log is opened while the table is empty.
LEMMA InitLogInv == ASSUME Inv, NEW h \in Hosts, InitLog(h) PROVE Inv'
<1>1. phase = "log" /\ preopens = <<>> /\ log = Free /\ \A s \in Slots : ~InUse(s)
  BY DEF Inv, Layout, InitLog
<1>2. TypeOK'
  BY DEF Inv, TypeOK, InitLog, HostOpens
<1>3. Shared'
  BY <1>1 DEF Shared, InUse, IsPreopened, InitLog
<1>4. Layout'
  BY <1>1 DEF Inv, Layout, InUse, InitLog
<1>5. ASSUME NEW g \in Hosts PROVE Held(g)' <=> g = h
  BY <1>1 DEF Held, InitLog
<1>6. NothingDangles'
  BY <1>1, <1>5 DEF Inv, TypeOK, NothingDangles, InUse, InitLog, HostOpens
<1>7. NothingLeaks'
  <2> SUFFICES ASSUME NEW g \in Hosts, owner'[g] = "shim", g # h PROVE FALSE
    BY <1>5, LeaksStep
  <2>1. owner[g] = "shim"
    BY DEF Inv, TypeOK, InitLog, HostOpens
  <2>2. ~Held(g)
    BY <1>1, Numbers DEF Held
  <2>3. ~InOneSlot(g)
    BY <1>1, Numbers DEF InOneSlot, InUse
  <2> QED
    BY <2>1, <2>2, <2>3 DEF Inv, NothingLeaks
<1> QED
  BY <1>2, <1>3, <1>4, <1>6, <1>7 DEF Inv

\* /dev/null, if it opens, goes to slot 0; the log is shared by slots 1 and 2.
LEMMA InitStdioInv ==
  ASSUME Inv, NEW h \in Hosts \cup {Free}, InitStdio(h) PROVE Inv'
<1>1. phase = "null" /\ preopens = <<>> /\ \A s \in Slots : host[s] = Free
  BY DEF Inv, Layout, InitStdio, InUse
<1>2. \A s \in Slots : host'[s] = IF s = 0 THEN h ELSE IF s \in {1, 2} THEN log ELSE Free
  BY <1>1, Numbers DEF Inv, TypeOK, InitStdio
<1>3. TypeOK'
  <2>1. owner' \in [Hosts -> {"free", "shim", "app"}]
    BY DEF Inv, TypeOK, InitStdio, HostOpens
  <2>2. host' \in [Slots -> Hosts \cup {Free}]
    BY DEF Inv, TypeOK, InitStdio
  <2> QED
    BY <2>1, <2>2 DEF Inv, TypeOK, InitStdio
<1>4. h # Free => owner[h] = "free" /\ owner' = [owner EXCEPT ![h] = "shim"]
  BY DEF InitStdio, Lowest, HostOpens
<1>5. h = Free => owner' = owner
  BY Numbers DEF InitStdio, Lowest
<1>6. log # Free => owner[log] = "shim" /\ log # h
  BY <1>4 DEF Inv, TypeOK, NothingDangles, Held
<1>7. Shared'
  BY <1>1 DEF Inv, TypeOK, Shared, InUse, IsPreopened, InitStdio
<1>8. Layout'
  <2>1. phase' = "preopen" /\ preopens' = <<>> /\ Len(preopens') = 0
    BY <1>1 DEF InitStdio
  <2>2. \A s \in Slots : s >= 3 => host'[s] = Free
    BY <1>2 DEF Slots
  <2> QED
    BY <2>1, <2>2 DEF Layout, InUse, Preopened
<1>9. ASSUME NEW g \in Hosts PROVE Held(g)' <=> g = log
  BY <1>1 DEF Held, InitStdio
<1>10. NothingDangles'
  <2>1. log # Free => owner'[log] = "shim"
    BY <1>4, <1>5, <1>6 DEF Inv, TypeOK
  <2>2. h # Free => owner'[h] = "shim"
    BY <1>4 DEF Inv, TypeOK
  <2>3. \A s \in Slots : InUse(s)' => owner'[host'[s]] = "shim"
    BY <2>1, <2>2, <1>2 DEF InUse
  <2>4. \A g \in Hosts : Held(g)' => owner'[g] = "shim"
    BY <2>1, <1>9, Numbers
  <2> QED
    BY <2>3, <2>4 DEF NothingDangles
<1>11. NothingLeaks'
  <2> SUFFICES ASSUME NEW g \in Hosts, owner'[g] = "shim", g # log
               PROVE  InOneSlot(g)'
    BY <1>9, LeaksStep
  <2>1. CASE g = h
    BY <2>1, <1>2, Numbers DEF InOneSlot
  <2>2. CASE g # h
    <3>1. owner[g] = "shim"
      BY <2>2, <1>4, <1>5 DEF Inv, TypeOK
    <3>2. ~Held(g) /\ ~InOneSlot(g)
      BY <1>1, Numbers DEF Held, InOneSlot
    <3> QED
      BY <3>1, <3>2 DEF Inv, NothingLeaks
  <2> QED
    BY <2>1, <2>2
<1> QED
  BY <1>3, <1>7, <1>8, <1>10, <1>11 DEF Inv

\* A preopen goes to the next slot, which is free.
LEMMA InitPreopenInv ==
  ASSUME Inv, NEW h \in Hosts, InitPreopen(h) PROVE Inv'
<1> DEFINE n    == Len(preopens)
           slot == 3 + n
<1>1. phase = "preopen" /\ n \in 0..1 /\ slot \in Slots /\ host[slot] = Free
  <2>1. phase = "preopen" /\ preopens \in Seq(Hosts) /\ n < 2
    BY DEF Inv, TypeOK, Layout, InitPreopen, Preopened
  <2>2. slot \in Slots
    BY <2>1, Numbers
  <2>3. slot >= 3 + Len(preopens)
    BY <2>1
  <2>4. ~InUse(slot)
    BY <2>1, <2>2, <2>3 DEF Inv, Layout
  <2>5. host[slot] = Free
    BY <2>4 DEF InUse
  <2>6. n \in Nat
    BY <2>1
  <2>7. n \in 0..1
    <3> HIDE DEF n
    <3> QED BY <2>1, <2>6
  <2> QED
    BY <2>1, <2>2, <2>5, <2>7
<1>2. /\ preopens' = Append(preopens, h)
      /\ preopens' \in Seq(Hosts) /\ Len(preopens') = n + 1
      /\ \A i \in 1..n : preopens'[i] = preopens[i]
      /\ preopens'[n + 1] = h
  BY <1>1 DEF Inv, TypeOK, InitPreopen
<1>3. /\ host' = [host EXCEPT ![slot] = h]
      /\ preopen' = [preopen EXCEPT ![slot] = TRUE]
      /\ owner' = [owner EXCEPT ![h] = "shim"]
      /\ owner[h] = "free"
      /\ UNCHANGED <<log, cursor>>
      /\ phase' \in {"up", "preopen"}
      /\ phase' = IF n + 1 = 2 THEN "up" ELSE "preopen"
  BY DEF InitPreopen, HostOpens, Lowest, Preopened
<1>4. TypeOK'
  BY <1>1, <1>2, <1>3 DEF Inv, TypeOK, Preopened
<1>5. ASSUME NEW g PROVE IsPreopened(g)' <=> IsPreopened(g) \/ g = h
  BY <1>1, <1>2 DEF IsPreopened
<1>6. ASSUME NEW g \in Hosts PROVE Held(g) <=> g = log \/ IsPreopened(g)
  BY <1>1 DEF Held, IsPreopened
<1>7. ASSUME NEW g \in Hosts PROVE Held(g)' <=> Held(g) \/ g = h
  BY <1>3, <1>5, <1>6 DEF Held, IsPreopened
<1>8. h # log /\ ~IsPreopened(h) /\ \A s \in Slots : host[s] # h
  BY <1>3, <1>6, Numbers DEF Inv, NothingDangles, InUse
<1>9. Shared'
  <2>1. \A s \in Slots : InUse(s)' => (preopen'[s] <=> IsPreopened(host[s])')
    BY <1>1, <1>3, <1>5, <1>8 DEF Inv, TypeOK, Shared, InUse
  <2>2. ~IsPreopened(log)'
    BY <1>3, <1>5, <1>8 DEF Inv, Shared
  <2>3. \A i, j \in 1..Len(preopens') : preopens'[i] = preopens'[j] => i = j
    BY <1>1, <1>2, <1>8 DEF Inv, Shared, IsPreopened
  <2> QED
    BY <2>1, <2>2, <2>3 DEF Shared
<1>10. Layout'
  BY <1>1, <1>2, <1>3, Numbers DEF Inv, TypeOK, Layout, InUse, Slots, Preopened
<1>11. NothingDangles'
  BY <1>1, <1>3, <1>7 DEF Inv, TypeOK, NothingDangles, InUse
<1>12. NothingLeaks'
  <2> SUFFICES ASSUME NEW g \in Hosts, owner'[g] = "shim", g # h, ~Held(g)
               PROVE  InOneSlot(g)'
    BY <1>7, LeaksStep
  <2>1. InOneSlot(g)
    BY <1>3 DEF Inv, TypeOK, NothingLeaks
  <2> QED
    BY <2>1, <1>1, <1>3, Numbers DEF Inv, TypeOK, InOneSlot
<1> QED
  BY <1>4, <1>9, <1>10, <1>11, <1>12 DEF Inv

--------------------------------------------------------------------------------
\* The guest's calls happen in phase "up", when everything shared is held.
LEMMA HeldWhileUp ==
  ASSUME phase = "up", NEW h \in Hosts
  PROVE  Held(h) <=> h = log \/ IsPreopened(h)
BY DEF Held, IsPreopened

\* A slot whose file is closed with it is the only one to have that file, and
\* nothing else holds it.
LEMMA OwnedIsAlone ==
  ASSUME Inv, phase = "up", NEW s \in Slots, InUse(s), Owned(s)
  PROVE  /\ host[s] \in Hosts
         /\ ~Held(host[s])
         /\ \A r \in Slots : host[r] = host[s] => r = s
<1>1. host[s] \in Hosts
  BY DEF Inv, TypeOK, InUse
<1>2. ~Held(host[s])
  BY <1>1, HeldWhileUp DEF Inv, Shared, Owned
<1>3. InOneSlot(host[s])
  BY <1>1, <1>2 DEF Inv, NothingDangles, NothingLeaks
<1> QED
  BY <1>1, <1>2, <1>3 DEF InOneSlot

\* The log and the preopens do not move while the guest runs.
LEMMA GuestKeepsShared ==
  ASSUME Inv, phase = "up", UNCHANGED <<log, preopens, phase, cursor>>
  PROVE  /\ Layout'
         /\ \A h \in Hosts : Held(h)' <=> Held(h)
         /\ \A h : IsPreopened(h)' <=> IsPreopened(h)
BY DEF Layout, Held, IsPreopened

\* path_open takes a free slot and a descriptor nobody has.
LEMMA PathOpenInv ==
  ASSUME Inv, NEW d \in Slots, NEW h \in Hosts, PathOpen(d, h)
  PROVE  Inv'
<1>1. PICK s \in Slots : /\ host[s] = Free
                         /\ host' = [host EXCEPT ![s] = h]
                         /\ preopen' = [preopen EXCEPT ![s] = FALSE]
  BY DEF PathOpen, LowestSlot, InUse
<1>2. /\ phase = "up"
      /\ UNCHANGED <<log, preopens, phase, cursor>>
      /\ owner[h] = "free"
      /\ owner' = [owner EXCEPT ![h] = "shim"]
  BY DEF PathOpen, HostOpens, Lowest
<1>3. /\ Layout'
      /\ \A g \in Hosts : Held(g)' <=> Held(g)
      /\ \A g : IsPreopened(g)' <=> IsPreopened(g)
  BY <1>2, GuestKeepsShared
<1>4. ~Held(h) /\ \A r \in Slots : host[r] # h
  BY <1>2, Numbers DEF Inv, NothingDangles, InUse
<1>5. TypeOK'
  BY <1>1, <1>2 DEF Inv, TypeOK
<1>6. Shared'
  BY <1>1, <1>2, <1>3, <1>4, HeldWhileUp DEF Inv, TypeOK, Shared, InUse
<1>7. NothingDangles'
  BY <1>1, <1>2, <1>3 DEF Inv, TypeOK, NothingDangles, InUse
<1>8. NothingLeaks'
  <2> SUFFICES ASSUME NEW g \in Hosts, owner'[g] = "shim", ~Held(g)
               PROVE  InOneSlot(g)'
    BY <1>3, LeaksStep
  <2>1. CASE g = h
    BY <2>1, <1>1, <1>4 DEF Inv, TypeOK, InOneSlot
  <2>2. CASE g # h
    <3>1. InOneSlot(g)
      BY <2>2, <1>2 DEF Inv, TypeOK, NothingLeaks
    <3> QED
      BY <3>1, <2>2, <1>1, Numbers DEF Inv, TypeOK, InOneSlot
  <2> QED
    BY <2>1, <2>2
<1> QED
  BY <1>3, <1>5, <1>6, <1>7, <1>8 DEF Inv

\* fd_close closes a file with its only slot, or leaves a shared one open.
LEMMA FdCloseInv == ASSUME Inv, NEW s \in Slots, FdClose(s) PROVE Inv'
<1>1. /\ phase = "up"
      /\ InUse(s)
      /\ host' = [host EXCEPT ![s] = Free]
      /\ preopen' = [preopen EXCEPT ![s] = FALSE]
      /\ UNCHANGED <<log, preopens, phase, cursor>>
  BY DEF FdClose
<1>2. host[s] \in Hosts
  BY <1>1 DEF Inv, TypeOK, InUse
<1>3. /\ Layout'
      /\ \A g \in Hosts : Held(g)' <=> Held(g)
      /\ \A g : IsPreopened(g)' <=> IsPreopened(g)
  BY <1>1, GuestKeepsShared
<1>4. Shared'
  BY <1>1, <1>3 DEF Inv, TypeOK, Shared, InUse
<1>5. CASE Owned(s)
  <2>1. owner' = [owner EXCEPT ![host[s]] = "free"]
    BY <1>5 DEF FdClose, HostCloses
  <2>2. ~Held(host[s]) /\ \A r \in Slots : host[r] = host[s] => r = s
    BY <1>1, <1>5, OwnedIsAlone
  <2>3. TypeOK'
    BY <1>1, <1>2, <2>1 DEF Inv, TypeOK
  <2>4. NothingDangles'
    BY <1>1, <1>2, <1>3, <2>1, <2>2 DEF Inv, TypeOK, NothingDangles, InUse
  <2>5. NothingLeaks'
    <3> SUFFICES ASSUME NEW g \in Hosts, owner'[g] = "shim", ~Held(g)
                 PROVE  InOneSlot(g)'
      BY <1>3, LeaksStep
    <3>1. g # host[s] /\ InOneSlot(g)
      BY <1>2, <2>1 DEF Inv, TypeOK, NothingLeaks
    <3> QED
      BY <3>1, <1>1, Numbers DEF Inv, TypeOK, InOneSlot
  <2> QED
    BY <1>3, <1>4, <2>3, <2>4, <2>5 DEF Inv
<1>6. CASE ~Owned(s)
  <2>1. owner' = owner
    BY <1>6 DEF FdClose
  <2>2. Held(host[s])
    BY <1>1, <1>2, <1>6, HeldWhileUp DEF Inv, Shared, Owned
  <2>3. TypeOK'
    BY <1>1, <1>2, <2>1 DEF Inv, TypeOK
  <2>4. NothingDangles'
    BY <1>1, <1>3, <2>1 DEF Inv, TypeOK, NothingDangles, InUse
  <2>5. NothingLeaks'
    <3> SUFFICES ASSUME NEW g \in Hosts, owner'[g] = "shim", ~Held(g)
                 PROVE  InOneSlot(g)'
      BY <1>3, LeaksStep
    <3>1. g # host[s] /\ InOneSlot(g)
      BY <2>1, <2>2 DEF Inv, NothingLeaks
    <3> QED
      BY <3>1, <1>1, Numbers DEF Inv, TypeOK, InOneSlot
  <2> QED
    BY <1>3, <1>4, <2>3, <2>4, <2>5 DEF Inv
<1> QED
  BY <1>5, <1>6

\* fd_renumber moves a slot's file and closes what the target owned; onto itself
\* it closes the file and frees the slot.
LEMMA FdRenumberInv ==
  ASSUME Inv, NEW from \in Slots, NEW to \in Slots, FdRenumber(from, to)
  PROVE  Inv'
<1>1. /\ phase = "up"
      /\ InUse(from)
      /\ host' = [host EXCEPT ![to] = host[from], ![from] = Free]
      /\ preopen' = [preopen EXCEPT ![to] = preopen[from], ![from] = FALSE]
      /\ UNCHANGED <<log, preopens, phase, cursor>>
  BY DEF FdRenumber
<1>2. host[from] \in Hosts
  BY <1>1 DEF Inv, TypeOK, InUse
<1>3. /\ Layout'
      /\ \A g \in Hosts : Held(g)' <=> Held(g)
      /\ \A g : IsPreopened(g)' <=> IsPreopened(g)
  BY <1>1, GuestKeepsShared
<1>4. \A s \in Slots : host'[s] = IF s = from THEN Free
                                  ELSE IF s = to THEN host[from] ELSE host[s]
  BY <1>1 DEF Inv, TypeOK
<1>5. Shared'
  BY <1>1, <1>3 DEF Inv, TypeOK, Shared, InUse
<1>6. CASE InUse(to) /\ Owned(to)
  <2>1. owner' = [owner EXCEPT ![host[to]] = "free"]
    BY <1>6 DEF FdRenumber, HostCloses
  <2>2. /\ host[to] \in Hosts
        /\ ~Held(host[to])
        /\ \A r \in Slots : host[r] = host[to] => r = to
    BY <1>1, <1>6, OwnedIsAlone
  <2>3. TypeOK'
    BY <1>1, <1>2, <2>1, <2>2 DEF Inv, TypeOK
  <2>4. NothingDangles'
    <3>1. \A s \in Slots : host'[s] # Free => owner'[host'[s]] = "shim"
      BY <1>2, <1>4, <2>1, <2>2, <1>1 DEF Inv, TypeOK, NothingDangles, InUse
    <3>2. \A g \in Hosts : Held(g)' => owner'[g] = "shim"
      BY <1>3, <2>1, <2>2 DEF Inv, TypeOK, NothingDangles
    <3> QED
      BY <3>1, <3>2 DEF NothingDangles, InUse
  <2>5. NothingLeaks'
    <3> SUFFICES ASSUME NEW g \in Hosts, owner'[g] = "shim", ~Held(g)
                 PROVE  InOneSlot(g)'
      BY <1>3, LeaksStep
    <3>1. g # host[to] /\ InOneSlot(g)
      BY <2>1, <2>2 DEF Inv, TypeOK, NothingLeaks
    <3>2. PICK s \in Slots : host[s] = g /\ \A r \in Slots : host[r] = g => r = s
      BY <3>1 DEF InOneSlot
    <3>3. CASE s = from
      BY <3>1, <3>2, <3>3, <1>4, Numbers DEF InOneSlot
    <3>4. CASE s # from
      BY <3>1, <3>2, <3>4, <1>4, Numbers DEF InOneSlot
    <3> QED
      BY <3>3, <3>4
  <2> QED
    BY <1>3, <1>5, <2>3, <2>4, <2>5 DEF Inv
<1>7. CASE ~(InUse(to) /\ Owned(to))
  <2>1. owner' = owner
    BY <1>7 DEF FdRenumber
  <2>2. InUse(to) => Held(host[to])
    BY <1>1, <1>7, HeldWhileUp DEF Inv, TypeOK, Shared, Owned, InUse
  <2>3. TypeOK'
    BY <1>1, <1>2, <2>1 DEF Inv, TypeOK
  <2>4. NothingDangles'
    BY <1>1, <1>2, <1>3, <1>4, <2>1 DEF Inv, NothingDangles, InUse
  <2>5. NothingLeaks'
    <3> SUFFICES ASSUME NEW g \in Hosts, owner'[g] = "shim", ~Held(g)
                 PROVE  InOneSlot(g)'
      BY <1>3, LeaksStep
    <3>1. g # host[to] /\ InOneSlot(g)
      BY <2>1, <2>2, Numbers DEF Inv, NothingLeaks, InUse
    <3>2. PICK s \in Slots : host[s] = g /\ \A r \in Slots : host[r] = g => r = s
      BY <3>1 DEF InOneSlot
    <3>3. CASE s = from
      BY <3>1, <3>2, <3>3, <1>4, Numbers DEF InOneSlot
    <3>4. CASE s # from
      BY <3>1, <3>2, <3>4, <1>4, Numbers DEF InOneSlot
    <3> QED
      BY <3>3, <3>4
  <2> QED
    BY <1>3, <1>5, <2>3, <2>4, <2>5 DEF Inv
<1> QED
  BY <1>6, <1>7

--------------------------------------------------------------------------------
\* dispose closes what only the slot at the cursor has, and frees the slot.
LEMMA DisposeSlotInv == ASSUME Inv, DisposeSlot PROVE Inv'
<1>1. /\ phase = "slots" /\ cursor \in Slots
      /\ host' = [host EXCEPT ![cursor] = Free]
      /\ cursor' = cursor + 1
      /\ UNCHANGED <<preopen, log, preopens, phase>>
  BY FdTableAssumption DEF Inv, TypeOK, DisposeSlot, Slots
<1> DEFINE file == host[cursor]
           alone == InUse(cursor) /\ file # log /\ ~IsPreopened(file)
<1>2. owner' = IF alone THEN [owner EXCEPT ![file] = "free"] ELSE owner
  BY DEF DisposeSlot, HostCloses
<1>3. \A g \in Hosts : (Held(g)' <=> Held(g)) /\ (Held(g) <=> g = log \/ IsPreopened(g))
  BY <1>1 DEF Held, IsPreopened
<1>4. alone => /\ file \in Hosts
               /\ ~Held(file)
               /\ \A r \in Slots : host[r] = file => r = cursor
  <2> SUFFICES ASSUME alone
               PROVE  /\ file \in Hosts
                      /\ ~Held(file)
                      /\ \A r \in Slots : host[r] = file => r = cursor
    OBVIOUS
  <2>1. file \in Hosts /\ ~Held(file)
    BY <1>1, <1>3 DEF Inv, TypeOK, InUse
  <2>2. InOneSlot(file)
    BY <1>1, <2>1 DEF Inv, NothingDangles, NothingLeaks
  <2> QED
    BY <1>1, <2>1, <2>2 DEF InOneSlot
<1>5. TypeOK'
  <2>1. owner' \in [Hosts -> {"free", "shim", "app"}]
    BY <1>2, <1>4 DEF Inv, TypeOK
  <2>2. host' \in [Slots -> Hosts \cup {Free}] /\ cursor' \in 0..MaxFds
    BY <1>1, FdTableAssumption DEF Inv, TypeOK, Slots
  <2> QED
    BY <1>1, <2>1, <2>2 DEF Inv, TypeOK
<1>6. Shared'
  BY <1>1 DEF Inv, TypeOK, Shared, InUse, IsPreopened
<1>7. Layout'
  BY <1>1 DEF Inv, TypeOK, Layout, InUse, Slots
<1>8. NothingDangles'
  <2>1. \A s \in Slots : host'[s] # Free => owner'[host'[s]] = "shim"
    BY <1>1, <1>2, <1>4 DEF Inv, TypeOK, NothingDangles, InUse
  <2>2. \A g \in Hosts : Held(g)' => owner'[g] = "shim"
    BY <1>2, <1>3, <1>4 DEF Inv, TypeOK, NothingDangles
  <2> QED
    BY <2>1, <2>2 DEF NothingDangles, InUse
<1>9. NothingLeaks'
  <2> SUFFICES ASSUME NEW g \in Hosts, owner'[g] = "shim", ~Held(g)
               PROVE  InOneSlot(g)'
    BY <1>3, LeaksStep
  <2>1. g # file /\ InOneSlot(g)
    BY <1>2, <1>3, Numbers DEF Inv, TypeOK, NothingLeaks, InUse
  <2> QED
    BY <2>1, <1>1, Numbers DEF Inv, TypeOK, InOneSlot
<1> QED
  BY <1>5, <1>6, <1>7, <1>8, <1>9 DEF Inv

\* When the slots are done, the preopen at the cursor is held once.
LEMMA DisposePreopenInv == ASSUME Inv, DisposePreopen PROVE Inv'
<1> DEFINE file == preopens[cursor + 1]
<1>1. /\ phase = "preopens"
      /\ cursor \in Nat /\ cursor + 1 \in 1..Len(preopens)
      /\ cursor' = cursor + 1
      /\ owner' = [owner EXCEPT ![file] = "free"]
      /\ UNCHANGED <<host, preopen, log, preopens, phase>>
  BY FdTableAssumption DEF Inv, TypeOK, DisposePreopen, HostCloses, table
<1>2. file \in Hosts /\ IsPreopened(file) /\ \A s \in Slots : ~InUse(s)
  BY <1>1 DEF Inv, TypeOK, Layout, IsPreopened
<1>3. \A g \in Hosts : Held(g)' <=> Held(g) /\ g # file
  BY <1>1, <1>2 DEF Inv, Shared, IsPreopened, Held
<1>4. TypeOK'
  BY <1>1, <1>2, FdTableAssumption DEF Inv, TypeOK, Preopened
<1>5. Shared'
  BY <1>1 DEF Inv, Shared, InUse, IsPreopened
<1>6. Layout'
  BY <1>1 DEF Inv, TypeOK, Layout, InUse
<1>7. NothingDangles'
  BY <1>1, <1>2, <1>3 DEF Inv, TypeOK, NothingDangles, InUse
<1>8. NothingLeaks'
  <2> SUFFICES ASSUME NEW g \in Hosts, owner'[g] = "shim" PROVE Held(g)'
    BY LeaksStep
  <2>1. owner[g] = "shim" /\ g # file
    BY <1>1, <1>2 DEF Inv, TypeOK
  <2>2. ~InOneSlot(g)
    BY <1>2, Numbers DEF InOneSlot, InUse
  <2> QED
    BY <2>1, <2>2, <1>3 DEF Inv, NothingLeaks
<1> QED
  BY <1>4, <1>5, <1>6, <1>7, <1>8 DEF Inv

\* The log is closed last, and nothing is left.
LEMMA DisposeLogInv == ASSUME Inv, DisposeLog PROVE Inv'
<1>1. /\ phase = "last" /\ phase' = "down"
      /\ log' = Free /\ preopens' = <<>>
      /\ owner' = IF log # Free THEN [owner EXCEPT ![log] = "free"] ELSE owner
      /\ UNCHANGED <<host, preopen, cursor>>
      /\ \A s \in Slots : host[s] = Free
  BY DEF Inv, Layout, DisposeLog, HostCloses, InUse
<1>2. \A g \in Hosts : (Held(g) <=> g = log) /\ ~Held(g)'
  BY <1>1, Numbers DEF Held
<1>3. TypeOK'
  BY <1>1 DEF Inv, TypeOK, Preopened
<1>4. Shared' /\ Layout'
  BY <1>1 DEF Inv, TypeOK, Shared, Layout, InUse, IsPreopened
<1>5. NothingDangles'
  BY <1>1, <1>2 DEF NothingDangles, InUse
<1>6. NothingLeaks'
  <2> SUFFICES ASSUME NEW g \in Hosts, owner'[g] = "shim" PROVE FALSE
    BY LeaksStep
  <2>1. owner[g] = "shim" /\ g # log
    BY <1>1, Numbers DEF Inv, TypeOK
  <2>2. ~Held(g) /\ ~InOneSlot(g)
    BY <1>1, <1>2, <2>1, Numbers DEF InOneSlot
  <2> QED
    BY <2>1, <2>2 DEF Inv, NothingLeaks
<1> QED
  BY <1>3, <1>4, <1>5, <1>6 DEF Inv

--------------------------------------------------------------------------------
\* The rest of the process opens what is free and closes what it opened.
LEMMA AppInv ==
  ASSUME Inv, NEW h \in Hosts, AppOpens(h) \/ AppCloses(h) PROVE Inv'
<1>1. /\ owner[h] # "shim"
      /\ \E x \in {"free", "app"} : owner' = [owner EXCEPT ![h] = x]
      /\ UNCHANGED <<host, preopen, log, preopens, phase, cursor>>
  BY DEF AppOpens, AppCloses, Lowest, HostCloses, table
<1>2. \A g \in Hosts : owner'[g] = "shim" <=> owner[g] = "shim"
  BY <1>1 DEF Inv, TypeOK
<1>3. \A g \in Hosts : (Held(g)' <=> Held(g)) /\ (InOneSlot(g)' <=> InOneSlot(g))
  BY <1>1 DEF Held, InOneSlot
<1>4. TypeOK'
  BY <1>1 DEF Inv, TypeOK
<1>5. Shared' /\ Layout'
  BY <1>1 DEF Inv, Shared, Layout, InUse, IsPreopened
<1>6. NothingDangles'
  BY <1>1, <1>2, <1>3 DEF Inv, TypeOK, NothingDangles, InUse
<1>7. NothingLeaks'
  BY <1>2, <1>3 DEF Inv, NothingLeaks
<1> QED
  BY <1>4, <1>5, <1>6, <1>7 DEF Inv

--------------------------------------------------------------------------------
\* Every step of init, of the guest, of dispose and of the rest of the process
\* keeps Inv.
LEMMA NextInv == Inv /\ [Next]_vars => Inv'
<1> SUFFICES ASSUME Inv, [Next]_vars PROVE Inv'
  OBVIOUS
<1>1. CASE InitStep
  BY <1>1, InitStartsInv, QuietInv, InitLogInv, InitPreopenInv, InitStdioInv
     DEF InitStep
<1>2. CASE GuestStep
  BY <1>2, PathOpenInv, FdCloseInv, FdRenumberInv DEF GuestStep
<1>3. CASE DisposeStep
  BY <1>3, QuietInv, DisposeSlotInv, DisposePreopenInv, DisposeLogInv
     DEF DisposeStep
<1>4. CASE AppStep
  BY <1>4, AppInv DEF AppStep
<1>5. CASE UNCHANGED vars
  BY <1>5 DEF vars, Inv, TypeOK, Shared, Layout, NothingDangles, NothingLeaks,
              Held, InOneSlot, IsPreopened, InUse
<1> QED
  BY <1>1, <1>2, <1>3, <1>4, <1>5 DEF Next

\* Inv holds in every state, for every size of the table and of the process.
THEOREM AlwaysInv == Spec => []Inv
BY InitInv, NextInv, PTL DEF Spec

\* The types and bounds hold: dispose never runs past the table.
THEOREM TypeCorrect == Spec => []TypeOK
<1>1. Inv => TypeOK
  BY DEF Inv
<1> QED
  BY <1>1, AlwaysInv, PTL

\* No slot, preopen or log ever refers to a descriptor that was closed.
THEOREM ReferencesStayOpen == Spec => []NothingDangles
<1>1. Inv => NothingDangles
  BY DEF Inv
<1> QED
  BY <1>1, AlwaysInv, PTL

\* Every file the shim has open can still be closed, and dispose closes all.
THEOREM FilesAreReleased == Spec => []NothingLeaks
<1>1. Inv => NothingLeaks
  BY DEF Inv
<1> QED
  BY <1>1, AlwaysInv, PTL

\* A step of the shim changes the owner of a descriptor only if it is free or
\* the shim's own.
LEMMA ShimLeavesApp ==
  ASSUME Inv, Next, NEW h \in Hosts, owner[h] = "app"
  PROVE  owner'[h] = "app" \/ AppCloses(h)
<1>1. CASE InitStep
  BY <1>1 DEF Inv, TypeOK, InitStep, InitStarts, InitFails, InitLog,
     InitPreopen,
              InitStdio, Lowest, HostOpens
<1>2. CASE GuestStep
  <2>1. CASE \E d \in Slots, g \in Hosts : PathOpen(d, g)
    BY <2>1 DEF Inv, TypeOK, PathOpen, Lowest, HostOpens
  <2>2. ASSUME NEW s \in Slots, FdClose(s) PROVE owner'[h] = "app"
    BY <2>2 DEF Inv, TypeOK, NothingDangles, FdClose, HostCloses
  <2>3. ASSUME NEW from \in Slots, NEW to \in Slots, FdRenumber(from, to)
        PROVE  owner'[h] = "app"
    BY <2>3 DEF Inv, TypeOK, NothingDangles, FdRenumber, HostCloses
  <2> QED
    BY <1>2, <2>1, <2>2, <2>3 DEF GuestStep
<1>3. CASE DisposeStep
  <2>1. CASE DisposeStarts \/ SlotsDone \/ PreopensDone
    BY <2>1 DEF DisposeStarts, SlotsDone, PreopensDone
  <2>2. CASE DisposeSlot
    <3>1. cursor \in Slots
      BY <2>2, FdTableAssumption DEF Inv, TypeOK, DisposeSlot, Slots
    <3> QED
      BY <2>2, <3>1 DEF Inv, TypeOK, NothingDangles, DisposeSlot, HostCloses
  <2>3. CASE DisposePreopen
    <3>1. /\ cursor + 1 \in 1..Len(preopens) /\ cursor + 1 > cursor
          /\ preopens[cursor + 1] \in Hosts
      BY <2>3, FdTableAssumption DEF Inv, TypeOK, DisposePreopen
    <3>2. owner[preopens[cursor + 1]] = "shim"
      BY <2>3, <3>1 DEF Inv, NothingDangles, Held, DisposePreopen
    <3> QED
      BY <2>3, <3>2 DEF Inv, TypeOK, DisposePreopen, HostCloses
  <2>4. CASE DisposeLog
    BY <2>4 DEF Inv, TypeOK, NothingDangles, Held, DisposeLog, HostCloses
  <2> QED
    BY <1>3, <2>1, <2>2, <2>3, <2>4 DEF DisposeStep
<1>4. CASE AppStep
  BY <1>4 DEF Inv, TypeOK, AppStep, AppOpens, AppCloses, Lowest, HostCloses
<1> QED
  BY <1>1, <1>2, <1>3, <1>4 DEF Next

\* The shim never closes a descriptor that the rest of the process opened, also
\* when it reuses a number the shim had before.
THEOREM AppIsSafe == Spec => AppKeepsItsFiles
<1>1. Inv /\ [Next]_vars =>
        [\A h \in Hosts : owner[h] = "app" => owner'[h] = "app" \/ AppCloses(h)]_vars
  BY ShimLeavesApp DEF vars
<1> QED
  BY <1>1, AlwaysInv, PTL DEF Spec, AppKeepsItsFiles
================================================================================
