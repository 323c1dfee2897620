----------------------------- MODULE WirePumpProofs -----------------------------
(***************************************************************************)
(* Proofs about WirePump, for every idle limit, reply length and number of *)
(* calls.                                                                  *)
(***************************************************************************)
EXTENDS WirePump, SequenceTheorems, TLAPS

Units == Seq(UnitType)

--------------------------------------------------------------------------------
(***************************************************************************)
(* The reply stream.                                                       *)
(***************************************************************************)

\* A reply body is a sequence of units none of which completes ReadyForQuery.
LEMMA BodyFacts ==
  ASSUME NEW x \in Nat, NEW b \in Nat
  PROVE  /\ Body(x, b) \in Units
         /\ Len(Body(x, b)) = b
         /\ \A i \in 1..b : ~Body(x, b)[i].rfq
  BY DEF Body, Unit, UnitType, Units

\* ReadyForQuery is two units, and only the second one completes it.
LEMMA RfqFacts ==
  ASSUME NEW x \in Nat, NEW b \in Nat
  PROVE  /\ Rfq(x, b) \in Units
         /\ Len(Rfq(x, b)) = 2
         /\ Rfq(x, b)[1].rfq = FALSE
  BY DEF Rfq, Unit, UnitType, Units

\* In every reply a complete ReadyForQuery is the very last thing.
LEMMA RfqComesLast ==
  ASSUME NEW x \in Nat, NEW k \in Kinds, NEW r \in Service!Replies(x, k)
  PROVE  /\ r \in Units
         /\ \A i \in 1..Len(r) : r[i].rfq => i = Len(r)
<1>. USE WirePumpAssumption
<1>1. CASE r \in Service!WholeReplies(x)
  <2>1. PICK b \in 0..MaxBody : r = Body(x, b) \o Rfq(x, b)
    BY <1>1 DEF Service!WholeReplies, Service!Body, Service!Rfq, Service!Unit,
                Body, Rfq, Unit
  <2>. b \in Nat
    BY DEF WirePumpAssumption
  <2>. DEFINE f == Body(x, b)
              g == Rfq(x, b)
  <2>a. f \in Seq(UnitType) /\ g \in Seq(UnitType) /\ Len(f) = b /\ Len(g) = 2
    BY BodyFacts, RfqFacts DEF Units
  <2>b. g[1].rfq = FALSE /\ \A i \in 1..b : ~f[i].rfq
    BY BodyFacts, RfqFacts
  <2>. HIDE DEF f, g
  <2>2. /\ r \in Units
        /\ Len(r) = b + 2
        /\ \A i \in 1..(b + 2) :
             r[i] = IF i <= b THEN f[i] ELSE g[i - b]
    <3>1. r = f \o g
      BY <2>1 DEF f, g, Body, Rfq
    <3>2. /\ f \o g \in Seq(UnitType)
          /\ Len(f \o g) = Len(f) + Len(g)
          /\ \A i \in 1..(Len(f) + Len(g)) :
               (f \o g)[i] = IF i <= Len(f) THEN f[i] ELSE g[i - Len(f)]
      BY <2>a, ConcatProperties
    <3>. QED
      BY <2>a, <3>1, <3>2 DEF Units
  <2>3. ASSUME NEW i \in 1..Len(r), i # Len(r)
        PROVE  ~r[i].rfq
    <3>1. CASE i <= b
      BY <2>2, <2>3, <3>1, <2>b
    <3>2. CASE i = b + 1
      <4>1. r[i] = g[1]
        BY <2>2, <2>3, <3>2
      <4>. QED
        BY <4>1, <2>b
    <3>. QED
      BY <2>2, <2>3, <3>1, <3>2
  <2>. QED
    BY <2>2, <2>3
<1>2. CASE r \in Service!BareReplies(x)
  <2>1. PICK b \in 0..MaxBody : r = Body(x, b)
    BY <1>2 DEF Service!BareReplies, Service!Body, Service!Unit, Body, Unit
  <2>. b \in Nat
    BY DEF WirePumpAssumption
  <2>. QED
    BY <2>1, BodyFacts
<1>. QED
  BY <1>1, <1>2 DEF Service!Replies

\* What a tick emits through the CMA, what it spills and what it keeps back is
\* all there is, in order.
LEMMA CutIsWhole ==
  ASSUME NEW p \in Units, NEW i \in 0..Len(p), NEW j \in i..Len(p)
  PROVE  /\ SubSeq(p, 1, i) \in Units
         /\ SubSeq(p, i + 1, j) \in Units
         /\ SubSeq(p, j + 1, Len(p)) \in Units
         /\ SubSeq(p, 1, i) \o (SubSeq(p, i + 1, j) \o SubSeq(p, j + 1, Len(p)))
              = p
<1>1. /\ SubSeq(p, 1, i) \in Units
      /\ SubSeq(p, i + 1, j) \in Units
      /\ SubSeq(p, j + 1, Len(p)) \in Units
  BY DEF Units
<1>2. SubSeq(p, i + 1, j) \o SubSeq(p, j + 1, Len(p)) = SubSeq(p, i + 1, Len(p))
  <2>1. /\ i + 1 \in 1..(Len(p) + 1)
        /\ j \in ((i + 1) - 1)..Len(p)
        /\ Len(p) \in j..Len(p)
    BY DEF Units
  <2>. QED
    BY <2>1, ConcatAdjacentSubSeq DEF Units
<1>3. SubSeq(p, 1, i) \o SubSeq(p, i + 1, Len(p)) = SubSeq(p, 1, Len(p))
  <2>1. /\ 1 \in 1..(Len(p) + 1)
        /\ i \in (1 - 1)..Len(p)
        /\ Len(p) \in i..Len(p)
    BY DEF Units
  <2>. QED
    BY <2>1, ConcatAdjacentSubSeq DEF Units
<1>. QED
  BY <1>1, <1>2, <1>3, SubSeqFull DEF Units
\* What a tick produces is part of the reply stream.
LEMMA TickOutput ==
  ASSUME TypeOK, NEW b \in 0..MaxBody, NEW ask \in Asks
  PROVE  /\ Produced(b) \in Units
         /\ Deferred(b, ask) \in Units
         /\ owed \o due \o Produced(b) \in Units
<1>1. b \in Nat /\ xid \in Nat
  BY WirePumpAssumption DEF WirePumpAssumption, TypeOK
<1>2. Body(xid, b) \in Units /\ Rfq(xid, b) \in Units
  BY <1>1, BodyFacts, RfqFacts
<1>. HIDE DEF Units
<1>3. <<>> \in Units /\ \A s, t \in Units : s \o t \in Units
  BY ConcatProperties, EmptySeq DEF Units
<1>4. owed \in Units /\ due \in Units
  BY DEF TypeOK, Units
<1>. QED
  BY <1>2, <1>3, <1>4 DEF Produced, Deferred

--------------------------------------------------------------------------------
(***************************************************************************)
(* Type correctness.                                                       *)
(***************************************************************************)

TypeInv ==
  /\ TypeOK
  /\ pc \in {"tick", "flush", "drain"} => idle < IdleLimit

\* Every step of the bridge and of the engine keeps the types and the bounds.
LEMMA TypeInvStep == TypeInv /\ [Next]_vars => TypeInv'
<1>. SUFFICES ASSUME TypeInv, [Next]_vars
              PROVE  TypeInv'
  OBVIOUS
<1>. USE WirePumpAssumption DEF WirePumpAssumption, TypeInv
<1>e. <<>> \in Seq(UnitType)
  OBVIOUS
<1>1. CASE Publish
  BY <1>1, <1>e DEF Publish, TypeOK
<1>2. CASE Continue
  BY <1>2 DEF Continue, Finished, TypeOK, engine
<1>3. CASE Finish
  <2>1. phase' \in Phases
    <3>1. AuthType \in {"ok", "password", "other"}
      BY DEF AuthType, TypeOK, Asks
    <3>2. AfterStartup \in Phases
      BY <3>1 DEF AfterStartup, Phases
    <3>3. AfterReply \in Phases
      BY <3>2 DEF AfterReply, TypeOK, Phases
    <3>. QED
      BY <1>3, <3>3 DEF Finish
  <2>. QED
    BY <1>3, <2>1 DEF Finish, TypeOK, engine
<1>4. CASE InteractiveOne
  <2>1. PICK b \in 0..MaxBody, ask \in Asks :
          LET pending == owed \o due \o Produced(b)
          IN \E i \in 0..Len(pending) : \E j \in i..Len(pending) :
               Emit(pending, Deferred(b, ask), i, j)
    BY <1>4 DEF InteractiveOne
  <2>. DEFINE pending == owed \o due \o Produced(b)
              later   == Deferred(b, ask)
  <2>2. pending \in Units /\ later \in Units
    BY TickOutput
  <2>3. PICK i \in 0..Len(pending) : \E j \in i..Len(pending) :
          Emit(pending, later, i, j)
    BY <2>1
  <2>. HIDE DEF pending, later
  <2>4. PICK j \in i..Len(pending) : Emit(pending, later, i, j)
    BY <2>3
  <2>5. /\ cma' \in Seq(UnitType)
        /\ spill' \in Seq(UnitType)
        /\ owed' \in Seq(UnitType)
        /\ due' \in Seq(UnitType)
    BY <2>2, <2>4, CutIsWhole DEF Emit, Units, TypeOK
  <2>6. authBusy' \in BOOLEAN /\ silent' \in 0..MaxSilent
    <3>. DEFINE stalls == j = 0 /\ pending \o later # <<>>
    <3>1. /\ authBusy' \in BOOLEAN
          /\ stalls => silent < MaxSilent
          /\ silent' = IF stalls THEN silent + 1 ELSE 0
      BY <2>4 DEF Emit
    <3>. HIDE DEF stalls
    <3>. QED
      BY <3>1 DEF TypeOK
  <2>7. /\ pc = "tick" /\ pc' = "flush" /\ published' = FALSE
        /\ UNCHANGED <<phase, kind, xid, buf, idle, dead, result, health>>
        /\ challenge' \in Asks
    BY <1>4 DEF InteractiveOne, TypeOK
  <2>. QED
    BY <2>5, <2>6, <2>7 DEF TypeOK
<1>5. CASE WasipgFlush
  <2>1. owed \o due \in Seq(UnitType)
    BY ConcatProperties DEF TypeOK
  <2>2. /\ spill' \in Seq(UnitType) /\ owed' \in Seq(UnitType)
        /\ due' \in Seq(UnitType) /\ silent' \in 0..MaxSilent
    <3>1. CASE health = "up" /\ due # <<>> /\ ~authBusy
      <4>1. spill' = owed \o due /\ owed' = <<>> /\ due' = <<>> /\ silent' = 0
        BY <1>5, <3>1 DEF WasipgFlush
      <4>. QED
        BY <1>e, <2>1, <4>1
    <3>2. CASE ~(health = "up" /\ due # <<>> /\ ~authBusy)
      BY <1>5, <3>2 DEF WasipgFlush, TypeOK
    <3>. QED
      BY <3>1, <3>2
  <2>3. /\ pc = "flush" /\ pc' = "drain"
        /\ UNCHANGED <<phase, kind, xid, buf, idle, dead, result, published, cma,
                       authBusy, challenge, health>>
    BY <1>5 DEF WasipgFlush
  <2>. QED
    BY <2>2, <2>3 DEF TypeOK
<1>6. CASE Drain
  <2>1. PICK fault \in {"none"} \cup (Faults \cap {"channel", "keep", "lose"}) :
          DrainWith(fault)
    BY <1>6 DEF Drain
  <2>. DEFINE fromCma  == IF fault = "channel" THEN <<>> ELSE cma
              fromFile == IF fault \in {"keep", "lose"} THEN <<>> ELSE spill
  <2>2. fromCma \in Seq(UnitType) /\ fromFile \in Seq(UnitType)
    BY <1>e DEF TypeOK
  <2>3. buf \in Seq(UnitType)
    BY DEF TypeOK
  <2>4. buf' = buf \o (fromCma \o fromFile)
    BY <2>1 DEF DrainWith
  <2>. HIDE DEF fromCma, fromFile
  <2>5. buf' \in Seq(UnitType)
    BY <2>2, <2>3, <2>4, ConcatProperties
  <2>. QED
    BY <1>6, <2>1, <2>5, <1>e DEF Drain, DrainWith, TypeOK
<1>7. CASE DrainOutOfMemory
  BY <1>7, <1>e DEF DrainOutOfMemory, GiveUp, TypeOK, engine, Phases
<1>8. CASE Trap
  BY <1>8, <1>e DEF Trap, GiveUp, TypeOK, Phases
<1>9. CASE ProcExit
  BY <1>9 DEF ProcExit, TypeOK
<1>10. CASE TickOfStopped
  BY <1>10 DEF TickOfStopped, TypeOK, engine
<1>11. CASE Boot
  BY <1>11 DEF Boot, TypeOK, engine, Phases
<1>12. CASE BootTrap
  BY <1>12 DEF BootTrap, TypeOK, Phases
<1>13. CASE BootExchange
  BY <1>13, <1>e DEF BootExchange, Begin, TypeOK, engine, Kinds
<1>14. CASE Checkpoint
  BY <1>14, <1>e DEF Checkpoint, Begin, TypeOK, engine, Kinds
<1>15. ASSUME NEW k \in {"query", "partial"}, Request(k)
       PROVE  TypeInv'
  BY <1>15, <1>e DEF Request, Begin, TypeOK, engine, Kinds
<1>16. CASE RequestRefused
  BY <1>16, <1>e DEF RequestRefused, GiveUp, TypeOK, engine, Phases
<1>17. CASE Close
  BY <1>17 DEF Close, TypeOK, engine, Phases
<1>18. CASE NoMemory
  BY <1>18, <1>e DEF NoMemory, GiveUp, TypeOK, engine, Phases
<1>19. CASE OpenFails
  BY <1>19 DEF OpenFails, TypeOK, engine, Phases
<1>20. CASE BootExit
  BY <1>20 DEF BootExit, TypeOK, Phases
<1>21. CASE UNCHANGED vars
  BY <1>21 DEF vars, bridge, engine, TypeOK
<1>. QED
  BY <1>1, <1>2, <1>3, <1>4, <1>5, <1>6, <1>7, <1>8, <1>9, <1>10, <1>11, <1>12,
     <1>13, <1>14, <1>15, <1>16, <1>17, <1>18, <1>19, <1>20, <1>21
     DEF Next, BridgeStep, ExchangeStep, Caller

\* The types hold before pgl_open has done anything.
LEMMA TypeInvInit == Init => TypeInv
<1>1. ASSUME Init
      PROVE  TypeInv
  <2>1. <<>> \in Seq(UnitType)
    OBVIOUS
  <2>2. 0 \in 0..IdleLimit /\ 0 \in 0..MaxSilent
    BY WirePumpAssumption DEF WirePumpAssumption
  <2>3. /\ buf \in Seq(UnitType) /\ cma \in Seq(UnitType)
        /\ spill \in Seq(UnitType) /\ owed \in Seq(UnitType)
        /\ due \in Seq(UnitType)
    BY <1>1, <2>1 DEF Init
  <2>4. /\ dead \in BOOLEAN /\ published \in BOOLEAN
        /\ authBusy \in BOOLEAN /\ challenge \in Asks
    BY <1>1 DEF Init, Asks
  <2>5. /\ xid \in Nat /\ idle \in 0..IdleLimit /\ silent \in 0..MaxSilent
    BY <1>1, <2>2 DEF Init
  <2>6. /\ phase = "boot" /\ pc = "idle" /\ kind = "startup"
        /\ result = "none" /\ health = "up"
    BY <1>1 DEF Init
  <2>. QED
    BY <2>3, <2>4, <2>5, <2>6 DEF TypeInv, TypeOK, Phases, Kinds
<1>. QED
  BY <1>1

\* Every state of the bridge and its engine is well typed: the idle count never
\* passes the limit, and no channel holds anything but reply units.
THEOREM TypeCorrect == Spec => []TypeOK
<1>1. TypeInv => TypeOK
  BY DEF TypeInv
<1>. QED
  BY <1>1, TypeInvInit, TypeInvStep, PTL DEF Spec, Safety

--------------------------------------------------------------------------------
(***************************************************************************)
(* Exact delivery.  Nothing is lost as long as the bytes of the reply,     *)
(* taken in the order buffer, CMA, spill file, engine, deferred            *)
(* ReadyForQuery, are one whole reply throughout the exchange.  The        *)
(* exchange may stop on its idle count only because that count never       *)
(* passes the engine's own count of silent ticks while bytes are owed.     *)
(***************************************************************************)
InFlight == buf \o (cma \o (spill \o (owed \o due)))

Running == pc \in {"loop", "tick", "flush", "drain"}

DeadIsClosed   == dead => pc = "idle" /\ phase = "closed"
UpWhileAlive   == ~dead => health = "up"
CleanOutside   == (pc \in {"idle", "publish"} /\ ~dead) =>
                    /\ ~published
                    /\ cma = <<>> /\ spill = <<>> /\ owed = <<>> /\ due = <<>>
FreshStart     == pc = "publish" => buf = <<>> /\ idle = 0
DrainedAtHead  == pc \in {"loop", "tick"} => cma = <<>> /\ spill = <<>>
TakenByTick    == pc \in {"flush", "drain"} => ~published
NotYetTaken    == (Running /\ published) =>
                    buf = <<>> /\ owed = <<>> /\ due = <<>> /\ idle = 0
Conserved      == (Running /\ ~published) =>
                    InFlight \in Service!Replies(xid, kind)
FlushIsAlone   == (pc = "flush" /\ due # <<>>) => spill = <<>>
PatientAtHead  == (pc \in {"loop", "tick"} /\ owed \o due # <<>>) =>
                    idle <= silent
PatientInTick  == (pc \in {"flush", "drain"} /\ cma = <<>> /\ spill = <<>>
                     /\ owed \o due # <<>>) => idle < silent
Delivered      == result = "reply" =>
                    pc = "idle" /\ buf \in Service!Replies(xid, kind)

DeliveryInv ==
  /\ DeadIsClosed /\ UpWhileAlive /\ CleanOutside /\ FreshStart
  /\ DrainedAtHead /\ TakenByTick /\ NotYetTaken /\ Conserved /\ FlushIsAlone
  /\ PatientAtHead /\ PatientInTick /\ Delivered

\* Prepending nothing, in the shapes the steps below need it.
LEMMA Concats ==
  /\ <<>> \in Units
  /\ \A s \in Units : <<>> \o s = s /\ s \o <<>> = s
  /\ \A s, t \in Units : s \o t \in Units
  /\ \A s, t, u \in Units : (s \o t) \o u = s \o (t \o u)
  /\ \A s, t \in Units : s \o t = <<>> <=> (s = <<>> /\ t = <<>>)
<1>1. <<>> \in Units
  BY DEF Units
<1>2. \A s \in Units : <<>> \o s = s /\ s \o <<>> = s
  BY ConcatEmptySeq DEF Units
<1>3. \A s, t \in Units : s \o t \in Units
  BY ConcatProperties DEF Units
<1>4. \A s, t, u \in Units : (s \o t) \o u = s \o (t \o u)
  BY ConcatAssociative DEF Units
<1>5. \A s, t \in Units : s \o t = <<>> <=> (s = <<>> /\ t = <<>>)
  BY ConcatEqualIffEmpty DEF Units
<1>. QED
  BY <1>1, <1>2, <1>3, <1>4, <1>5

\* Concatenation under a name of its own: the provers instantiate facts about
\* nested applications of an operator, but not of the infix symbol.
Cat(s, t) == s \o t

\* Concatenation is associative and has the empty reply as its unit.
LEMMA CatFacts ==
  /\ \A s, t \in Units : Cat(s, t) \in Units
  /\ \A s, t, u \in Units : Cat(Cat(s, t), u) = Cat(s, Cat(t, u))
  BY Concats DEF Cat

\* Associativity, for the three pieces of a reply and what is deferred.
LEMMA FourCats ==
  ASSUME NEW a \in Units, NEW b \in Units, NEW c \in Units, NEW d \in Units
  PROVE  Cat(Cat(a, Cat(b, c)), d) = Cat(a, Cat(b, Cat(c, d)))
<1> HIDE DEF Units
<1> DEFINE bc == Cat(b, c)
<1>1. bc \in Units
  BY CatFacts
<1>2. Cat(bc, d) = Cat(b, Cat(c, d))
  BY CatFacts
<1> HIDE DEF bc
<1>3. Cat(Cat(a, bc), d) = Cat(a, Cat(bc, d))
  BY <1>1, CatFacts
<1>. QED
  BY <1>2, <1>3 DEF bc

OnlySafeFaults == Faults \subseteq {"trap", "append"}
Patient        == MaxSilent < IdleLimit

\* A tick that takes the request turns it into one whole reply.
LEMMA RequestBecomesReply ==
  ASSUME OnlySafeFaults, TypeOK, published,
         NEW b \in 0..MaxBody, NEW ask \in Asks
  PROVE  Produced(b) \o Deferred(b, ask) \in Service!Replies(xid, kind)
<1>1. b \in Nat /\ xid \in Nat
  BY WirePumpAssumption DEF WirePumpAssumption, TypeOK
<1>2. /\ Body(xid, b) \in Units /\ Rfq(xid, b) \in Units
      /\ <<>> \in Units
      /\ \A s \in Units : <<>> \o s = s /\ s \o <<>> = s
      /\ \A s, t \in Units : s \o t \in Units
  BY <1>1, BodyFacts, RfqFacts, Concats
<1>3. /\ Body(xid, b) \o Rfq(xid, b) \in Service!WholeReplies(xid)
      /\ Body(xid, b) \in Service!BareReplies(xid)
  BY DEF Service!WholeReplies, Service!BareReplies, Service!Body, Service!Rfq,
         Service!Unit, Body, Rfq, Unit
<1>a. challenge # "other" /\ ask \in {"ok", "password"}
  BY DEF OnlySafeFaults, TypeOK, Asks
<1>. HIDE DEF Units
<1>4. CASE kind = "query"
  <2>1. Produced(b) \o Deferred(b, ask) = Body(xid, b) \o Rfq(xid, b)
    BY <1>2, <1>4, <1>a DEF Produced, Deferred
  <2>. QED
    BY <1>3, <2>1 DEF Service!Replies
<1>5. CASE kind = "password" \/ (kind = "startup" /\ ask = "ok")
  <2>1. Produced(b) \o Deferred(b, ask) = Body(xid, b) \o Rfq(xid, b)
    BY <1>2, <1>5 DEF Produced, Deferred
  <2>. QED
    BY <1>3, <2>1 DEF Service!Replies
<1>6. CASE kind = "partial" \/ (kind = "startup" /\ ask = "password")
  <2>1. Produced(b) \o Deferred(b, ask) = Body(xid, b)
    BY <1>2, <1>6 DEF Produced, Deferred
  <2>. QED
    BY <1>3, <1>6, <2>1 DEF Service!Replies, Terminated
<1>. QED
  BY <1>4, <1>5, <1>6, <1>a DEF TypeOK, Kinds

\* The loop ends only with the whole reply in the buffer and nothing left over.
LEMMA FinishIsExact ==
  ASSUME TypeInv, DeliveryInv, MaxSilent < IdleLimit, pc = "loop", Finished
  PROVE  /\ ~published
         /\ buf \in Service!Replies(xid, kind)
         /\ owed = <<>> /\ due = <<>>
<1>. USE WirePumpAssumption DEF WirePumpAssumption
<1>1. /\ buf \in Units /\ owed \in Units /\ due \in Units
      /\ owed \o due \in Units
  BY Concats DEF TypeInv, TypeOK, Units
<1>2. ~published
  <2>1. SUFFICES ASSUME published PROVE FALSE
    OBVIOUS
  <2>2. buf = <<>> /\ idle = 0
    BY <2>1 DEF DeliveryInv, NotYetTaken, Running
  <2>. QED
    BY <2>2 DEF Finished, HasRfq
<1>3. cma = <<>> /\ spill = <<>>
  BY DEF DeliveryInv, DrainedAtHead
<1>4. buf \o (owed \o due) \in Service!Replies(xid, kind)
  <2>1. InFlight \in Service!Replies(xid, kind)
    BY <1>2 DEF DeliveryInv, Conserved, Running
  <2>. QED
    BY <1>1, <1>3, <2>1, Concats DEF InFlight
<1>5. owed \o due = <<>>
  <2>1. CASE idle >= IdleLimit
    BY <2>1 DEF DeliveryInv, PatientAtHead, TypeInv, TypeOK
  <2>2. CASE HasRfq(buf)
    <3>. DEFINE rest == owed \o due
                r    == buf \o rest
    <3>1. rest \in Units /\ buf \in Units
      BY <1>1
    <3>2. PICK i \in 1..Len(buf) : buf[i].rfq
      BY <2>2 DEF HasRfq
    <3>3. r \in Service!Replies(xid, kind)
      BY <1>4
    <3>. HIDE DEF rest, r
    <3>4. \A n \in 1..Len(r) : r[n].rfq => n = Len(r)
      BY <3>3, RfqComesLast DEF TypeInv, TypeOK
    <3>5. /\ Len(r) = Len(buf) + Len(rest)
          /\ r[i] = buf[i]
      <4>1. r = buf \o rest
        BY DEF r
      <4>. QED
        BY <3>1, <3>2, <4>1, ConcatProperties DEF Units
    <3>6. Len(rest) = 0
      <4>1. Len(rest) \in Nat /\ Len(buf) \in Nat
        BY <3>1 DEF Units
      <4>. QED
        BY <3>2, <3>4, <3>5, <4>1
    <3>7. rest = <<>>
      BY <3>1, <3>6 DEF Units
    <3>. QED
      BY <3>7 DEF rest
  <2>. QED
    BY <2>1, <2>2 DEF Finished
<1>6. owed = <<>> /\ due = <<>>
  BY <1>1, <1>5, Concats
<1>. QED
  BY <1>1, <1>2, <1>4, <1>6, Concats

\* The channels after a tick hold what was pending and what is deferred; a tick
\* that yields nothing although bytes are owed counts as silent.
LEMMA EmitFacts ==
  ASSUME TypeOK, cma = <<>>, spill = <<>>,
         NEW p \in Units, NEW l \in Units,
         NEW i \in 0..Len(p), NEW j \in i..Len(p), Emit(p, l, i, j)
  PROVE  /\ cma' \in Units /\ spill' \in Units
         /\ owed' \in Units /\ due' \in Units
         /\ cma' \o (spill' \o (owed' \o due')) = p \o l
         /\ due' # <<>> => spill' = <<>>
         /\ (cma' = <<>> /\ spill' = <<>> /\ owed' \o due' # <<>>) =>
              (p \o l # <<>> /\ silent' = silent + 1)
<1>1. /\ Len(p) \in Nat /\ i \in Nat /\ j \in Nat /\ i <= j /\ j <= Len(p)
  BY DEF Units
<1>2. PICK first \in Units, file \in Units, rest \in Units :
        /\ first = SubSeq(p, 1, i)
        /\ file = SubSeq(p, i + 1, j)
        /\ rest = SubSeq(p, j + 1, Len(p))
        /\ first \o (file \o rest) = p
  BY CutIsWhole
<1>3. Len(first) = i /\ Len(file) = j - i
  BY <1>1, <1>2 DEF Units
<1>4. cma' = first
  <2>1. CASE i > 0
    BY <1>2, <2>1 DEF Emit
  <2>2. CASE i = 0
    <3>1. cma' = <<>>
      BY <2>2 DEF Emit
    <3>2. first = <<>>
      BY <1>2, <1>3, <2>2 DEF Units
    <3>. QED
      BY <3>1, <3>2
  <2>. QED
    BY <1>1, <2>1, <2>2
<1>5. spill' = file
  <2>1. CASE j > i
    BY <1>2, <2>1 DEF Emit
  <2>2. CASE j = i
    <3>1. spill' = <<>>
      BY <2>2 DEF Emit
    <3>2. file = <<>>
      BY <1>2, <1>3, <2>2 DEF Units
    <3>. QED
      BY <3>1, <3>2
  <2>. QED
    BY <1>1, <2>1, <2>2
<1>6. owed' = rest /\ due' = l
  BY <1>2 DEF Emit
<1>7. cma' \o (spill' \o (owed' \o due')) = p \o l
  <2>1. Cat(first, Cat(file, rest)) = p
    BY <1>2 DEF Cat
  <2>2. Cat(p, l) = Cat(first, Cat(file, Cat(rest, l)))
    <3>1. Cat(Cat(first, Cat(file, rest)), l)
            = Cat(first, Cat(file, Cat(rest, l)))
      BY <1>2, FourCats
    <3>. QED
      BY <2>1, <3>1, Zenon
  <2>3. p \o l = first \o (file \o (rest \o l))
    BY <2>2, Zenon DEF Cat
  <2>. QED
    BY <1>4, <1>5, <1>6, <2>3, Zenon
<1>8. due' # <<>> => spill' = <<>>
  <2>1. l # <<>> => i = j
    BY DEF Emit
  <2>2. i = j => file = <<>>
    BY <1>1, <1>2, <1>3 DEF Units
  <2>. QED
    BY <1>5, <1>6, <2>1, <2>2
<1>9. ASSUME cma' = <<>>, spill' = <<>>, owed' \o due' # <<>>
      PROVE  p \o l # <<>> /\ silent' = silent + 1
  <2>1. j = 0
    BY <1>1, <1>3, <1>4, <1>5, <1>9
  <2>2. p \o l = owed' \o due'
    <3>1. owed' \o due' \in Units
      BY <1>2, <1>6, Concats
    <3>. QED
      BY <1>7, <1>9, <3>1, Concats
  <2>3. silent' = IF j = 0 /\ p \o l # <<>> THEN silent + 1 ELSE 0
    BY DEF Emit
  <2>. QED
    BY <1>9, <2>1, <2>2, <2>3
<1>. QED
  BY <1>2, <1>4, <1>5, <1>6, <1>7, <1>8, <1>9

\* A tick keeps what is under way one whole reply.
LEMMA TickKeepsDelivery ==
  ASSUME OnlySafeFaults, TypeInv, DeliveryInv, InteractiveOne
  PROVE  DeliveryInv'
<1>. USE WirePumpAssumption DEF WirePumpAssumption
<1>1. PICK b \in 0..MaxBody, ask \in Asks :
        LET pending == owed \o due \o Produced(b)
        IN \E i \in 0..Len(pending) : \E j \in i..Len(pending) :
             Emit(pending, Deferred(b, ask), i, j)
  BY DEF InteractiveOne
<1>. DEFINE pending == owed \o due \o Produced(b)
            later   == Deferred(b, ask)
<1>2. /\ pending \in Units /\ later \in Units /\ Produced(b) \in Units
      /\ buf \in Units /\ owed \in Units /\ due \in Units
      /\ owed \o due \in Units
  BY TickOutput, Concats DEF TypeInv, TypeOK, Units
<1>3. PICK i \in 0..Len(pending) : \E j \in i..Len(pending) :
        Emit(pending, later, i, j)
  BY <1>1
<1>4. /\ pc = "tick" /\ pc' = "flush" /\ published' = FALSE
      /\ UNCHANGED <<phase, kind, xid, buf, idle, dead, result, health>>
  BY DEF InteractiveOne
<1>5. cma = <<>> /\ spill = <<>>
  BY <1>4 DEF DeliveryInv, DrainedAtHead
<1>6. /\ buf \o (pending \o later) \in Service!Replies(xid, kind)
      /\ pending \o later # <<>> => idle <= silent
  <2>1. CASE published
    <3>1. buf = <<>> /\ owed = <<>> /\ due = <<>> /\ idle = 0
      BY <1>4, <2>1 DEF DeliveryInv, NotYetTaken, Running
    <3>2. pending = Produced(b)
      BY <1>2, <3>1, Concats
    <3>3. pending \o later \in Units
      BY <1>2, Concats
    <3>4. buf \o (pending \o later) = Produced(b) \o Deferred(b, ask)
      BY <3>1, <3>2, <3>3, Concats
    <3>5. idle <= silent
      BY <3>1 DEF TypeInv, TypeOK
    <3>. QED
      BY <2>1, <3>4, <3>5, RequestBecomesReply DEF TypeInv
  <2>2. CASE ~published
    <3>1. later = <<>> /\ Produced(b) = <<>>
      BY <2>2 DEF Produced, Deferred
    <3>2. pending \o later = owed \o due
      BY <1>2, <3>1, Concats
    <3>3. InFlight \in Service!Replies(xid, kind)
      BY <1>4, <2>2 DEF DeliveryInv, Conserved, Running
    <3>4. InFlight = buf \o (owed \o due)
      BY <1>2, <1>5, Concats DEF InFlight
    <3>5. owed \o due # <<>> => idle <= silent
      BY <1>4 DEF DeliveryInv, PatientAtHead
    <3>. QED
      BY <3>2, <3>3, <3>4, <3>5
  <2>. QED
    BY <2>1, <2>2
<1>. HIDE DEF pending, later
<1>7. PICK j \in i..Len(pending) : Emit(pending, later, i, j)
  BY <1>3
<1>8. /\ cma' \o (spill' \o (owed' \o due')) = pending \o later
      /\ due' # <<>> => spill' = <<>>
      /\ (cma' = <<>> /\ spill' = <<>> /\ owed' \o due' # <<>>) =>
           (pending \o later # <<>> /\ silent' = silent + 1)
  BY <1>2, <1>5, <1>7, EmitFacts DEF TypeInv
<1>9. InFlight' \in Service!Replies(xid, kind)
  BY <1>4, <1>6, <1>8 DEF InFlight
<1>10. ~dead /\ result # "reply"
  BY <1>4 DEF DeliveryInv, DeadIsClosed, Delivered
<1>11. (cma' = <<>> /\ spill' = <<>> /\ owed' \o due' # <<>>) => idle < silent'
  BY <1>6, <1>8 DEF TypeInv, TypeOK
<1>12. Conserved'
  BY <1>4, <1>9 DEF Conserved
<1>13. PatientInTick'
  BY <1>4, <1>11 DEF PatientInTick
<1>14. FlushIsAlone'
  BY <1>8 DEF FlushIsAlone
<1>15. /\ DeadIsClosed' /\ UpWhileAlive' /\ CleanOutside' /\ FreshStart'
       /\ DrainedAtHead' /\ TakenByTick' /\ NotYetTaken' /\ PatientAtHead'
       /\ Delivered'
  BY <1>4, <1>10
     DEF DeliveryInv, DeadIsClosed, UpWhileAlive, CleanOutside, FreshStart,
         DrainedAtHead, TakenByTick, NotYetTaken, PatientAtHead, Delivered
<1>. QED
  BY <1>12, <1>13, <1>14, <1>15 DEF DeliveryInv

\* Flushing a deferred ReadyForQuery moves bytes from the engine to the spill
\* file, which is empty whenever that happens.
LEMMA FlushKeepsDelivery ==
  ASSUME TypeInv, DeliveryInv, WasipgFlush
  PROVE  DeliveryInv'
<1>1. /\ pc = "flush" /\ pc' = "drain"
      /\ UNCHANGED <<phase, kind, xid, buf, idle, dead, result, published, cma,
                     authBusy, challenge, health>>
  BY DEF WasipgFlush
<1>2. ~dead /\ result # "reply" /\ ~published
  BY <1>1 DEF DeliveryInv, DeadIsClosed, Delivered, TakenByTick
<1>3. owed \in Units /\ due \in Units /\ <<>> \in Units /\ owed \o due \in Units
  BY Concats DEF TypeInv, TypeOK, Units
<1>4. /\ spill' \o (owed' \o due') = spill \o (owed \o due)
      /\ (spill' = <<>> /\ owed' \o due' # <<>>) =>
           UNCHANGED <<spill, owed, due, silent>>
  <2>1. CASE health = "up" /\ due # <<>> /\ ~authBusy
    <3>1. spill' = owed \o due /\ owed' = <<>> /\ due' = <<>>
      BY <1>1, <2>1 DEF WasipgFlush
    <3>2. spill = <<>>
      BY <1>1, <2>1 DEF DeliveryInv, FlushIsAlone
    <3>3. owed' \o due' = <<>>
      BY <1>3, <3>1, Concats
    <3>4. spill' \o (owed' \o due') = owed \o due
      BY <1>3, <3>1, <3>3, Concats
    <3>5. spill \o (owed \o due) = owed \o due
      BY <1>3, <3>2, Concats
    <3>. QED
      BY <3>3, <3>4, <3>5
  <2>2. CASE ~(health = "up" /\ due # <<>> /\ ~authBusy)
    <3>1. UNCHANGED <<spill, owed, due, silent>>
      BY <1>1, <2>2 DEF WasipgFlush
    <3>. QED
      BY <3>1
  <2>. QED
    BY <2>1, <2>2
<1>5. InFlight' = InFlight
  BY <1>1, <1>4 DEF InFlight
<1>6. Conserved'
  <2>1. InFlight \in Service!Replies(xid, kind)
    BY <1>1, <1>2 DEF DeliveryInv, Conserved, Running
  <2>. QED
    BY <1>1, <1>5, <2>1 DEF Conserved
<1>7. PatientInTick'
  BY <1>1, <1>4 DEF DeliveryInv, PatientInTick
<1>8. /\ DeadIsClosed' /\ UpWhileAlive' /\ CleanOutside' /\ FreshStart'
      /\ DrainedAtHead' /\ TakenByTick' /\ NotYetTaken' /\ FlushIsAlone'
      /\ PatientAtHead' /\ Delivered'
  BY <1>1, <1>2
     DEF DeliveryInv, DeadIsClosed, UpWhileAlive, CleanOutside, FreshStart,
         DrainedAtHead, TakenByTick, NotYetTaken, FlushIsAlone, PatientAtHead,
         Delivered
<1>. QED
  BY <1>6, <1>7, <1>8 DEF DeliveryInv

\* Draining moves bytes from the channels to the buffer, CMA before file.
LEMMA DrainKeepsDelivery ==
  ASSUME OnlySafeFaults, TypeInv, DeliveryInv, Drain
  PROVE  DeliveryInv'
<1>1. /\ pc = "drain" /\ pc' = "loop"
      /\ UNCHANGED <<phase, kind, xid, dead, result, owed, due, authBusy,
                     silent, challenge, health>>
  BY DEF Drain
<1>2. ~dead /\ result # "reply" /\ ~published
  BY <1>1 DEF DeliveryInv, DeadIsClosed, Delivered, TakenByTick
<1>3. DrainWith("none")
  BY DEF Drain, OnlySafeFaults
<1>4. /\ buf' = buf \o (cma \o spill)
      /\ idle' = IF cma \o spill = <<>> THEN idle + 1 ELSE 0
      /\ cma' = <<>> /\ spill' = <<>> /\ ~published'
  BY <1>2, <1>3 DEF DrainWith
<1>5. PICK rest \in Units : rest = owed \o due
  BY Concats DEF TypeInv, TypeOK, Units
<1>6. buf \in Units /\ cma \in Units /\ spill \in Units /\ <<>> \in Units
  BY Concats DEF TypeInv, TypeOK, Units
<1>7. InFlight' = InFlight
  <2>1. InFlight = Cat(buf, Cat(cma, Cat(spill, rest)))
    BY <1>5 DEF InFlight, Cat
  <2>2. InFlight' = Cat(Cat(buf, Cat(cma, spill)), rest)
    <3>1. rest = owed' \o due'
      BY <1>1, <1>5
    <3>2. InFlight' = buf' \o (<<>> \o (<<>> \o rest))
      BY <1>4, <3>1 DEF InFlight
    <3>3. <<>> \o (<<>> \o rest) = rest
      BY <1>5, Concats
    <3>. QED
      BY <1>4, <3>2, <3>3 DEF Cat
  <2>3. \A s, t, u \in Units : Cat(Cat(s, t), u) = Cat(s, Cat(t, u))
    BY CatFacts
  <2>4. Cat(cma, spill) \in Units
    BY <1>6, CatFacts
  <2>. HIDE DEF Units
  <2>5. Cat(Cat(buf, Cat(cma, spill)), rest)
          = Cat(buf, Cat(Cat(cma, spill), rest))
    <3>1. buf \in Units /\ rest \in Units
      BY <1>5, <1>6
    <3>. QED
      BY <3>1, <2>3, <2>4, Zenon
  <2>6. Cat(Cat(cma, spill), rest) = Cat(cma, Cat(spill, rest))
    BY <1>5, <1>6, <2>3, Zenon
  <2>. QED
    BY <2>1, <2>2, <2>5, <2>6, Zenon
<1>8. Conserved'
  <2>1. InFlight \in Service!Replies(xid, kind)
    BY <1>1, <1>2 DEF DeliveryInv, Conserved, Running
  <2>. QED
    BY <1>1, <1>7, <2>1 DEF Conserved
<1>9. PatientAtHead'
  <2>1. CASE cma \o spill = <<>>
    <3>1. cma = <<>> /\ spill = <<>>
      BY <1>6, <2>1, Concats
    <3>2. owed \o due # <<>> => idle < silent
      BY <1>1, <3>1 DEF DeliveryInv, PatientInTick
    <3>. QED
      BY <1>1, <1>4, <2>1, <3>2 DEF PatientAtHead, TypeInv, TypeOK
  <2>2. CASE cma \o spill # <<>>
    BY <1>1, <1>4, <2>2 DEF PatientAtHead, TypeInv, TypeOK
  <2>. QED
    BY <2>1, <2>2
<1>10. /\ DeadIsClosed' /\ UpWhileAlive' /\ CleanOutside' /\ FreshStart'
       /\ DrainedAtHead' /\ TakenByTick' /\ NotYetTaken' /\ FlushIsAlone'
       /\ PatientInTick' /\ Delivered'
  BY <1>1, <1>2, <1>4
     DEF DeliveryInv, DeadIsClosed, UpWhileAlive, CleanOutside, FreshStart,
         DrainedAtHead, TakenByTick, NotYetTaken, FlushIsAlone, PatientInTick,
         Delivered
<1>. QED
  BY <1>8, <1>9, <1>10 DEF DeliveryInv

\* Giving up with the handle marked dead leaves nothing to keep.
LEMMA DeathKeepsDelivery ==
  ASSUME TypeInv, DeliveryInv, GiveUp(TRUE)
  PROVE  DeliveryInv'
<1>1. dead' = TRUE /\ result' = "null" /\ pc' = "idle" /\ phase' = "closed"
  BY DEF GiveUp
<1>. QED
  BY <1>1
     DEF DeliveryInv, DeadIsClosed, UpWhileAlive, CleanOutside, FreshStart,
         DrainedAtHead, TakenByTick, NotYetTaken, Conserved, FlushIsAlone,
         PatientAtHead, PatientInTick, Delivered, Running

\* A new exchange starts with no byte of another one under way.
LEMMA BeginKeepsDelivery ==
  ASSUME TypeInv, DeliveryInv, NEW k \in Kinds, Begin(k)
  PROVE  DeliveryInv'
<1>1. /\ pc = "idle" /\ ~dead /\ pc' = "publish" /\ buf' = <<>> /\ idle' = 0
      /\ result' = "none" /\ dead' = dead
      /\ UNCHANGED <<published, cma, spill, owed, due, health>>
  BY DEF Begin, engine
<1>. QED
  BY <1>1
     DEF DeliveryInv, DeadIsClosed, UpWhileAlive, CleanOutside, FreshStart,
         DrainedAtHead, TakenByTick, NotYetTaken, Conserved, FlushIsAlone,
         PatientAtHead, PatientInTick, Delivered, Running

\* Every step of the bridge and of the engine keeps DeliveryInv.
LEMMA DeliveryStep ==
  ASSUME OnlySafeFaults, Patient, TypeInv, DeliveryInv, [Next]_vars
  PROVE  DeliveryInv'
<1>. USE DEF DeliveryInv, DeadIsClosed, UpWhileAlive, CleanOutside, FreshStart,
             DrainedAtHead, TakenByTick, NotYetTaken, Conserved, FlushIsAlone,
             PatientAtHead, PatientInTick, Delivered, Running
<1>1. CASE Publish
  <2>1. /\ pc = "publish" /\ pc' = "loop" /\ published' = TRUE /\ cma' = <<>>
        /\ UNCHANGED <<phase, kind, xid, buf, idle, dead, result, spill, owed,
                       due, silent, health>>
    BY <1>1 DEF Publish
  <2>2. ~dead /\ result # "reply"
    BY <2>1
  <2>3. buf = <<>> /\ idle = 0 /\ spill = <<>> /\ owed = <<>> /\ due = <<>>
    BY <2>1, <2>2
  <2>4. 0 <= silent
    BY DEF TypeInv, TypeOK
  <2>. QED
    BY <2>1, <2>2, <2>3, <2>4
<1>2. CASE Continue
  <2>1. /\ pc = "loop" /\ pc' = "tick"
        /\ UNCHANGED <<phase, kind, xid, buf, idle, dead, result, published,
                       cma, spill, owed, due, silent, health>>
    BY <1>2 DEF Continue, engine
  <2>2. InFlight' = InFlight
    BY <2>1 DEF InFlight
  <2>. QED
    BY <2>1, <2>2
<1>3. CASE Finish
  <2>1. /\ pc = "loop" /\ pc' = "idle" /\ result' = "reply"
        /\ UNCHANGED <<kind, xid, buf, idle, dead, published, cma, spill, owed,
                       due, silent, health>>
    BY <1>3 DEF Finish, engine
  <2>2. /\ ~published /\ buf \in Service!Replies(xid, kind)
        /\ owed = <<>> /\ due = <<>>
    BY <1>3, <2>1, FinishIsExact DEF Finish, Patient
  <2>3. ~dead /\ cma = <<>> /\ spill = <<>>
    BY <2>1
  <2>. QED
    BY <2>1, <2>2, <2>3
<1>4. CASE InteractiveOne
  BY <1>4, TickKeepsDelivery
<1>5. CASE WasipgFlush
  BY <1>5, FlushKeepsDelivery
<1>6. CASE Drain
  BY <1>6, DrainKeepsDelivery
<1>7. CASE DrainOutOfMemory
  BY <1>7, DeathKeepsDelivery DEF DrainOutOfMemory
<1>8. CASE Trap
  BY <1>8, DeathKeepsDelivery DEF Trap
<1>9. CASE ProcExit
  BY <1>9 DEF ProcExit, OnlySafeFaults
<1>10. CASE TickOfStopped
  BY <1>10 DEF TickOfStopped
<1>11. CASE Boot
  <2>1. /\ phase = "boot"
        /\ UNCHANGED <<pc, kind, xid, buf, idle, dead, result, published, cma,
                       spill, owed, due, silent, health>>
    BY <1>11 DEF Boot, engine
  <2>2. InFlight' = InFlight /\ ~dead
    BY <2>1 DEF InFlight
  <2>. QED
    BY <2>1, <2>2
<1>12. CASE BootTrap
  BY <1>12 DEF BootTrap, OnlySafeFaults
<1>13. CASE BootExchange
  BY <1>13, BeginKeepsDelivery DEF BootExchange, Kinds
<1>14. CASE Checkpoint
  BY <1>14, BeginKeepsDelivery DEF Checkpoint, Kinds
<1>15. ASSUME NEW k \in {"query", "partial"}, Request(k)
       PROVE  DeliveryInv'
  BY <1>15, BeginKeepsDelivery DEF Request, Kinds
<1>16. CASE RequestRefused
  <2>1. /\ phase = "open" /\ pc = "idle" /\ pc' = "idle" /\ result' = "null"
        /\ dead' = dead
        /\ UNCHANGED <<published, cma, spill, owed, due, health>>
    BY <1>16 DEF RequestRefused, GiveUp, engine
  <2>. QED
    BY <2>1
<1>17. CASE Close
  <2>1. /\ phase = "open" /\ pc = "idle" /\ result' = "none"
        /\ UNCHANGED <<pc, dead, published, cma, spill, owed, due, health>>
    BY <1>17 DEF Close, engine
  <2>. QED
    BY <2>1
<1>18. CASE NoMemory
  BY <1>18 DEF NoMemory, OnlySafeFaults
<1>19. CASE OpenFails
  BY <1>19 DEF OpenFails, OnlySafeFaults
<1>20. CASE BootExit
  BY <1>20 DEF BootExit, OnlySafeFaults
<1>21. CASE UNCHANGED vars
  <2>1. UNCHANGED <<phase, pc, kind, xid, buf, idle, dead, result, published,
                    cma, spill, owed, due, silent, health>>
    BY <1>21 DEF vars, bridge, engine
  <2>2. InFlight' = InFlight
    BY <2>1 DEF InFlight
  <2>. QED
    BY <2>1, <2>2
<1>. QED
  BY <1>1, <1>2, <1>3, <1>4, <1>5, <1>6, <1>7, <1>8, <1>9, <1>10, <1>11, <1>12,
     <1>13, <1>14, <1>15, <1>16, <1>17, <1>18, <1>19, <1>20, <1>21
     DEF Next, BridgeStep, ExchangeStep, Caller

\* DeliveryInv holds before pgl_open has done anything.
LEMMA DeliveryInit == Init => DeliveryInv
<1>1. <<>> \o <<>> = <<>>
  BY Concats
<1>. QED
  BY DEF Init, DeliveryInv, DeadIsClosed, UpWhileAlive, CleanOutside,
         FreshStart, DrainedAtHead, TakenByTick, NotYetTaken, Conserved,
         FlushIsAlone, PatientAtHead, PatientInTick, Delivered, Running

\* With an engine that is silent for fewer ticks than the idle limit, and
\* whatever guest calls trap or allocations fail, a reply that exchange()
\* returns is exactly the reply to its own request: for every idle limit, reply
\* length, number of calls, and way to cut a reply into ticks and channels.
THEOREM RepliesAreExact ==
  ASSUME OnlySafeFaults, Patient
  PROVE  Spec => []ReplyExact
<1>1. DeliveryInv => ReplyExact
  BY DEF DeliveryInv, Delivered, ReplyExact
<1>2. TypeInv /\ DeliveryInv /\ [Next]_vars => TypeInv' /\ DeliveryInv'
  BY TypeInvStep, DeliveryStep
<1>. QED
  BY <1>1, <1>2, TypeInvInit, DeliveryInit, PTL DEF Spec, Safety

\* Under the same assumptions no byte and no deferred ReadyForQuery is left
\* behind between two exchanges, so that replies cannot slip by one.
THEOREM NothingStaysInFlight ==
  ASSUME OnlySafeFaults, Patient
  PROVE  Spec => []NothingInFlight
<1>1. DeliveryInv => NothingInFlight
  BY DEF DeliveryInv, CleanOutside, NothingInFlight
<1>2. TypeInv /\ DeliveryInv /\ [Next]_vars => TypeInv' /\ DeliveryInv'
  BY TypeInvStep, DeliveryStep
<1>. QED
  BY <1>1, <1>2, TypeInvInit, DeliveryInit, PTL DEF Spec, Safety

\* Under the same assumptions, a trap while booting not among the faults, an
\* engine that trapped in an exchange is never entered again.
THEOREM TrappedStaysAlone ==
  ASSUME OnlySafeFaults, Patient
  PROVE  Spec => TrappedIsLeftAlone
<1>1. ASSUME TypeInv, DeliveryInv, [Next]_vars, health = "trapped"
      PROVE  UNCHANGED engine
  <2>1. dead /\ pc = "idle" /\ phase = "closed"
    BY <1>1 DEF DeliveryInv, UpWhileAlive, DeadIsClosed
  <2>. QED
    BY <1>1, <2>1
       DEF Next, BridgeStep, ExchangeStep, Caller, Publish, Continue, Finish,
           InteractiveOne, WasipgFlush, Drain, DrainOutOfMemory, Trap, ProcExit,
           NoMemory, TickOfStopped, OpenFails, Boot, BootExit, BootTrap, BootExchange, Checkpoint, Request,
           RequestRefused, Close, Begin, vars
<1>2. TypeInv /\ DeliveryInv /\ [Next]_vars => TypeInv' /\ DeliveryInv'
  BY TypeInvStep, DeliveryStep
<1>3. TypeInv /\ DeliveryInv /\ [Next]_vars
        => [health = "trapped" => UNCHANGED engine]_vars
  BY <1>1
<1>. QED
  BY <1>2, <1>3, TypeInvInit, DeliveryInit, PTL
     DEF Spec, Safety, TrappedIsLeftAlone

--------------------------------------------------------------------------------
(***************************************************************************)
(* The bridge implements EngineService.                                    *)
(***************************************************************************)

\* Entering exchange() is a call of the service.
LEMMA BeginIsCall ==
  ASSUME TypeInv, DeliveryInv, NEW k \in Kinds, Begin(k)
  PROVE  Service!Call(k)
<1>1. /\ pc = "idle" /\ ~dead /\ pc' = "publish" /\ kind' = k
      /\ xid' = xid + 1 /\ result' = "none" /\ dead' = dead
  BY DEF Begin
<1>. QED
  BY <1>1 DEF Service!Call, Service!NoCall, Service!NoAnswer

\* exchange() marking the handle dead is the death of the service.
LEMMA DeathIsDie ==
  ASSUME pc # "idle", kind \in Kinds, GiveUp(TRUE)
  PROVE  Service!Die
<1>1. /\ dead' = TRUE /\ result' = "null" /\ pc' = "idle" /\ xid' = xid
  BY DEF GiveUp
<1>. QED
  BY <1>1 DEF Service!Die, Service!NoCall, Service!NoAnswer, Kinds

\* A step that neither begins nor ends a call is invisible to the service.
LEMMA InnerStepIsStutter ==
  ASSUME DeliveryInv, pc # "idle", pc' # "idle",
         UNCHANGED <<kind, xid, dead, result>>
  PROVE  UNCHANGED Service!svars
<1>1. result # "reply"
  BY DEF DeliveryInv, Delivered
<1>. QED
  BY <1>1 DEF Service!svars

\* Every step is a step of the service or invisible to it.
LEMMA ServiceStep ==
  ASSUME OnlySafeFaults, Patient, TypeInv, DeliveryInv, [Next]_vars
  PROVE  [Service!Next]_Service!svars
<1>k. kind \in Kinds
  BY DEF TypeInv, TypeOK
<1>1. CASE Publish
  BY <1>1, InnerStepIsStutter DEF Publish
<1>2. CASE Continue
  BY <1>2, InnerStepIsStutter DEF Continue
<1>3. CASE Finish
  <2>1. /\ pc = "loop" /\ pc' = "idle" /\ result' = "reply"
        /\ UNCHANGED <<kind, xid, buf, dead>>
    BY <1>3 DEF Finish
  <2>2. buf \in Service!Replies(xid, kind)
    BY <1>3, <2>1, FinishIsExact DEF Finish, Patient
  <2>3. kind # "none"
    BY <1>k DEF Kinds
  <2>4. Service!Answer
    BY <2>1, <2>2, <2>3 DEF Service!Answer, Service!NoCall, Service!Reply
  <2>. QED
    BY <2>4 DEF Service!Next, Service!Return
<1>4. CASE InteractiveOne
  BY <1>4, InnerStepIsStutter DEF InteractiveOne
<1>5. CASE WasipgFlush
  BY <1>5, InnerStepIsStutter DEF WasipgFlush
<1>6. CASE Drain
  BY <1>6, InnerStepIsStutter DEF Drain
<1>7. CASE DrainOutOfMemory
  BY <1>7, <1>k, DeathIsDie DEF DrainOutOfMemory, Service!Next, Service!Return
<1>8. CASE Trap
  BY <1>8, <1>k, DeathIsDie DEF Trap, Service!Next, Service!Return
<1>9. CASE ProcExit
  BY <1>9 DEF ProcExit, OnlySafeFaults
<1>10. CASE TickOfStopped
  BY <1>10, InnerStepIsStutter DEF TickOfStopped
<1>11. CASE Boot
  BY <1>11 DEF Boot, Service!svars
<1>12. CASE BootTrap
  BY <1>12 DEF BootTrap, OnlySafeFaults
<1>13. CASE BootExchange
  BY <1>13, BeginIsCall DEF BootExchange, Kinds, Service!Next
<1>14. CASE Checkpoint
  BY <1>14, BeginIsCall DEF Checkpoint, Kinds, Service!Next
<1>15. ASSUME NEW k \in {"query", "partial"}, Request(k)
       PROVE  [Service!Next]_Service!svars
  BY <1>15, BeginIsCall DEF Request, Kinds, Service!Next
<1>16. CASE RequestRefused
  <2>1. /\ pc = "idle" /\ pc' = "idle" /\ result' = "null"
        /\ UNCHANGED <<dead, xid>>
    BY <1>16 DEF RequestRefused, GiveUp
  <2>2. Service!Refuse
    BY <2>1 DEF Service!Refuse, Service!NoCall, Service!NoAnswer
  <2>. QED
    BY <2>2 DEF Service!Next
<1>17. CASE Close
  <2>1. /\ pc = "idle" /\ pc' = "idle" /\ result' = "none"
        /\ UNCHANGED <<dead, xid>>
    BY <1>17 DEF Close
  <2>2. Service!Refuse
    BY <2>1 DEF Service!Refuse, Service!NoCall, Service!NoAnswer
  <2>. QED
    BY <2>2 DEF Service!Next
<1>18. CASE NoMemory
  BY <1>18 DEF NoMemory, OnlySafeFaults
<1>19. CASE OpenFails
  BY <1>19 DEF OpenFails, OnlySafeFaults
<1>20. CASE BootExit
  BY <1>20 DEF BootExit, OnlySafeFaults
<1>21. CASE UNCHANGED vars
  BY <1>21 DEF vars, bridge, Service!svars
<1>. QED
  BY <1>1, <1>2, <1>3, <1>4, <1>5, <1>6, <1>7, <1>8, <1>9, <1>10, <1>11, <1>12,
     <1>13, <1>14, <1>15, <1>16, <1>17, <1>18, <1>19, <1>20, <1>21
     DEF Next, BridgeStep, ExchangeStep, Caller

\* Under the same assumptions every step of the bridge is a step of the
\* service it promises (or no step of it): calls one at a time, each answered
\* once with its own whole reply, or with the end of the engine.
THEOREM BridgeImplementsService ==
  ASSUME OnlySafeFaults, Patient
  PROVE  Spec => Service!Safety
<1>1. Init => Service!Init
  BY DEF Init, Service!Init, Service!NoCall, Service!NoAnswer
<1>2. TypeInv /\ DeliveryInv /\ [Next]_vars => TypeInv' /\ DeliveryInv'
  BY TypeInvStep, DeliveryStep
<1>3. TypeInv /\ DeliveryInv /\ [Next]_vars => [Service!Next]_Service!svars
  BY ServiceStep
<1>. QED
  BY <1>1, <1>2, <1>3, TypeInvInit, DeliveryInit, PTL
     DEF Spec, Safety, Service!Safety
===============================================================================
