------------------------- MODULE NsqOnePlaceProofs -------------------------
(***************************************************************************)
(* No message is lost or duplicated by the races of a channel's            *)
(* goroutines: ExactlyOnePlace, for every number of messages and clients.  *)
(***************************************************************************)
EXTENDS NsqChannelProofs

(* The places of a message one by one: it is in one of them when it is     *)
(* live and in none otherwise.                                             *)
InBackend(m)  == backend[m] > 0
InFlight(m)   == inFlight[m] # NoObj
InDeferred(m) == deferred[m] # NoObj
InHand(m)     == \E c \in Clients : PumpHas(c, m) \/ IoHas(c, m)
Live(m)       == fate[m] = "live"

OneHand(m) ==
  \A c, e \in Clients :
    /\ PumpHas(c, m) /\ PumpHas(e, m) => c = e
    /\ IoHas(c, m) /\ IoHas(e, m) => c = e
    /\ ~(PumpHas(c, m) /\ IoHas(e, m))

Flat(m) ==
  /\ InMemory(m) => ~InBackend(m) /\ ~InFlight(m) /\ ~InDeferred(m) /\ ~ScanHas(m) /\ ~InHand(m)
  /\ InBackend(m) => ~InFlight(m) /\ ~InDeferred(m) /\ ~ScanHas(m) /\ ~InHand(m)
  /\ InFlight(m) => ~InDeferred(m) /\ ~ScanHas(m) /\ ~InHand(m)
  /\ InDeferred(m) => ~ScanHas(m) /\ ~InHand(m)
  /\ ScanHas(m) => ~InHand(m)
  /\ OneHand(m)
  /\ Live(m) <=> \/ InMemory(m) \/ InBackend(m) \/ InFlight(m) \/ InDeferred(m)
                 \/ ScanHas(m) \/ InHand(m)

(* A queue holds a message at most once.                                   *)
Single(m) ==
  /\ backend[m] <= 1
  /\ \A o, u \in Objs :
       /\ memory[o] <= 1
       /\ memory[o] > 0 /\ memory[u] > 0 /\ MsgOf(o) = MsgOf(u) => o = u

OnePlace == ~Flushing => \A m \in Msgs : Flat(m) /\ Single(m)

-----------------------------------------------------------------------------
(* A step that leaves message m where it is.                               *)
HandsKept(m) ==
  \A c \in Clients : (PumpHas(c, m)' <=> PumpHas(c, m)) /\ (IoHas(c, m)' <=> IoHas(c, m))
QueuesKept(m) == (InMemory(m)' <=> InMemory(m)) /\ (InBackend(m)' <=> InBackend(m))
MapsKept(m) == (InFlight(m)' <=> InFlight(m)) /\ (InDeferred(m)' <=> InDeferred(m))
Kept(m) ==
  /\ HandsKept(m) /\ QueuesKept(m) /\ MapsKept(m)
  /\ ScanHas(m)' <=> ScanHas(m)
  /\ Live(m)' <=> Live(m)

(* A message that stays where it is stays in one place.                    *)
LEMMA KeptFlat == ASSUME NEW m, Flat(m), Kept(m) PROVE Flat(m)'
BY DEF Flat, Kept, HandsKept, QueuesKept, MapsKept, InHand, OneHand

(* A place whose variables do not change keeps what it has.                *)
LEMMA SameFlags ==
  ASSUME NEW m \in Msgs
  PROVE  /\ memory' = memory => (InMemory(m)' <=> InMemory(m))
         /\ backend' = backend => (InBackend(m)' <=> InBackend(m))
         /\ inFlight' = inFlight => (InFlight(m)' <=> InFlight(m))
         /\ deferred' = deferred => (InDeferred(m)' <=> InDeferred(m))
         /\ spc' = spc /\ sobj' = sobj => (ScanHas(m)' <=> ScanHas(m))
         /\ ppc' = ppc /\ pobj' = pobj =>
              \A c \in Clients : PumpHas(c, m)' <=> PumpHas(c, m)
         /\ iopc' = iopc /\ iokind' = iokind /\ ioobj' = ioobj =>
              \A c \in Clients : IoHas(c, m)' <=> IoHas(c, m)
         /\ fate' = fate => (Live(m)' <=> Live(m))
         /\ memory' = memory /\ backend' = backend => (Single(m)' <=> Single(m))
BY DEF InMemory, InBackend, InFlight, InDeferred, ScanHas, PumpHas, IoHas, Live, Single

(* Steps of a pump, an IO loop and the scan worker that move no message.   *)
QuietPump(c) ==
  /\ UNCHANGED <<memory, backend, inFlight, deferred, spc, sobj, iopc, iokind, ioobj, fate, xpc>>
  /\ ppc[c] # "push" /\ ppc'[c] # "push"
  /\ \A e \in Clients \ {c} : ppc'[e] = ppc[e] /\ pobj'[e] = pobj[e]
QuietIo(c) ==
  /\ UNCHANGED <<memory, backend, inFlight, deferred, spc, sobj, ppc, pobj, fate, xpc>>
  /\ \A m \in Msgs : IoHas(c, m)' <=> IoHas(c, m)
  /\ \A e \in Clients \ {c} :
        iopc'[e] = iopc[e] /\ iokind'[e] = iokind[e] /\ ioobj'[e] = ioobj[e]
QuietScan ==
  /\ UNCHANGED <<memory, backend, inFlight, deferred, iopc, iokind, ioobj, ppc, pobj, fate, xpc>>
  /\ \A m \in Msgs : ScanHas(m)' <=> ScanHas(m)
QuietAdmin ==
  UNCHANGED <<memory, backend, inFlight, deferred, spc, sobj, iopc, iokind, ioobj, ppc, pobj, fate>>

(* A step that touches no collection and nobody's hands moves no message.  *)
LEMMA QuietKept ==
  ASSUME NEW m \in Msgs, NEW c \in Clients,
         QuietPump(c) \/ QuietIo(c) \/ QuietScan \/ QuietAdmin
  PROVE  Kept(m) /\ (Single(m)' <=> Single(m))
<1>1. CASE QuietPump(c)
  <2>1. \A e \in Clients : PumpHas(e, m)' <=> PumpHas(e, m)
    BY <1>1 DEF QuietPump, PumpHas
  <2>2. QED
    BY <1>1, <2>1, SameFlags DEF QuietPump, Kept, HandsKept, QueuesKept, MapsKept
<1>2. CASE QuietIo(c)
  <2>1. \A e \in Clients : IoHas(e, m)' <=> IoHas(e, m)
    BY <1>2 DEF QuietIo, IoHas
  <2>2. QED
    BY <1>2, <2>1, SameFlags DEF QuietIo, Kept, HandsKept, QueuesKept, MapsKept
<1>3. CASE QuietScan
  BY <1>3, SameFlags DEF QuietScan, Kept, HandsKept, QueuesKept, MapsKept
<1>4. CASE QuietAdmin
  BY <1>4, SameFlags DEF QuietAdmin, Kept, HandsKept, QueuesKept, MapsKept
<1>5. QED
  BY <1>1, <1>2, <1>3, <1>4

(* Most steps of a pump move no message.                                  *)
LEMMA PumpQuiet ==
  ASSUME NEW c \in Clients, Base,
         \/ PumpSub(c) \/ PumpCheck(c) \/ PumpReadyState(c) \/ PumpTick(c)
         \/ PumpAdd(c) \/ PumpCount(c) \/ PumpSend(c) \/ PumpExit(c)
  PROVE  QuietPump(c)
<1> USE DEF Base, TypeOK, HandsFull, QuietPump,
      vars, queueVars, flightVars, deferVars, clientVars, readyVars, topicVars,
      pumpVars, ioVars, scanVars, adminVars, pumpOthers, ioOthers, scanOthers,
      adminOthers, topicOthers, pumpRest, ioRest, cmdRest, scanRest, adminRest
<1>1. CASE PumpSub(c)
  BY <1>1 DEF PumpSub, PumpStates
<1>2. CASE PumpCheck(c)
  BY <1>2 DEF PumpCheck, PumpStates
<1>3. CASE PumpReadyState(c)
  BY <1>3 DEF PumpReadyState, PumpStates
<1>4. CASE PumpTick(c)
  BY <1>4 DEF PumpTick, PumpStates
<1>5. CASE PumpAdd(c)
  BY <1>5 DEF PumpAdd, PumpStates
<1>6. CASE PumpCount(c)
  BY <1>6 DEF PumpCount, PumpStates
<1>7. CASE PumpSend(c)
  BY <1>7 DEF PumpSend, PumpStates
<1>8. CASE PumpExit(c)
  BY <1>8 DEF PumpExit, PumpStates
<1>9. QED
  BY <1>1, <1>2, <1>3, <1>4, <1>5, <1>6, <1>7, <1>8

(* ... and of an IO loop.                                                 *)
LEMMA IoQuiet ==
  ASSUME NEW c \in Clients, NEW n, Base,
         \/ Sub(c) \/ SubCheck(c) \/ Rdy(c, n) \/ Cls(c) \/ IoRemove(c) \/ IoDeferPQ(c)
         \/ IoTouchPQ(c) \/ IoCount(c) \/ IoNotify(c) \/ IoExit(c) \/ IoRemoveClient(c)
  PROVE  QuietIo(c)
<1> USE DEF Base, TypeOK, HandsFull, QuietIo,
      vars, queueVars, flightVars, deferVars, clientVars, readyVars, topicVars,
      pumpVars, ioVars, scanVars, adminVars, pumpOthers, ioOthers, scanOthers,
      adminOthers, topicOthers, pumpRest, ioRest, cmdRest, scanRest, adminRest
<1>1. CASE Sub(c)
  BY <1>1 DEF Sub, IoHas
<1>2. CASE SubCheck(c)
  BY <1>2 DEF SubCheck, IoHas
<1>3. CASE Rdy(c, n)
  BY <1>3 DEF Rdy, IoHas, SetReadyCount
<1>4. CASE Cls(c)
  BY <1>4 DEF Cls, IoHas, SetReadyCount
<1>5. CASE IoRemove(c)
  BY <1>5 DEF IoRemove, IoHas, AfterRemove, CommandNames
<1>6. CASE IoDeferPQ(c)
  BY <1>6 DEF IoDeferPQ, IoHas, IoDrop
<1>7. CASE IoTouchPQ(c)
  BY <1>7 DEF IoTouchPQ, IoHas, IoDrop
<1>8. CASE IoCount(c)
  BY <1>8 DEF IoCount, IoHas, IoDrop
<1>9. CASE IoNotify(c)
  BY <1>9 DEF IoNotify, IoHas
<1>10. CASE IoExit(c)
  BY <1>10 DEF IoExit, IoHas
<1>11. CASE IoRemoveClient(c)
  BY <1>11 DEF IoRemoveClient, IoHas
<1>12. QED
  BY <1>1, <1>2, <1>3, <1>4, <1>5, <1>6, <1>7, <1>8, <1>9, <1>10, <1>11

(* ... and of the scan worker.                                            *)
LEMMA ScanQuiet ==
  ASSUME Base,
         \/ ScanInFlight \/ (\E o \in Objs : ScanShift(o)) \/ ScanInFlightDone
         \/ ScanTimedOut \/ ScanNotify \/ ScanDeferred
         \/ (\E o \in Objs : ScanShiftDeferred(o)) \/ ScanDeferredDone
  PROVE  QuietScan
<1> USE DEF Base, TypeOK, HandsFull, QuietScan,
      vars, queueVars, flightVars, deferVars, clientVars, readyVars, topicVars,
      pumpVars, ioVars, scanVars, adminVars, pumpOthers, ioOthers, scanOthers,
      adminOthers, topicOthers, pumpRest, ioRest, cmdRest, scanRest, adminRest
<1>1. CASE ScanInFlight
  BY <1>1 DEF ScanInFlight, ScanHas
<1>2. ASSUME NEW o \in Objs, ScanShift(o) PROVE QuietScan
  BY <1>2 DEF ScanShift, ScanHas
<1>3. CASE ScanInFlightDone
  BY <1>3 DEF ScanInFlightDone, ScanHas
<1>4. CASE ScanTimedOut
  BY <1>4 DEF ScanTimedOut, ScanHas
<1>5. CASE ScanNotify
  BY <1>5 DEF ScanNotify, ScanHas
<1>6. CASE ScanDeferred
  BY <1>6 DEF ScanDeferred, ScanHas
<1>7. ASSUME NEW o \in Objs, ScanShiftDeferred(o) PROVE QuietScan
  BY <1>7 DEF ScanShiftDeferred, ScanHas
<1>8. CASE ScanDeferredDone
  BY <1>8 DEF ScanDeferredDone, ScanHas
<1>9. QED
  BY <1>1, <1>2, <1>3, <1>4, <1>5, <1>6, <1>7, <1>8

(* ... and of the handlers.                                               *)
LEMMA AdminQuiet ==
  ASSUME Base,
         \/ (\E b \in BOOLEAN : SetPaused(b)) \/ PauseClients \/ EmptyClients
         \/ (\E mode \in {"close", "delete"} : Exit(mode)) \/ TopicAddToDeferredPQ
  PROVE  QuietAdmin
<1> USE DEF Base, TypeOK, HandsFull, QuietAdmin,
      vars, queueVars, flightVars, deferVars, clientVars, readyVars, topicVars,
      pumpVars, ioVars, scanVars, adminVars, pumpOthers, ioOthers, scanOthers,
      adminOthers, topicOthers, pumpRest, ioRest, cmdRest, scanRest, adminRest
<1>1. ASSUME NEW b \in BOOLEAN, SetPaused(b) PROVE QuietAdmin
  BY <1>1 DEF SetPaused
<1>2. CASE PauseClients
  BY <1>2 DEF PauseClients
<1>3. CASE EmptyClients
  BY <1>3 DEF EmptyClients
<1>4. ASSUME NEW mode \in {"close", "delete"}, Exit(mode) PROVE QuietAdmin
  BY <1>4 DEF Exit
<1>5. CASE TopicAddToDeferredPQ
  BY <1>5 DEF TopicAddToDeferredPQ
<1>6. QED
  BY <1>1, <1>2, <1>3, <1>4, <1>5

(* put() of an object whose message is in neither queue: it ends up in one *)
(* of them, or is no longer live.                                          *)
LEMMA PutMoves ==
  ASSUME TypeOK, NEW o \in Objs, NEW m \in Msgs, PutOk(o) \/ PutFails(o),
         Single(m), Single(MsgOf(o)), ~InMemory(MsgOf(o)), ~InBackend(MsgOf(o))
  PROVE  /\ Single(m)'
         /\ m # MsgOf(o) => QueuesKept(m) /\ (Live(m)' <=> Live(m))
         /\ m = MsgOf(o) => /\ Live(m)' <=> InMemory(m)' \/ InBackend(m)'
                            /\ ~(InMemory(m)' /\ InBackend(m)')
<1>0. MsgOf(o) \in Msgs
  BY ObjsFacts
<1>1. memory[o] = 0 /\ backend[MsgOf(o)] = 0
  BY <1>0 DEF InMemory, InBackend, TypeOK
<1>2. \A u \in Objs : MsgOf(u) = MsgOf(o) => memory[u] = 0
  BY DEF InMemory, TypeOK
<1> USE DEF TypeOK
<1>3. CASE ToMemory(o)
  <2>1. \A u \in Objs : memory'[u] = IF u = o THEN 1 ELSE memory[u]
    BY <1>3, <1>1 DEF ToMemory
  <2>2. backend' = backend /\ \A k \in Msgs : fate'[k] = IF k = MsgOf(o) THEN "live" ELSE fate[k]
    BY <1>3, <1>0 DEF ToMemory
  <2>3. Single(m)'
    BY <2>1, <2>2, <1>2 DEF Single
  <2>4. InMemory(m)' <=> InMemory(m) \/ m = MsgOf(o)
    BY <2>1 DEF InMemory
  <2>5. QED
    BY <2>2, <2>3, <2>4, <1>0 DEF QueuesKept, Live, InBackend
<1>4. CASE ToBackend(o)
  <2>1. \A k \in Msgs : backend'[k] = IF k = MsgOf(o) THEN 1 ELSE backend[k]
    BY <1>4, <1>1, <1>0 DEF ToBackend
  <2>2. memory' = memory /\ \A k \in Msgs : fate'[k] = IF k = MsgOf(o) THEN "live" ELSE fate[k]
    BY <1>4, <1>0 DEF ToBackend
  <2>3. Single(m)'
    BY <2>1, <2>2 DEF Single
  <2>4. InMemory(m)' <=> InMemory(m)
    BY <2>2, SameFlags
  <2>5. QED
    BY <2>1, <2>2, <2>3, <2>4, <1>0 DEF QueuesKept, Live, InBackend
<1>5. CASE ToNowhere(o)
  <2>1. memory' = memory /\ backend' = backend
        /\ \A k \in Msgs : fate'[k] = IF k = MsgOf(o) THEN "dropped" ELSE fate[k]
    BY <1>5, <1>0 DEF ToNowhere
  <2>2. (InMemory(m)' <=> InMemory(m)) /\ (InBackend(m)' <=> InBackend(m)) /\ Single(m)'
    BY <2>1, SameFlags
  <2>3. QED
    BY <2>1, <2>2, <1>0 DEF QueuesKept, Live
<1>6. QED
  BY <1>3, <1>4, <1>5, PutCases

(* Message m was in no place but a hand that put() has emptied.            *)
LEMMA PutFlat ==
  ASSUME NEW m,
         ~InFlight(m)', ~InDeferred(m)', ~ScanHas(m)', ~InHand(m)',
         Live(m)' <=> InMemory(m)' \/ InBackend(m)', ~(InMemory(m)' /\ InBackend(m)')
  PROVE  Flat(m)'
BY DEF Flat, InHand, OneHand

(* The topic's pump.                                                       *)
LEMMA TopicPlaces == ASSUME Base, OnePlace, Topic PROVE OnePlace'
<1> SUFFICES ASSUME ~Flushing', NEW m \in Msgs PROVE Flat(m)' /\ Single(m)'
  BY DEF OnePlace
<1> DEFINE Rest == UNCHANGED <<inFlight, spc, sobj, iopc, iokind, ioobj, ppc, pobj, xpc>>
<1> USE DEF queueVars, flightVars, deferVars, topicVars, pumpVars, ioVars, scanVars, adminVars, topicOthers
<1>1. ASSUME NEW k \in Msgs, PutMessage(k) PROVE Flat(m)' /\ Single(m)'
  <2>1. Rest /\ UNCHANGED deferred
    BY <1>1 DEF PutMessage
  <2>2. Flat(m) /\ Single(m) /\ Flat(k) /\ Single(k)
    BY <2>1 DEF OnePlace, Flushing
  <2>3. fate[k] = "unpublished" /\ ~Live(k)
    BY <1>1 DEF PutMessage, Live
  <2>4. HandsKept(m) /\ MapsKept(m) /\ (ScanHas(m)' <=> ScanHas(m))
    BY <2>1, SameFlags DEF HandsKept, MapsKept
  <2>5. <<k, 0>> \in Objs /\ MsgOf(<<k, 0>>) = k
    BY ObjsFacts, BoundsAssumption
  <2>6. CASE PutOk(<<k, 0>>) \/ PutFails(<<k, 0>>)
    <3>1. ~InMemory(k) /\ ~InBackend(k)
      BY <2>2, <2>3 DEF Flat
    <3>2. /\ Single(m)'
          /\ m # k => QueuesKept(m) /\ (Live(m)' <=> Live(m))
          /\ m = k => /\ Live(m)' <=> InMemory(m)' \/ InBackend(m)'
                      /\ ~(InMemory(m)' /\ InBackend(m)')
      BY <2>2, <2>5, <2>6, <3>1, PutMoves DEF Base
    <3>3. CASE m = k
      BY <2>2, <2>3, <2>4, <3>2, <3>3, PutFlat DEF Flat, HandsKept, MapsKept, InHand
    <3>4. CASE m # k
      BY <2>2, <2>4, <3>2, <3>4, KeptFlat DEF Kept
    <3>5. QED
      BY <3>3, <3>4
  <2>7. CASE /\ fate' = [fate EXCEPT ![k] = "refused"]
             /\ UNCHANGED <<memory, backend>>
    <3>1. Live(m)' <=> Live(m)
      BY <2>3, <2>7 DEF Live, Base, TypeOK
    <3>2. QED
      BY <2>2, <2>4, <2>7, <3>1, SameFlags, KeptFlat DEF Kept, QueuesKept
  <2>8. QED
    BY <1>1, <2>6, <2>7, Zenon DEF PutMessage
<1>2. ASSUME NEW k \in Msgs, PutMessageDeferred(k) PROVE Flat(m)' /\ Single(m)'
  <2>1. Rest /\ UNCHANGED <<memory, backend>>
    BY <1>2 DEF PutMessageDeferred
  <2>2. Flat(m) /\ Single(m)
    BY <2>1 DEF OnePlace, Flushing
  <2>3. <<k, 0>> # NoObj
    BY ObjsFacts, SetsAssumption
  <2>4. /\ InDeferred(m)' <=> InDeferred(m) \/ m = k
        /\ Live(m)' <=> Live(m) \/ m = k
        /\ m = k => ~Live(m)
    BY <1>2, <2>3 DEF PutMessageDeferred, InDeferred, Live, Base, TypeOK
  <2>5. /\ HandsKept(m) /\ QueuesKept(m) /\ (InFlight(m)' <=> InFlight(m))
        /\ ScanHas(m)' <=> ScanHas(m)
        /\ Single(m)'
    BY <2>1, <2>2, SameFlags DEF HandsKept, QueuesKept
  <2>6. QED
    BY <2>2, <2>4, <2>5 DEF Flat, InHand, OneHand, HandsKept, QueuesKept
<1>3. CASE TopicAddToDeferredPQ
  <2>1. QuietAdmin /\ xpc' = xpc
    BY <1>3, AdminQuiet DEF TopicAddToDeferredPQ
  <2>2. Flat(m) /\ Single(m)
    BY <2>1 DEF OnePlace, Flushing
  <2>3. Kept(m) /\ Single(m)'
    BY <2>1, <2>2, SameFlags DEF QuietAdmin, Kept, HandsKept, QueuesKept, MapsKept
  <2>4. QED
    BY <2>2, <2>3, KeptFlat
<1>4. QED
  BY <1>1, <1>2, <1>3 DEF Topic

(* A client's message pump.                                                *)
LEMMA PumpPlaces == ASSUME NEW c \in Clients, Base, OnePlace, Pump(c) PROVE OnePlace'
<1> SUFFICES ASSUME ~Flushing', NEW m \in Msgs PROVE Flat(m)' /\ Single(m)'
  BY DEF OnePlace
<1> DEFINE Rest == UNCHANGED <<deferred, spc, sobj, iopc, iokind, ioobj, xpc>>
<1> USE DEF queueVars, flightVars, deferVars, topicVars, pumpVars, ioVars, scanVars, adminVars, pumpOthers
<1>0. ASSUME Rest
      PROVE  /\ \A k \in Msgs : Flat(k) /\ Single(k)
             /\ \A e \in Clients : IoHas(e, m)' <=> IoHas(e, m)
             /\ InDeferred(m)' <=> InDeferred(m)
             /\ ScanHas(m)' <=> ScanHas(m)
  <2>1. \A k \in Msgs : Flat(k) /\ Single(k)
    BY <1>0 DEF OnePlace, Flushing
  <2>2. QED
    BY <1>0, <2>1, SameFlags
<1>1. ASSUME NEW o \in Objs, PumpTakeMemory(c, o) PROVE Flat(m)' /\ Single(m)'
  <2>0. Rest /\ UNCHANGED <<backend, inFlight>> /\ MsgOf(o) \in Msgs
    BY <1>1, ObjsFacts DEF PumpTakeMemory
  <2>1. (InBackend(m)' <=> InBackend(m)) /\ (InFlight(m)' <=> InFlight(m))
    BY <2>0, SameFlags
  <2>2. InMemory(MsgOf(o)) /\ ~PumpHas(c, m)
    BY <1>1 DEF PumpTakeMemory, InMemory, PumpHas
  <2>3. /\ \A u \in Objs : memory'[u] = IF u = o THEN 0 ELSE memory[u]
        /\ \A u \in Objs : memory[u] > 0 /\ MsgOf(u) = MsgOf(o) => u = o
        /\ Single(m)'
    <3>1. memory[o] = 1
      BY <1>1, <1>0, <2>0 DEF PumpTakeMemory, Single, Base, TypeOK
    <3>2. \A u \in Objs : memory'[u] = IF u = o THEN 0 ELSE memory[u]
      BY <1>1, <3>1 DEF PumpTakeMemory, Base, TypeOK
    <3>3. Single(m) /\ Single(MsgOf(o))
      BY <1>0, <2>0
    <3>4. QED
      BY <3>1, <3>2, <3>3, <2>0 DEF Single
  <2>4. InMemory(m)' <=> InMemory(m) /\ m # MsgOf(o)
    BY <2>3 DEF InMemory
  <2>5. CASE /\ ppc' = [ppc EXCEPT ![c] = "push"] /\ pobj' = [pobj EXCEPT ![c] = o]
             /\ UNCHANGED fate
    <3>1. /\ PumpHas(c, m)' <=> m = MsgOf(o)
          /\ \A e \in Clients \ {c} : PumpHas(e, m)' <=> PumpHas(e, m)
          /\ Live(m)' <=> Live(m)
      BY <2>5 DEF PumpHas, Live, Base, TypeOK
    <3>2. QED
      BY <1>0, <2>0, <2>1, <2>2, <2>3, <2>4, <3>1 DEF Flat, InHand, OneHand
  <2>6. CASE /\ ppc' = [ppc EXCEPT ![c] = "check"]
             /\ fate' = [fate EXCEPT ![MsgOf(o)] = "sampled"] /\ UNCHANGED pobj
    <3>1. /\ ~PumpHas(c, m)'
          /\ \A e \in Clients \ {c} : PumpHas(e, m)' <=> PumpHas(e, m)
          /\ Live(m)' <=> Live(m) /\ m # MsgOf(o)
      BY <2>6, <2>0 DEF PumpHas, Live, Base, TypeOK
    <3>2. QED
      BY <1>0, <2>0, <2>1, <2>2, <2>3, <2>4, <3>1 DEF Flat, InHand, OneHand
  <2>7. QED
    BY <1>1, <2>5, <2>6, Zenon DEF PumpTakeMemory, Taken
<1>2. ASSUME NEW k \in Msgs, PumpTakeBackend(c, k) PROVE Flat(m)' /\ Single(m)'
  <2> DEFINE o == <<k, decodes[k] + 1>>
  <2>0. Rest /\ UNCHANGED <<memory, inFlight>>
    BY <1>2 DEF PumpTakeBackend
  <2>1. (InMemory(m)' <=> InMemory(m)) /\ (InFlight(m)' <=> InFlight(m))
    BY <2>0, SameFlags
  <2>2. InBackend(k) /\ ~PumpHas(c, m)
    BY <1>2 DEF PumpTakeBackend, InBackend, PumpHas
  <2>3. \A j \in Msgs : backend'[j] = IF j = k THEN 0 ELSE backend[j]
    <3>1. backend[k] = 1
      BY <1>2, <1>0, <2>0 DEF PumpTakeBackend, Single, Base, TypeOK
    <3>2. QED
      BY <1>2, <3>1 DEF PumpTakeBackend, Base, TypeOK
  <2>4. (InBackend(m)' <=> InBackend(m) /\ m # k) /\ Single(m)'
    BY <2>0, <1>0, <2>3 DEF InBackend, Single
  <2>5. o \in Objs /\ MsgOf(o) = k
    <3>1. decodes[k] + 1 \in 0..MaxDecodes
      BY <1>2, BoundsAssumption DEF PumpTakeBackend, Base, TypeOK
    <3>2. QED
      BY <3>1, ObjsFacts
  <2> HIDE DEF o
  <2>6. CASE /\ ppc' = [ppc EXCEPT ![c] = "push"] /\ pobj' = [pobj EXCEPT ![c] = o]
             /\ UNCHANGED fate
    <3>1. /\ PumpHas(c, m)' <=> m = k
          /\ \A e \in Clients \ {c} : PumpHas(e, m)' <=> PumpHas(e, m)
          /\ Live(m)' <=> Live(m)
      BY <2>5, <2>6 DEF PumpHas, Live, Base, TypeOK
    <3>2. QED
      BY <1>0, <2>0, <2>1, <2>2, <2>4, <3>1 DEF Flat, InHand, OneHand
  <2>7. CASE /\ ppc' = [ppc EXCEPT ![c] = "check"]
             /\ fate' = [fate EXCEPT ![MsgOf(o)] = "sampled"] \/ fate' = [fate EXCEPT ![k] = "dropped"]
             /\ UNCHANGED pobj
    <3>1. /\ ~PumpHas(c, m)'
          /\ \A e \in Clients \ {c} : PumpHas(e, m)' <=> PumpHas(e, m)
          /\ Live(m)' <=> Live(m) /\ m # k
      BY <2>5, <2>7 DEF PumpHas, Live, Base, TypeOK
    <3>2. QED
      BY <1>0, <2>0, <2>1, <2>2, <2>4, <3>1 DEF Flat, InHand, OneHand
  <2>8. QED
    BY <1>2, <2>6, <2>7, Zenon DEF PumpTakeBackend, Taken, Undecodable, o
<1>3. CASE PumpPush(c)
  <2> DEFINE o == pobj[c]  k == MsgOf(o)
  <2>0. Rest /\ UNCHANGED <<memory, backend, fate, pobj>> /\ o \in Objs /\ k \in Msgs
    BY <1>3, ObjsFacts DEF PumpPush, Base, HandsFull
  <2>1. QueuesKept(m) /\ (Live(m)' <=> Live(m)) /\ (Single(m)' <=> Single(m))
    BY <2>0, SameFlags DEF QueuesKept
  <2>2. PumpHas(c, m) <=> m = k
    BY <1>3 DEF PumpPush, PumpHas
  <2>3. inFlight[k] = NoObj
    BY <1>3, <1>0, <2>0 DEF PumpPush, PumpHas, Flat, InHand, InFlight
  <2>4. inFlight' = [inFlight EXCEPT ![k] = o] /\ ppc' = [ppc EXCEPT ![c] = "add"]
    BY <1>3, <2>3, Zenon DEF PumpPush
  <2>5. InFlight(m)' <=> InFlight(m) \/ m = k
    BY <2>0, <2>4, SetsAssumption DEF InFlight, Base, TypeOK
  <2>6. ~PumpHas(c, m)' /\ \A e \in Clients \ {c} : PumpHas(e, m)' <=> PumpHas(e, m)
    BY <2>0, <2>4 DEF PumpHas, Base, TypeOK
  <2>7. QED
    BY <1>0, <2>0, <2>1, <2>2, <2>5, <2>6 DEF Flat, InHand, OneHand, QueuesKept
<1>4. CASE \/ PumpSub(c) \/ PumpCheck(c) \/ PumpReadyState(c) \/ PumpTick(c)
           \/ PumpAdd(c) \/ PumpCount(c) \/ PumpSend(c) \/ PumpExit(c)
  <2>1. QuietPump(c)
    BY <1>4, PumpQuiet
  <2>2. Flat(m) /\ Single(m)
    BY <2>1 DEF QuietPump, OnePlace, Flushing
  <2>3. QED
    BY <2>1, <2>2, QuietKept, KeptFlat
<1>5. QED
  BY <1>1, <1>2, <1>3, <1>4 DEF Pump

(* A client's IO loop.                                                     *)
LEMMA IoPlaces == ASSUME NEW c \in Clients, Base, OnePlace, Io(c) PROVE OnePlace'
<1> SUFFICES ASSUME ~Flushing', NEW m \in Msgs PROVE Flat(m)' /\ Single(m)'
  BY DEF OnePlace
<1> DEFINE Rest == UNCHANGED <<spc, sobj, ppc, pobj, xpc>>
           Others == \A e \in Clients \ {c} : IoHas(e, m)' <=> IoHas(e, m)
<1> USE DEF queueVars, flightVars, deferVars, topicVars, pumpVars, ioVars, scanVars, adminVars, ioOthers, cmdRest
<1>0. ASSUME Rest
      PROVE  /\ \A k \in Msgs : Flat(k) /\ Single(k)
             /\ \A e \in Clients : PumpHas(e, m)' <=> PumpHas(e, m)
             /\ ScanHas(m)' <=> ScanHas(m)
  <2>1. \A k \in Msgs : Flat(k) /\ Single(k)
    BY <1>0 DEF OnePlace, Flushing
  <2>2. QED
    BY <1>0, <2>1, SameFlags
<1>a. ASSUME NEW pc \in {"idle", "count"}, IoDrop(c, pc) PROVE ~IoHas(c, m)' /\ Others
  BY <1>a DEF IoDrop, IoHas, Base, TypeOK
<1>1. ASSUME NEW kind \in Commands \ {"CLS"}, NEW k \in Msgs, IoPop(c, kind, k)
      PROVE  Flat(m)' /\ Single(m)'
  <2>0. Rest /\ UNCHANGED <<memory, backend, deferred>>
    BY <1>1 DEF IoPop
  <2>1. QueuesKept(m) /\ (InDeferred(m)' <=> InDeferred(m)) /\ (Single(m)' <=> Single(m))
    BY <2>0, SameFlags DEF QueuesKept
  <2>2. InFlight(k) /\ ~IoHas(c, m) /\ (InFlight(m)' <=> InFlight(m) /\ m # k)
    BY <1>1 DEF IoPop, InFlight, IoHas, Base, TypeOK
  <2>3. inFlight[k] \in Objs /\ MsgOf(inFlight[k]) = k
    BY <1>1 DEF IoPop, Base, TypeOK, HandsFull
  <2>4. (IoHas(c, m)' <=> m = k /\ kind # "FIN") /\ Others
    BY <1>1, <2>3 DEF IoPop, IoHas, Base, TypeOK
  <2>5. Live(m)' <=> Live(m) /\ ~(m = k /\ kind = "FIN")
    BY <1>1 DEF IoPop, Live, Base, TypeOK
  <2>6. QED
    BY <1>0, <2>0, <2>1, <2>2, <2>4, <2>5 DEF Flat, InHand, OneHand, QueuesKept
<1>2. CASE IoRequeue(c)
  <2> DEFINE o == ioobj[c]  k == MsgOf(o)
  <2>0. Rest /\ UNCHANGED <<inFlight, deferred>> /\ o \in Objs /\ k \in Msgs
    BY <1>2, ObjsFacts DEF IoRequeue, Base, HandsFull
  <2>1. MapsKept(m) /\ ~IoHas(c, m)' /\ Others
    BY <1>2, <1>a, <2>0, SameFlags, Zenon DEF MapsKept, IoRequeue
  <2>2. IoHas(c, k) /\ (IoHas(c, m) <=> m = k)
    BY <1>2 DEF IoRequeue, IoHas, Base, HandsFull
  <2>3. ~InMemory(k) /\ ~InBackend(k) /\ Single(k)
    BY <1>0, <2>0, <2>2 DEF Flat, InHand
  <2> HIDE DEF o, k
  <2>4. m = k => ~InFlight(m)' /\ ~InDeferred(m)' /\ ~ScanHas(m)' /\ ~InHand(m)'
    BY <1>0, <2>0, <2>1, <2>2 DEF Flat, InHand, OneHand, MapsKept
  <2>5. m # k => HandsKept(m) /\ MapsKept(m) /\ (ScanHas(m)' <=> ScanHas(m))
    BY <1>0, <2>0, <2>1, <2>2 DEF HandsKept
  <2>6. /\ Single(m)'
        /\ m # k => QueuesKept(m) /\ (Live(m)' <=> Live(m))
        /\ m = k => /\ Live(m)' <=> InMemory(m)' \/ InBackend(m)'
                    /\ ~(InMemory(m)' /\ InBackend(m)')
    <3>1. CASE PutOk(o) \/ PutFails(o)
      BY <1>0, <2>0, <2>3, <3>1, PutMoves DEF Base, k
    <3>2. CASE fate' = [fate EXCEPT ![k] = "refused"] /\ UNCHANGED <<memory, backend>>
      <4>1. QueuesKept(m) /\ Single(m)'
        BY <1>0, <2>0, <3>2, SameFlags DEF QueuesKept
      <4>2. Live(m)' <=> Live(m) /\ m # k
        BY <2>0, <3>2 DEF Live, Base, TypeOK
      <4>3. QED
        BY <2>3, <4>1, <4>2 DEF QueuesKept
    <3>3. QED
      BY <1>2, <3>1, <3>2, Zenon DEF IoRequeue, o, k
  <2>7. QED
    BY <1>0, <2>0, <2>4, <2>5, <2>6, PutFlat, KeptFlat DEF Kept
<1>3. CASE IoDefer(c)
  <2> DEFINE o == ioobj[c]  k == MsgOf(o)
  <2>0. Rest /\ UNCHANGED <<inFlight, memory, backend>> /\ o \in Objs /\ k \in Msgs
    BY <1>3, ObjsFacts DEF IoDefer, Base, HandsFull
  <2>1. QueuesKept(m) /\ (InFlight(m)' <=> InFlight(m)) /\ (Single(m)' <=> Single(m))
    BY <2>0, SameFlags DEF QueuesKept
  <2>2. IoHas(c, k) /\ (IoHas(c, m) <=> m = k)
    BY <1>3 DEF IoDefer, IoHas, Base, HandsFull
  <2>3. deferred[k] = NoObj
    BY <1>0, <2>0, <2>2 DEF Flat, InHand, InDeferred
  <2>4. /\ deferred' = [deferred EXCEPT ![k] = o] /\ iopc' = [iopc EXCEPT ![c] = "deferPQ"]
        /\ UNCHANGED <<iokind, ioobj, fate>>
    BY <1>3, <2>3, Zenon DEF IoDefer
  <2>5. (InDeferred(m)' <=> InDeferred(m) \/ m = k) /\ (Live(m)' <=> Live(m))
    BY <2>0, <2>4, SetsAssumption DEF InDeferred, Live, Base, TypeOK
  <2>6. ~IoHas(c, m)' /\ Others
    BY <2>4 DEF IoHas, Base, TypeOK
  <2> HIDE DEF o, k
  <2>7. QED
    BY <1>0, <2>0, <2>1, <2>2, <2>5, <2>6 DEF Flat, InHand, OneHand, QueuesKept
<1>4. CASE IoTouch(c)
  <2> DEFINE o == ioobj[c]  k == MsgOf(o)
  <2>0. Rest /\ UNCHANGED <<deferred, memory, backend>> /\ o \in Objs /\ k \in Msgs
    BY <1>4, ObjsFacts DEF IoTouch, Base, HandsFull
  <2>1. QueuesKept(m) /\ (InDeferred(m)' <=> InDeferred(m)) /\ (Single(m)' <=> Single(m))
    BY <2>0, SameFlags DEF QueuesKept
  <2>2. IoHas(c, k) /\ (IoHas(c, m) <=> m = k)
    BY <1>4 DEF IoTouch, IoHas, Base, HandsFull
  <2>3. inFlight[k] = NoObj
    BY <1>0, <2>0, <2>2 DEF Flat, InHand, InFlight
  <2>4. /\ inFlight' = [inFlight EXCEPT ![k] = o] /\ iopc' = [iopc EXCEPT ![c] = "touchPQ"]
        /\ UNCHANGED <<iokind, ioobj, fate>>
    BY <1>4, <2>3, Zenon DEF IoTouch
  <2>5. (InFlight(m)' <=> InFlight(m) \/ m = k) /\ (Live(m)' <=> Live(m))
    BY <2>0, <2>4, SetsAssumption DEF InFlight, Live, Base, TypeOK
  <2>6. ~IoHas(c, m)' /\ Others
    BY <2>4 DEF IoHas, Base, TypeOK
  <2> HIDE DEF o, k
  <2>7. QED
    BY <1>0, <2>0, <2>1, <2>2, <2>5, <2>6 DEF Flat, InHand, OneHand, QueuesKept
<1>5. ASSUME NEW n,
             \/ Sub(c) \/ SubCheck(c) \/ Rdy(c, n) \/ Cls(c) \/ IoRemove(c) \/ IoDeferPQ(c)
             \/ IoTouchPQ(c) \/ IoCount(c) \/ IoNotify(c) \/ IoExit(c) \/ IoRemoveClient(c)
      PROVE  Flat(m)' /\ Single(m)'
  <2>1. QuietIo(c)
    BY <1>5, IoQuiet
  <2>2. Flat(m) /\ Single(m)
    BY <2>1 DEF QuietIo, OnePlace, Flushing
  <2>3. QED
    BY <2>1, <2>2, QuietKept, KeptFlat
<1>6. QED
  BY <1>1, <1>2, <1>3, <1>4, <1>5, Zenon DEF Io

(* The queue scan worker.                                                  *)
LEMMA ScanPlaces == ASSUME Base, OnePlace, Scan PROVE OnePlace'
<1> SUFFICES ASSUME ~Flushing', NEW m \in Msgs PROVE Flat(m)' /\ Single(m)'
  BY DEF OnePlace
<1> DEFINE Rest == UNCHANGED <<ppc, pobj, iopc, iokind, ioobj, xpc>>
<1> USE DEF queueVars, flightVars, deferVars, topicVars, pumpVars, ioVars, adminVars, scanOthers, scanRest
<1>0. ASSUME Rest PROVE (\A k \in Msgs : Flat(k) /\ Single(k)) /\ HandsKept(m)
  <2>1. \A k \in Msgs : Flat(k) /\ Single(k)
    BY <1>0 DEF OnePlace, Flushing
  <2>2. QED
    BY <1>0, <2>1, SameFlags DEF HandsKept
<1>1. CASE ScanPop
  <2> DEFINE k == MsgOf(sobj)
  <2>0. Rest /\ UNCHANGED <<memory, backend, deferred, fate>> /\ k \in Msgs
    BY <1>1, ObjsFacts DEF ScanPop, Base, HandsFull
  <2>1. /\ QueuesKept(m) /\ (InDeferred(m)' <=> InDeferred(m))
        /\ (Live(m)' <=> Live(m)) /\ (Single(m)' <=> Single(m))
    BY <2>0, SameFlags DEF QueuesKept
  <2>2. ~ScanHas(m)
    BY <1>1 DEF ScanPop, ScanHas
  <2>3. CASE /\ inFlight[k] # NoObj /\ inFlight' = [inFlight EXCEPT ![k] = NoObj]
             /\ spc' = "timedout" /\ UNCHANGED sobj
    <3>1. InFlight(k) /\ (InFlight(m)' <=> InFlight(m) /\ m # k) /\ (ScanHas(m)' <=> m = k)
      BY <2>0, <2>3 DEF InFlight, ScanHas, Base, TypeOK
    <3>2. QED
      BY <1>0, <2>0, <2>1, <2>2, <3>1 DEF Flat, InHand, OneHand, QueuesKept, HandsKept
  <2>4. CASE spc' \in {"between", "idle"} /\ UNCHANGED inFlight
    <3>1. (InFlight(m)' <=> InFlight(m)) /\ ~ScanHas(m)'
      BY <2>4, SameFlags DEF ScanHas
    <3>2. QED
      BY <1>0, <2>0, <2>1, <2>2, <3>1, KeptFlat DEF Kept, MapsKept
  <2>5. QED
    BY <1>1, <2>3, <2>4, Zenon DEF ScanPop
<1>2. CASE ScanPopDeferred
  <2> DEFINE k == MsgOf(sobj)
  <2>0. Rest /\ UNCHANGED <<memory, backend, inFlight, fate>> /\ k \in Msgs
    BY <1>2, ObjsFacts DEF ScanPopDeferred, Base, HandsFull
  <2>1. /\ QueuesKept(m) /\ (InFlight(m)' <=> InFlight(m))
        /\ (Live(m)' <=> Live(m)) /\ (Single(m)' <=> Single(m))
    BY <2>0, SameFlags DEF QueuesKept
  <2>2. ~ScanHas(m)
    BY <1>2 DEF ScanPopDeferred, ScanHas
  <2>3. CASE /\ deferred[k] # NoObj /\ deferred' = [deferred EXCEPT ![k] = NoObj]
             /\ spc' = "dput" /\ UNCHANGED sobj
    <3>1. InDeferred(k) /\ (InDeferred(m)' <=> InDeferred(m) /\ m # k) /\ (ScanHas(m)' <=> m = k)
      BY <2>0, <2>3 DEF InDeferred, ScanHas, Base, TypeOK
    <3>2. QED
      BY <1>0, <2>0, <2>1, <2>2, <3>1 DEF Flat, InHand, OneHand, QueuesKept, HandsKept
  <2>4. CASE spc' \in {"between", "idle"} /\ UNCHANGED deferred
    <3>1. (InDeferred(m)' <=> InDeferred(m)) /\ ~ScanHas(m)'
      BY <2>4, SameFlags DEF ScanHas
    <3>2. QED
      BY <1>0, <2>0, <2>1, <2>2, <3>1, KeptFlat DEF Kept, MapsKept
  <2>5. QED
    BY <1>2, <2>3, <2>4, Zenon DEF ScanPopDeferred
<1>3. CASE ScanPut
  <2> DEFINE k == MsgOf(sobj)
  <2>0. Rest /\ UNCHANGED <<inFlight, deferred>> /\ sobj \in Objs /\ k \in Msgs
    BY <1>3, ObjsFacts DEF ScanPut, Base, HandsFull
  <2>1. MapsKept(m) /\ ~ScanHas(m)'
    BY <1>3, <2>0, SameFlags DEF MapsKept, ScanPut, ScanHas
  <2>2. ScanHas(k) /\ (ScanHas(m) <=> m = k)
    BY <1>3 DEF ScanPut, ScanHas
  <2>3. ~InMemory(k) /\ ~InBackend(k) /\ Single(k)
    BY <1>0, <2>0, <2>2 DEF Flat
  <2> HIDE DEF k
  <2>4. m = k => ~InFlight(m)' /\ ~InDeferred(m)' /\ ~ScanHas(m)' /\ ~InHand(m)'
    BY <1>0, <2>0, <2>1, <2>2 DEF Flat, InHand, MapsKept, HandsKept
  <2>5. m # k => Kept(m) <=> QueuesKept(m) /\ (Live(m)' <=> Live(m))
    BY <1>0, <2>0, <2>1, <2>2 DEF Kept
  <2>6. PutOk(sobj) \/ PutFails(sobj)
    BY <1>3 DEF ScanPut
  <2>7. /\ Single(m)'
        /\ m # k => QueuesKept(m) /\ (Live(m)' <=> Live(m))
        /\ m = k => /\ Live(m)' <=> InMemory(m)' \/ InBackend(m)'
                    /\ ~(InMemory(m)' /\ InBackend(m)')
    BY <1>0, <2>0, <2>3, <2>6, PutMoves DEF Base, k
  <2>8. QED
    BY <1>0, <2>0, <2>4, <2>5, <2>7, PutFlat, KeptFlat
<1>4. CASE ScanPutDeferred
  <2> DEFINE k == MsgOf(sobj)
  <2>0. Rest /\ UNCHANGED <<inFlight, deferred>> /\ sobj \in Objs /\ k \in Msgs
    BY <1>4, ObjsFacts DEF ScanPutDeferred, Base, HandsFull
  <2>1. MapsKept(m) /\ ~ScanHas(m)'
    BY <1>4, <2>0, SameFlags DEF MapsKept, ScanPutDeferred, ScanHas
  <2>2. ScanHas(k) /\ (ScanHas(m) <=> m = k)
    BY <1>4 DEF ScanPutDeferred, ScanHas
  <2>3. ~InMemory(k) /\ ~InBackend(k) /\ Single(k)
    BY <1>0, <2>0, <2>2 DEF Flat
  <2> HIDE DEF k
  <2>4. m = k => ~InFlight(m)' /\ ~InDeferred(m)' /\ ~ScanHas(m)' /\ ~InHand(m)'
    BY <1>0, <2>0, <2>1, <2>2 DEF Flat, InHand, MapsKept, HandsKept
  <2>5. m # k => Kept(m) <=> QueuesKept(m) /\ (Live(m)' <=> Live(m))
    BY <1>0, <2>0, <2>1, <2>2 DEF Kept
  <2>6. PutOk(sobj) \/ PutFails(sobj)
    BY <1>4 DEF ScanPutDeferred
  <2>7. /\ Single(m)'
        /\ m # k => QueuesKept(m) /\ (Live(m)' <=> Live(m))
        /\ m = k => /\ Live(m)' <=> InMemory(m)' \/ InBackend(m)'
                    /\ ~(InMemory(m)' /\ InBackend(m)')
    BY <1>0, <2>0, <2>3, <2>6, PutMoves DEF Base, k
  <2>8. QED
    BY <1>0, <2>0, <2>4, <2>5, <2>7, PutFlat, KeptFlat
<1>5. CASE \/ ScanInFlight \/ (\E o \in Objs : ScanShift(o)) \/ ScanInFlightDone
           \/ ScanTimedOut \/ ScanNotify \/ ScanDeferred
           \/ (\E o \in Objs : ScanShiftDeferred(o)) \/ ScanDeferredDone
  <2>1. QuietScan
    BY <1>5, ScanQuiet
  <2>2. Flat(m) /\ Single(m)
    BY <2>1 DEF QuietScan, OnePlace, Flushing
  <2>3. Kept(m) /\ Single(m)'
    BY <2>1, <2>2, SameFlags DEF QuietScan, Kept, HandsKept, QueuesKept, MapsKept
  <2>4. QED
    BY <2>2, <2>3, KeptFlat
<1>6. QED
  BY <1>1, <1>2, <1>3, <1>4, <1>5, Zenon DEF Scan

(* The handlers that pause, empty and close the channel.                   *)
LEMMA AdminPlaces == ASSUME Base, OnePlace, Admin PROVE OnePlace'
<1> SUFFICES ASSUME ~Flushing', NEW m \in Msgs PROVE Flat(m)' /\ Single(m)'
  BY DEF OnePlace
<1> DEFINE Rest == UNCHANGED <<ppc, pobj, iopc, iokind, ioobj, spc, sobj>>
<1> USE DEF queueVars, flightVars, deferVars, topicVars, pumpVars, ioVars, scanVars, clientVars, adminVars, adminOthers, adminRest, topicOthers
<1>0. ASSUME Rest PROVE HandsKept(m) /\ (ScanHas(m)' <=> ScanHas(m))
  BY <1>0, SameFlags DEF HandsKept
<1>1. CASE EmptyInFlight
  <2>0. Rest /\ UNCHANGED <<memory, backend, deferred>>
    BY <1>1 DEF EmptyInFlight
  <2>1. (InMemory(m)' <=> InMemory(m)) /\ (InBackend(m)' <=> InBackend(m)) /\ (InDeferred(m)' <=> InDeferred(m))
    BY <2>0, SameFlags
  <2>2. Flat(m) /\ Single(m)
    BY <1>1, <2>0 DEF OnePlace, Flushing, EmptyInFlight
  <2>3. ~InFlight(m)' /\ Single(m)' /\ (Live(m)' <=> Live(m) /\ ~InFlight(m))
    BY <1>1, <2>0, <2>2 DEF EmptyInFlight, InFlight, Live, Single, Base, TypeOK
  <2>4. QED
    BY <1>0, <2>0, <2>1, <2>2, <2>3 DEF Flat, InHand, OneHand, HandsKept
<1>2. CASE EmptyDeferred
  <2>0. Rest /\ UNCHANGED <<memory, backend, inFlight>>
    BY <1>2 DEF EmptyDeferred
  <2>1. (InMemory(m)' <=> InMemory(m)) /\ (InBackend(m)' <=> InBackend(m)) /\ (InFlight(m)' <=> InFlight(m))
    BY <2>0, SameFlags
  <2>2. Flat(m) /\ Single(m)
    BY <1>2, <2>0 DEF OnePlace, Flushing, EmptyDeferred
  <2>3. ~InDeferred(m)' /\ Single(m)' /\ (Live(m)' <=> Live(m) /\ ~InDeferred(m))
    BY <1>2, <2>0, <2>2 DEF EmptyDeferred, InDeferred, Live, Single, Base, TypeOK
  <2>4. QED
    BY <1>0, <2>0, <2>1, <2>2, <2>3 DEF Flat, InHand, OneHand, HandsKept
<1>3. CASE EmptyMemory
  <2>0. Rest /\ UNCHANGED <<backend, inFlight, deferred>>
    BY <1>3 DEF EmptyMemory
  <2>1. (InBackend(m)' <=> InBackend(m)) /\ (InFlight(m)' <=> InFlight(m)) /\ (InDeferred(m)' <=> InDeferred(m))
    BY <2>0, SameFlags
  <2>2. Flat(m) /\ Single(m)
    BY <1>3, <2>0 DEF OnePlace, Flushing, EmptyMemory
  <2>3. ~InMemory(m)' /\ Single(m)' /\ (Live(m)' <=> Live(m) /\ ~InMemory(m))
    BY <1>3, <2>0, <2>2 DEF EmptyMemory, InMemory, Live, Single, Base, TypeOK
  <2>4. QED
    BY <1>0, <2>0, <2>1, <2>2, <2>3 DEF Flat, InHand, OneHand, HandsKept
<1>4. CASE EmptyBackend
  <2>0. Rest /\ UNCHANGED <<memory, inFlight, deferred>>
    BY <1>4 DEF EmptyBackend
  <2>1. (InMemory(m)' <=> InMemory(m)) /\ (InFlight(m)' <=> InFlight(m)) /\ (InDeferred(m)' <=> InDeferred(m))
    BY <2>0, SameFlags
  <2>2. Flat(m) /\ Single(m) /\ xpc # "closed"
    BY <1>4, <2>0 DEF OnePlace, Flushing, EmptyBackend
  <2>3. ~InBackend(m)' /\ Single(m)' /\ (Live(m)' <=> Live(m) /\ ~InBackend(m))
    BY <1>4, <2>0, <2>2 DEF EmptyBackend, InBackend, Live, Single, Base, TypeOK
  <2>4. QED
    BY <1>0, <2>0, <2>1, <2>2, <2>3 DEF Flat, InHand, OneHand, HandsKept
<1>5. CASE \/ (\E b \in BOOLEAN : SetPaused(b)) \/ PauseClients \/ EmptyClients
           \/ (\E mode \in {"close", "delete"} : Exit(mode)) \/ ExitClients
  <2>1. QuietAdmin
    <3>1. CASE ExitClients
      BY <3>1 DEF ExitClients, QuietAdmin
    <3>2. QED
      BY <1>5, <3>1, AdminQuiet, Zenon
  <2>2. ~Flushing
    BY <1>5 DEF Flushing, SetPaused, PauseClients, EmptyClients, Exit, ExitClients
  <2>3. Flat(m) /\ Single(m)
    BY <2>2 DEF OnePlace
  <2>4. Kept(m) /\ Single(m)'
    BY <2>1, <2>3, SameFlags DEF QuietAdmin, Kept, HandsKept, QueuesKept, MapsKept
  <2>5. QED
    BY <2>3, <2>4, KeptFlat
<1>6. CASE (\E o \in Objs : FlushMemory(o)) \/ FlushMemoryDone \/ FlushInFlight \/ FlushDeferred
  BY <1>6 DEF Flushing, FlushMemory, FlushMemoryDone, FlushInFlight, FlushDeferred
<1>7. QED
  BY <1>1, <1>2, <1>3, <1>4, <1>5, <1>6, Zenon DEF Admin

-----------------------------------------------------------------------------
(* A new channel has no messages.                                          *)
LEMMA OnePlaceInit == Init => OnePlace
BY DEF Init, OnePlace, Flat, Single, InMemory, InBackend, InFlight, InDeferred,
       ScanHas, InHand, PumpHas, IoHas, OneHand, Live

(* Every step of every goroutine keeps each message in one place.          *)
LEMMA OnePlaceStep == ASSUME Base, OnePlace, [Next]_vars PROVE OnePlace'
<1>1. CASE UNCHANGED vars
  <2>1. UNCHANGED <<memory, backend, inFlight, deferred, spc, sobj, iopc, iokind, ioobj, ppc, pobj, fate, xpc>>
    BY <1>1 DEF vars, queueVars, flightVars, deferVars, pumpVars, ioVars, scanVars, adminVars
  <2>2. QED
    BY <2>1, SameFlags, KeptFlat
       DEF OnePlace, Flushing, Kept, HandsKept, QueuesKept, MapsKept
<1>2. ASSUME NEW c \in Clients, Pump(c) PROVE OnePlace'
  BY <1>2, PumpPlaces
<1>3. ASSUME NEW c \in Clients, Io(c) PROVE OnePlace'
  BY <1>3, IoPlaces
<1>4. CASE Topic
  BY <1>4, TopicPlaces
<1>5. CASE Scan
  BY <1>5, ScanPlaces
<1>6. CASE Admin
  BY <1>6, AdminPlaces
<1>7. QED
  BY <1>1, <1>2, <1>3, <1>4, <1>5, <1>6 DEF Next

(* The places as pairs, one by one.                                        *)
LEMMA PlaceCases ==
  ASSUME NEW p \in Places, NEW m, At(m, p)
  PROVE  \/ p = <<"memory", NoClient>> /\ InMemory(m)
         \/ p = <<"backend", NoClient>> /\ InBackend(m)
         \/ p = <<"inFlight", NoClient>> /\ InFlight(m)
         \/ p = <<"deferred", NoClient>> /\ InDeferred(m)
         \/ p = <<"scan", NoClient>> /\ ScanHas(m)
         \/ \E c \in Clients : p = <<"pump", c>> /\ PumpHas(c, m)
         \/ \E c \in Clients : p = <<"io", c>> /\ IoHas(c, m)
BY DEF Places, At, InBackend, InFlight, InDeferred

(* A message that is somewhere is at one of the Places.                    *)
LEMMA PlacesReached ==
  ASSUME NEW m
  PROVE  /\ InMemory(m) \/ InBackend(m) \/ InFlight(m) \/ InDeferred(m) \/ ScanHas(m)
              => \E p \in Places : At(m, p)
         /\ InHand(m) => \E p \in Places : At(m, p)
<1>1. \A s \in {"memory", "backend", "inFlight", "deferred", "scan"} : <<s, NoClient>> \in Places
  BY DEF Places
<1>2. \A s \in {"pump", "io"}, c \in Clients : <<s, c>> \in Places
  BY DEF Places
<1>3. /\ InMemory(m) => At(m, <<"memory", NoClient>>)
      /\ InBackend(m) => At(m, <<"backend", NoClient>>)
      /\ InFlight(m) => At(m, <<"inFlight", NoClient>>)
      /\ InDeferred(m) => At(m, <<"deferred", NoClient>>)
      /\ ScanHas(m) => At(m, <<"scan", NoClient>>)
      /\ \A c \in Clients : PumpHas(c, m) => At(m, <<"pump", c>>)
      /\ \A c \in Clients : IoHas(c, m) => At(m, <<"io", c>>)
  BY DEF At, InBackend, InFlight, InDeferred
<1>4. QED
  BY <1>1, <1>2, <1>3 DEF InHand

(* The invariant that is proved by induction implies the one TLC checks.   *)
LEMMA OnePlaceIsExact == OnePlace => ExactlyOnePlace
<1> SUFFICES ASSUME ~Flushing, NEW m \in Msgs, Flat(m), Single(m)
             PROVE  /\ \A p, q \in Places : At(m, p) /\ At(m, q) => p = q
                    /\ fate[m] = "live" <=> \E p \in Places : At(m, p)
  BY DEF OnePlace, ExactlyOnePlace, Single
<1>1. ASSUME NEW p \in Places, NEW q \in Places, At(m, p), At(m, q) PROVE p = q
  BY <1>1, PlaceCases DEF Flat, InHand, OneHand
<1>2. ASSUME Live(m) PROVE \E p \in Places : At(m, p)
  BY <1>2, PlacesReached DEF Flat
<1>3. ASSUME NEW p \in Places, At(m, p) PROVE Live(m)
  BY <1>3, PlaceCases DEF Flat, InHand
<1>4. QED
  BY <1>1, <1>2, <1>3 DEF Live

(* For every number of messages and clients: until a closing channel       *)
(* flushes, timeouts, deliveries, FIN, REQ and TOUCH commands, disconnects *)
(* and Empty() that race for a message neither lose nor duplicate it.      *)
THEOREM NsqChannelExactlyOnePlace == Spec => []ExactlyOnePlace
<1>1. Init => OnePlace
  BY OnePlaceInit
<1>2. Base /\ OnePlace /\ [Next]_vars => OnePlace'
  BY OnePlaceStep
<1>3. OnePlace => ExactlyOnePlace
  BY OnePlaceIsExact
<1>4. QED
  BY <1>1, <1>2, <1>3, NsqChannelBase, PTL DEF Spec

=============================================================================
