--------------------------- MODULE NsqReachProofs ---------------------------
(***************************************************************************)
(* No message is out of reach, for every number of messages and clients:   *)
(* a channel that is closed once its clients are gone leaves everything it *)
(* still owes in its backend, and the queue scan finds everything that is  *)
(* in flight or deferred.                                                  *)
(***************************************************************************)
EXTENDS NsqClientProofs

(* A quiet close: nobody but exit() and the handlers is left to act, and   *)
(* what the channel owes is where flush() has yet to look.                 *)
Owed(m) ==
  \/ backend[m] > 0
  \/ xpc # "closed" /\ deferred[m] # NoObj
  \/ xpc \in {"clients", "flushMemory", "flushInFlight"} /\ inFlight[m] # NoObj
  \/ xpc \in {"clients", "flushMemory"} /\ InMemory(m)

Closing ==
  /\ xmode = "close" /\ xpc \in {"clients", "flushMemory", "flushInFlight", "flushDeferred", "closed"}
  /\ tpc = "exited" /\ spc \in {"idle", "between"}
  /\ \A c \in Clients : cstate[c] = "gone" /\ ppc[c] = "exited"

QuietInv ==
  quiet => /\ Closing
           /\ ~Ephemeral /\ ~BackendFails => \A m \in Msgs : fate[m] = "live" => Owed(m)

(* The goroutines of the clients and of the topic have ended, and the scan *)
(* finds the channel exiting.                                              *)
LEMMA PumpEnded == ASSUME NEW c \in Clients, ppc[c] = "exited" PROVE ~Pump(c)
BY DEF Pump, PumpSub, PumpCheck, PumpReadyState, PumpTick, PumpTakeMemory, PumpTakeBackend, PumpPush, PumpAdd,
       PumpCount, PumpSend, PumpExit

LEMMA IoEnded == ASSUME NEW c \in Clients, cstate[c] = "gone", iopc[c] = "idle" PROVE ~Io(c)
BY DEF Io, Sub, SubCheck, Cls, Rdy, IoPop, IoRemove, IoRequeue, IoDefer, IoDeferPQ, IoTouch, IoTouchPQ, IoCount,
       IoNotify, IoExit, IoRemoveClient

LEMMA TopicEnded == ASSUME tpc = "exited" PROVE ~Topic
BY DEF Topic, PutMessage, PutMessageDeferred, TopicAddToDeferredPQ

LEMMA ScanEnded ==
  ASSUME Scan, spc \in {"idle", "between"}, xpc # "open"
  PROVE  spc' = "idle" /\ UNCHANGED <<backend, deferred, inFlight, memory, fate>>
<1>1. ScanDeferred
  BY DEF Scan, ScanInFlight, ScanShift, ScanInFlightDone, ScanPop, ScanTimedOut, ScanNotify, ScanPut,
         ScanShiftDeferred, ScanDeferredDone, ScanPopDeferred, ScanPutDeferred
<1>2. QED
  BY <1>1 DEF ScanDeferred, Exiting, scanRest, queueVars, flightVars, deferVars

(* What the handlers and exit() do to the control of a quiet close.        *)
LEMMA AdminCloses ==
  ASSUME Admin, Closing
  PROVE  Closing' /\ quiet' = quiet
<1> USE DEF Closing, adminOthers, adminRest, topicOthers, adminVars, topicVars, clientVars, pumpVars, scanVars
<1>1. CASE (\E b \in BOOLEAN : SetPaused(b)) \/ PauseClients \/ EmptyDeferred \/ EmptyClients \/ EmptyMemory
  BY <1>1 DEF SetPaused, PauseClients, EmptyDeferred, EmptyClients, EmptyMemory
<1>2. CASE EmptyInFlight \/ EmptyBackend
  BY <1>2 DEF EmptyInFlight, EmptyBackend
<1>3. CASE (\E mode \in {"close", "delete"} : Exit(mode)) \/ ExitClients
  BY <1>3 DEF Exit, ExitClients
<1>4. CASE (\E o \in Objs : FlushMemory(o)) \/ FlushMemoryDone \/ FlushInFlight \/ FlushDeferred
  BY <1>4 DEF FlushMemory, FlushMemoryDone, FlushInFlight, FlushDeferred
<1>5. QED
  BY <1>1, <1>2, <1>3, <1>4 DEF Admin

(* A step that leaves a message where flush() will look for it.            *)
LEMMA OwedKept ==
  ASSUME NEW m \in Msgs, Owed(m), UNCHANGED xpc,
         backend[m] > 0 => backend'[m] > 0,
         inFlight[m] # NoObj => inFlight'[m] # NoObj,
         deferred[m] # NoObj => deferred'[m] # NoObj,
         InMemory(m) => InMemory(m)'
  PROVE  Owed(m)'
BY DEF Owed

(* exit() and Empty() lose nothing without saying so.                      *)
LEMMA AdminOwes ==
  ASSUME Base, Closing, ~Ephemeral, ~BackendFails, Admin, NEW m \in Msgs, fate'[m] = "live",
         fate[m] = "live" => Owed(m)
  PROVE  Owed(m)'
<1>0. /\ memory \in [Objs -> Nat] /\ backend \in [Msgs -> Nat] /\ fate \in [Msgs -> Fates]
      /\ inFlight \in [Msgs -> Objs \cup {NoObj}] /\ deferred \in [Msgs -> Objs \cup {NoObj}]
  BY DEF Base, TypeOK
<1> USE DEF adminRest, topicOthers, queueVars, flightVars, deferVars, topicVars, adminVars
<1>1. CASE (\E b \in BOOLEAN : SetPaused(b)) \/ PauseClients \/ EmptyClients
  <2>1. UNCHANGED <<xpc, backend, inFlight, deferred, memory, fate>>
    BY <1>1 DEF SetPaused, PauseClients, EmptyClients
  <2>2. QED
    BY <2>1, OwedKept DEF InMemory
<1>2. CASE EmptyInFlight
  <2>1. inFlight[m] = NoObj /\ fate[m] = "live" /\ UNCHANGED <<xpc, backend, deferred, memory>>
    BY <1>0, <1>2 DEF EmptyInFlight, Closing
  <2>2. QED
    BY <2>1, OwedKept DEF InMemory
<1>3. CASE EmptyDeferred
  <2>1. deferred[m] = NoObj /\ fate[m] = "live" /\ UNCHANGED <<xpc, backend, inFlight, memory>>
    BY <1>0, <1>3 DEF EmptyDeferred
  <2>2. QED
    BY <2>1, OwedKept DEF InMemory
<1>4. CASE EmptyMemory
  <2>1. ~InMemory(m) /\ fate[m] = "live" /\ UNCHANGED <<xpc, backend, inFlight, deferred>>
    BY <1>0, <1>4 DEF EmptyMemory, InMemory
  <2>2. QED
    BY <2>1, OwedKept
<1>5. CASE EmptyBackend
  <2>1. /\ backend[m] > 0 => backend' = backend
        /\ fate[m] = "live" /\ UNCHANGED <<xpc, memory, inFlight, deferred>>
    BY <1>0, <1>5 DEF EmptyBackend, Closing
  <2>2. QED
    BY <2>1, OwedKept DEF InMemory
<1>6. CASE \E mode \in {"close", "delete"} : Exit(mode)
  BY <1>6 DEF Exit, Closing
<1>7. CASE ExitClients
  <2>1. xpc = "clients" /\ xpc' = "flushMemory" /\ UNCHANGED <<backend, inFlight, deferred, memory, fate>>
    BY <1>7 DEF ExitClients, Closing
  <2>2. QED
    BY <2>1 DEF Owed, InMemory
<1>8. ASSUME NEW o \in Objs, FlushMemory(o) PROVE Owed(m)'
  <2>1. PICK W \in {{MsgOf(o)}} : backend' = Added(W)
                                  /\ fate' = [fate EXCEPT ![MsgOf(o)] = IF W = {} THEN "dropped" ELSE @]
    BY <1>8 DEF FlushMemory, Written
  <2>2. MsgOf(o) \in Msgs /\ backend' = Added({MsgOf(o)}) /\ fate' = fate
    BY <1>0, <2>1, ObjsFacts
  <2>3. backend'[m] = backend[m] + (IF m = MsgOf(o) THEN 1 ELSE 0)
    BY <2>2 DEF Added
  <2>4. CASE m = MsgOf(o)
    <3>1. backend'[m] > 0
      BY <1>0, <2>3, <2>4
    <3>2. QED
      BY <3>1 DEF Owed
  <2>5. CASE m # MsgOf(o)
    <3>1. backend'[m] = backend[m] /\ fate[m] = "live"
      BY <1>0, <2>2, <2>3, <2>5
    <3>2. UNCHANGED <<xpc, inFlight, deferred>>
      BY <1>8 DEF FlushMemory
    <3>3. \A u \in Objs : MsgOf(u) = m => memory'[u] = memory[u]
      BY <1>0, <1>8, <2>5 DEF FlushMemory
    <3>4. QED
      BY <3>1, <3>2, <3>3, OwedKept DEF InMemory
  <2>6. QED
    BY <2>4, <2>5
<1>9. CASE FlushMemoryDone
  <2>1. xpc' = "flushInFlight" /\ ~InMemory(m) /\ UNCHANGED <<backend, inFlight, deferred, memory, fate>>
    BY <1>9 DEF FlushMemoryDone, InMemory
  <2>2. QED
    BY <2>1 DEF Owed
<1>10. CASE FlushInFlight
  <2>1. PICK W \in {{k \in Msgs : inFlight[k] # NoObj}} : backend' = Added(W)
    BY <1>10 DEF FlushInFlight, Written
  <2>2. backend'[m] = backend[m] + (IF inFlight[m] # NoObj THEN 1 ELSE 0)
    BY <2>1 DEF Added
  <2>3. /\ xpc = "flushInFlight" /\ xpc' = "flushDeferred" /\ UNCHANGED <<inFlight, deferred, memory, fate>>
    BY <1>10 DEF FlushInFlight
  <2>4. (backend[m] > 0 \/ inFlight[m] # NoObj) => backend'[m] > 0
    BY <1>0, <2>2
  <2>5. QED
    BY <2>3, <2>4 DEF Owed
<1>11. CASE FlushDeferred
  <2>1. PICK W \in {{k \in Msgs : deferred[k] # NoObj}} : backend' = Added(W)
    BY <1>11 DEF FlushDeferred, Written
  <2>2. backend'[m] = backend[m] + (IF deferred[m] # NoObj THEN 1 ELSE 0)
    BY <2>1 DEF Added
  <2>3. /\ xpc = "flushDeferred" /\ xpc' = "closed" /\ UNCHANGED <<inFlight, deferred, memory, fate>>
    BY <1>11 DEF FlushDeferred
  <2>4. (backend[m] > 0 \/ deferred[m] # NoObj) => backend'[m] > 0
    BY <1>0, <2>2
  <2>5. QED
    BY <2>3, <2>4 DEF Owed
<1>12. QED
  BY <1>1, <1>2, <1>3, <1>4, <1>5, <1>6, <1>7, <1>8, <1>9, <1>10, <1>11 DEF Admin

(* A quiet close begins with everything in the queues and maps: no         *)
(* goroutine has a message in hand.                                        *)
LEMMA CloseBegins ==
  ASSUME Base, OnePlace, ClientInv, NEW mode \in {"close", "delete"}, Exit(mode), quiet'
  PROVE  Closing' /\ \A m \in Msgs : fate'[m] = "live" => Owed(m)'
<1>1. mode = "close" /\ Quiescent
  BY DEF Exit
<1>2. Closing'
  BY <1>1 DEF Exit, Quiescent, Closing, adminOthers, clientVars, pumpVars, scanVars
<1>3. UNCHANGED <<backend, deferred, inFlight, memory, fate>> /\ xpc = "open" /\ xpc' = "clients"
      /\ spc \in {"idle", "between"}
  BY DEF Exit, queueVars, deferVars, flightVars
<1>4. ASSUME NEW m \in Msgs, fate[m] = "live" PROVE Owed(m)'
  <2>1. Flat(m) /\ Live(m)
    BY <1>3, <1>4 DEF OnePlace, Flushing, Live
  <2>2. ~ScanHas(m) /\ ~InHand(m)
    BY <1>1, <1>3 DEF ScanHas, InHand, PumpHas, IoHas, Quiescent, ClientInv
  <2>3. InMemory(m) \/ InBackend(m) \/ InFlight(m) \/ InDeferred(m)
    BY <2>1, <2>2 DEF Flat
  <2>4. InMemory(m)' <=> InMemory(m)
    BY <1>3 DEF InMemory
  <2>5. QED
    BY <1>3, <2>3, <2>4 DEF Owed, InBackend, InFlight, InDeferred
<1>5. QED
  BY <1>2, <1>3, <1>4

(* Only exit() decides whether a close is quiet.                           *)
LEMMA AdminQuietFlag ==
  ASSUME Admin, ~\E mode \in {"close", "delete"} : Exit(mode)
  PROVE  quiet' = quiet
<1> USE DEF adminRest, topicOthers, adminVars
<1>1. CASE (\E b \in BOOLEAN : SetPaused(b)) \/ PauseClients \/ EmptyDeferred \/ EmptyClients \/ EmptyMemory
  BY <1>1 DEF SetPaused, PauseClients, EmptyDeferred, EmptyClients, EmptyMemory
<1>2. CASE EmptyInFlight \/ EmptyBackend \/ ExitClients
  BY <1>2 DEF EmptyInFlight, EmptyBackend, ExitClients
<1>3. CASE (\E o \in Objs : FlushMemory(o)) \/ FlushMemoryDone \/ FlushInFlight \/ FlushDeferred
  BY <1>3 DEF FlushMemory, FlushMemoryDone, FlushInFlight, FlushDeferred
<1>4. QED
  BY <1>1, <1>2, <1>3 DEF Admin

LEMMA QuietStep ==
  ASSUME Base, OnePlace, ClientInv, QuietInv, [Next]_vars
  PROVE  QuietInv'
<1> SUFFICES ASSUME quiet'
             PROVE  Closing' /\ (~Ephemeral /\ ~BackendFails => \A m \in Msgs : fate'[m] = "live" => Owed(m)')
  BY DEF QuietInv
<1>1. CASE \E mode \in {"close", "delete"} : Exit(mode)
  BY <1>1, CloseBegins
<1>2. CASE ~\E mode \in {"close", "delete"} : Exit(mode)
  <2>1. quiet
    <3>1. ASSUME NEW c \in Clients, Pump(c) \/ Io(c) PROVE quiet' = quiet
      BY <3>1, PumpFrame, IoFrame
    <3>2. CASE Topic
      BY <3>2, TopicFrame
    <3>3. CASE Scan
      BY <3>3, ScanFrame
    <3>4. CASE Admin
      BY <1>2, <3>4, AdminQuietFlag
    <3>5. CASE UNCHANGED vars
      BY <3>5 DEF vars, adminVars
    <3>6. QED
      BY <3>1, <3>2, <3>3, <3>4, <3>5 DEF Next
  <2>2. Closing /\ (~Ephemeral /\ ~BackendFails => \A m \in Msgs : fate[m] = "live" => Owed(m))
    BY <2>1 DEF QuietInv
  <2>3. \A c \in Clients : ~Pump(c) /\ ~Io(c)
    BY <2>2, PumpEnded, IoEnded DEF Closing, ClientInv
  <2>4. ~Topic
    BY <2>2, TopicEnded DEF Closing
  <2>5. CASE Scan
    <3>1. spc' = "idle" /\ UNCHANGED <<backend, deferred, inFlight, memory, fate>>
      BY <2>2, <2>5, ScanEnded DEF Closing
    <3>2. UNCHANGED <<xmode, xpc, tpc, cstate, ppc>>
      BY <2>5, ScanFrame
    <3>3. \A m \in Msgs : Owed(m) => Owed(m)'
      BY <3>1, <3>2 DEF Owed, InMemory
    <3>4. QED
      BY <2>2, <3>1, <3>2, <3>3 DEF Closing
  <2>6. CASE Admin
    BY <2>2, <2>6, AdminCloses, AdminOwes
  <2>7. CASE UNCHANGED vars
    <3>1. UNCHANGED <<xmode, xpc, tpc, spc, cstate, ppc, backend, deferred, inFlight, memory, fate>>
      BY <2>7 DEF vars, adminVars, topicVars, scanVars, clientVars, pumpVars, queueVars, deferVars, flightVars
    <3>2. \A m \in Msgs : Owed(m) => Owed(m)'
      BY <3>1 DEF Owed, InMemory
    <3>3. QED
      BY <2>2, <3>1, <3>2 DEF Closing
  <2>8. QED
    BY <2>3, <2>4, <2>5, <2>6, <2>7 DEF Next
<1>3. QED
  BY <1>1, <1>2

(* A channel that is closed once its clients are gone has every message it *)
(* owes in its backend, although Empty() may run beside exit(): it is      *)
(* either there, or flush() has yet to come to where it is.                *)
THEOREM QuietCloseKeepsAllHolds == Spec => []QuietCloseKeepsAll
<1>1. Init => QuietInv
  BY DEF Init, QuietInv
<1>2. Base /\ OnePlace /\ ClientInv /\ QuietInv /\ [Next]_vars => QuietInv'
  BY QuietStep
<1>3. QuietInv => QuietCloseKeepsAll
  BY DEF QuietInv, QuietCloseKeepsAll, Owed
<1>4. QED
  BY <1>1, <1>2, <1>3, NsqChannelBase, PlacesKept, ClientInvHolds, PTL DEF Spec
-----------------------------------------------------------------------------
(* Deferred messages.                                                      *)

(* The deferred map and queue never part: an object in the map is in the   *)
(* queue, or a goroutine that has just put it into the map is about to put *)
(* it into the queue, or the scan has just taken it out to put it back.    *)
DeferCovered(o) ==
  \/ dpq[o] > 0
  \/ spc = "dshifted" /\ sobj = o
  \/ tpc = "deferPQ" /\ tobj = o
  \/ \E c \in Clients : iopc[c] = "deferPQ" /\ ioobj[c] = o

DeferredCovered == \A m \in Msgs : deferred[m] # NoObj => DeferCovered(deferred[m])

(* A step that moves nothing.                                              *)
LEMMA DeferKept ==
  ASSUME DeferredCovered, UNCHANGED <<deferred, dpq>>,
         spc = "dshifted" => UNCHANGED <<spc, sobj>>,
         tpc = "deferPQ" => UNCHANGED <<tpc, tobj>>,
         \A c \in Clients : iopc[c] = "deferPQ" => iopc'[c] = "deferPQ" /\ ioobj'[c] = ioobj[c]
  PROVE  DeferredCovered'
BY DEF DeferredCovered, DeferCovered

(* Adding an object to the queue.                                          *)
LEMMA DeferAdded ==
  ASSUME Base, NEW o \in Objs, dpq' = [dpq EXCEPT ![o] = @ + 1]
  PROVE  dpq'[o] > 0 /\ \A u \in Objs : dpq[u] > 0 => dpq'[u] > 0
<1>1. dpq \in [Objs -> Nat]
  BY DEF Base, TypeOK
<1>2. QED
  BY <1>1

LEMMA DeferTypes ==
  ASSUME Base
  PROVE  /\ deferred \in [Msgs -> Objs \cup {NoObj}] /\ dpq \in [Objs -> Nat]
         /\ iopc \in [Clients -> IoStates] /\ ioobj \in [Clients -> Objs \cup {NoObj}]
         /\ \A m \in Msgs : deferred[m] # NoObj => deferred[m] \in Objs /\ MsgOf(deferred[m]) = m
BY DEF Base, TypeOK, HandsFull

LEMMA TopicDefers == ASSUME Base, DeferredCovered, Topic PROVE DeferredCovered'
<1>0. UNCHANGED <<iopc, ioobj, spc, sobj>>
  BY TopicFrame
<1>1. ASSUME NEW m \in Msgs, PutMessage(m) PROVE DeferredCovered'
  BY <1>0, <1>1, DeferKept DEF PutMessage, deferVars, topicVars
<1>2. ASSUME NEW m \in Msgs, PutMessageDeferred(m) PROVE DeferredCovered'
  <2>1. tpc = "idle" /\ tpc' = "deferPQ" /\ tobj' = <<m, 0>> /\ dpq' = dpq
        /\ deferred' = [deferred EXCEPT ![m] = <<m, 0>>]
    BY <1>2 DEF PutMessageDeferred
  <2>2. deferred'[m] = tobj' /\ \A k \in Msgs \ {m} : deferred'[k] = deferred[k]
    BY <2>1, DeferTypes
  <2>3. \A k \in Msgs \ {m} : deferred[k] # NoObj => DeferCovered(deferred[k])'
    BY <1>0, <2>1, <2>2 DEF DeferredCovered, DeferCovered
  <2>4. QED
    BY <2>1, <2>2, <2>3 DEF DeferredCovered, DeferCovered
<1>3. CASE TopicAddToDeferredPQ
  <2>1. tobj \in Objs /\ tpc = "deferPQ" /\ deferred' = deferred /\ dpq' = [dpq EXCEPT ![tobj] = @ + 1]
    BY <1>3 DEF TopicAddToDeferredPQ, Base, HandsFull
  <2>2. dpq'[tobj] > 0 /\ \A u \in Objs : dpq[u] > 0 => dpq'[u] > 0
    BY <2>1, DeferAdded
  <2>3. QED
    BY <1>0, <2>1, <2>2, DeferTypes DEF DeferredCovered, DeferCovered
<1>4. QED
  BY <1>1, <1>2, <1>3 DEF Topic

LEMMA IoDefers == ASSUME Base, DeferredCovered, NEW c \in Clients, Io(c) PROVE DeferredCovered'
<1>0. UNCHANGED <<tpc, tobj, spc, sobj>> /\ \A e \in Clients \ {c} : iopc'[e] = iopc[e] /\ ioobj'[e] = ioobj[e]
  BY IoFrame, IoClient DEF Own
<1>1. CASE IoDefer(c)
  <2> DEFINE o == ioobj[c]  m == MsgOf(o)
  <2>1. o \in Objs /\ m \in Msgs /\ iopc[c] = "defer" /\ dpq' = dpq
    BY <1>1, ObjsFacts DEF IoDefer, Base, HandsFull
  <2>2. CASE deferred' = deferred
    BY <1>0, <2>1, <2>2, DeferKept
  <2>3. CASE deferred' # deferred
    <3>1. deferred' = [deferred EXCEPT ![m] = o] /\ iopc'[c] = "deferPQ" /\ ioobj' = ioobj
      BY <1>1, <2>3, DeferTypes DEF IoDefer
    <3>2. deferred'[m] = o /\ \A k \in Msgs \ {m} : deferred'[k] = deferred[k]
      BY <2>1, <3>1, DeferTypes
    <3> HIDE DEF m
    <3>3. DeferCovered(o)'
      BY <3>1 DEF DeferCovered
    <3>4. \A k \in Msgs \ {m} : deferred[k] # NoObj => DeferCovered(deferred[k])'
      BY <1>0, <2>1, <3>1 DEF DeferredCovered, DeferCovered
    <3>5. QED
      BY <3>1, <3>2, <3>3, <3>4 DEF DeferredCovered, DeferCovered
  <2>4. QED
    BY <2>2, <2>3
<1>2. CASE IoDeferPQ(c)
  <2>1. ioobj[c] \in Objs /\ iopc[c] = "deferPQ" /\ deferred' = deferred /\ dpq' = [dpq EXCEPT ![ioobj[c]] = @ + 1]
    BY <1>2 DEF IoDeferPQ, Base, HandsFull
  <2>2. dpq'[ioobj[c]] > 0 /\ \A u \in Objs : dpq[u] > 0 => dpq'[u] > 0
    BY <2>1, DeferAdded
  <2>3. QED
    BY <1>0, <2>1, <2>2, DeferTypes DEF DeferredCovered, DeferCovered
<1>3. ASSUME ~IoDefer(c), ~IoDeferPQ(c) PROVE \/ UNCHANGED <<deferred, dpq>> /\ iopc[c] # "deferPQ"
                                              \/ UNCHANGED <<deferred, dpq, iopc, ioobj>>
  <2> USE DEF ioRest, cmdRest, deferVars, pumpOthers, ioVars
  <2>1. CASE Sub(c) \/ SubCheck(c) \/ Cls(c) \/ \E n \in 0..MaxRdyCount : Rdy(c, n)
    BY <2>1 DEF Sub, SubCheck, Cls, Rdy
  <2>2. CASE \E m \in Msgs, kind \in Commands \ {"CLS"} : IoPop(c, kind, m)
    BY <2>2 DEF IoPop
  <2>3. CASE IoRemove(c) \/ IoRequeue(c) \/ IoTouch(c) \/ IoTouchPQ(c) \/ IoCount(c) \/ IoNotify(c)
    BY <2>3 DEF IoRemove, IoRequeue, IoTouch, IoTouchPQ, IoCount, IoNotify
  <2>4. CASE IoExit(c) \/ IoRemoveClient(c)
    BY <2>4 DEF IoExit, IoRemoveClient
  <2>5. QED
    BY <1>3, <2>1, <2>2, <2>3, <2>4 DEF Io
<1>4. QED
  BY <1>0, <1>1, <1>2, <1>3, DeferKept

LEMMA ScanDefers == ASSUME Base, DeferredCovered, Scan PROVE DeferredCovered'
<1>0. UNCHANGED <<tpc, tobj, iopc, ioobj>>
  BY ScanFrame
<1>1. ASSUME NEW o \in Objs, ScanShiftDeferred(o) PROVE DeferredCovered'
  <2>1. spc = "deferred" /\ spc' = "dshifted" /\ sobj' = o /\ deferred' = deferred
        /\ dpq' = [dpq EXCEPT ![o] = @ - 1]
    BY <1>1 DEF ScanShiftDeferred
  <2>2. \A u \in Objs \ {o} : dpq'[u] = dpq[u]
    BY <2>1, DeferTypes
  <2>3. QED
    BY <1>0, <2>1, <2>2, DeferTypes DEF DeferredCovered, DeferCovered
<1>2. CASE ScanPopDeferred
  <2>1. spc = "dshifted" /\ sobj \in Objs /\ MsgOf(sobj) \in Msgs /\ dpq' = dpq
    BY <1>2, ObjsFacts DEF ScanPopDeferred, Base, HandsFull
  <2>2. /\ deferred'[MsgOf(sobj)] = NoObj
        /\ \A k \in Msgs \ {MsgOf(sobj)} : deferred'[k] = deferred[k]
    BY <1>2, <2>1, DeferTypes DEF ScanPopDeferred
  <2>3. ASSUME NEW k \in Msgs, deferred'[k] # NoObj PROVE DeferCovered(deferred[k])'
    <3>1. k # MsgOf(sobj) /\ deferred'[k] = deferred[k]
      BY <2>2, <2>3
    <3>2. deferred[k] # sobj
      BY <2>3, <3>1, DeferTypes
    <3>3. DeferCovered(deferred[k])
      BY <2>3, <3>1 DEF DeferredCovered
    <3>4. QED
      BY <1>0, <2>1, <3>1, <3>2, <3>3 DEF DeferCovered
  <2>4. QED
    BY <2>3 DEF DeferredCovered, DeferCovered
<1>3. ASSUME ~ScanPopDeferred, ~\E o \in Objs : ScanShiftDeferred(o)
      PROVE  UNCHANGED <<deferred, dpq>> /\ spc # "dshifted"
  <2> USE DEF scanRest, deferVars
  <2>1. CASE ScanInFlight \/ (\E o \in Objs : ScanShift(o)) \/ ScanInFlightDone \/ ScanPop
    BY <2>1 DEF ScanInFlight, ScanShift, ScanInFlightDone, ScanPop
  <2>2. CASE ScanTimedOut \/ ScanNotify \/ ScanPut \/ ScanDeferred \/ ScanDeferredDone \/ ScanPutDeferred
    BY <2>2 DEF ScanTimedOut, ScanNotify, ScanPut, ScanDeferred, ScanDeferredDone, ScanPutDeferred
  <2>3. QED
    BY <1>3, <2>1, <2>2 DEF Scan
<1>4. QED
  BY <1>0, <1>1, <1>2, <1>3, DeferKept

LEMMA AdminDefers == ASSUME Base, DeferredCovered, Admin PROVE DeferredCovered'
<1> USE DEF adminRest, topicOthers, deferVars, topicVars
<1>0. UNCHANGED <<iopc, ioobj, spc, sobj>>
  BY AdminFrame
<1>1. CASE EmptyDeferred
  BY <1>1 DEF EmptyDeferred, DeferredCovered
<1>2. ASSUME NEW mode \in {"close", "delete"}, Exit(mode) PROVE DeferredCovered'
  <2>1. UNCHANGED <<deferred, dpq, tobj>> /\ (tpc = "deferPQ" => tpc' = tpc)
    BY <1>2 DEF Exit
  <2>2. QED
    BY <1>0, <2>1, DeferKept
<1>3. ASSUME ~EmptyDeferred, ~\E mode \in {"close", "delete"} : Exit(mode)
      PROVE  UNCHANGED <<deferred, dpq, tpc, tobj>>
  <2>1. CASE (\E b \in BOOLEAN : SetPaused(b)) \/ PauseClients \/ EmptyInFlight \/ EmptyClients
    BY <2>1 DEF SetPaused, PauseClients, EmptyInFlight, EmptyClients
  <2>2. CASE EmptyMemory \/ EmptyBackend \/ ExitClients
    BY <2>2 DEF EmptyMemory, EmptyBackend, ExitClients
  <2>3. CASE (\E o \in Objs : FlushMemory(o)) \/ FlushMemoryDone \/ FlushInFlight \/ FlushDeferred
    BY <2>3 DEF FlushMemory, FlushMemoryDone, FlushInFlight, FlushDeferred
  <2>4. QED
    BY <1>3, <2>1, <2>2, <2>3 DEF Admin
<1>4. QED
  BY <1>0, <1>1, <1>2, <1>3, DeferKept

(* A deferred message is always where processDeferredQueue finds it, or    *)
(* with the goroutine that is about to put it there: also when the channel *)
(* is emptied or exits, and for a publish that does not ask whether it is. *)
THEOREM DeferredCoveredHolds == Spec => []DeferredCovered
<1>1. Init => DeferredCovered
  BY DEF Init, DeferredCovered
<1>2. Base /\ DeferredCovered /\ [Next]_vars => DeferredCovered'
  <2> SUFFICES ASSUME Base, DeferredCovered, [Next]_vars PROVE DeferredCovered'
    OBVIOUS
  <2>1. ASSUME NEW c \in Clients, Pump(c) PROVE DeferredCovered'
    <3>1. UNCHANGED <<deferred, dpq, tpc, tobj, iopc, ioobj, spc, sobj>>
      BY <2>1, PumpFrame
    <3>2. QED
      BY <3>1, DeferKept
  <2>2. CASE UNCHANGED vars
    BY <2>2, DeferKept DEF vars, deferVars, topicVars, ioVars, scanVars
  <2>3. QED
    BY <2>1, <2>2, TopicDefers, IoDefers, ScanDefers, AdminDefers DEF Next
<1>3. QED
  BY <1>1, <1>2, NsqChannelBase, PTL DEF Spec
-----------------------------------------------------------------------------
(* The in-flight queue of a channel whose messages stay in memory: nothing *)
(* is read back from the backend, so every message has one object.         *)

(* An index is written before the message is sent: whoever can name a      *)
(* message in a command finds an index that is valid or -1.                *)
IndexInv ==
  ~Exiting =>
    /\ epc = "idle"
    /\ \A o \in Objs : idx[o] # "stale"
    /\ \A c \in Clients : ppc[c] \in {"count", "send"} => idx[pobj[c]] # "zero"
    /\ \A c \in Clients : \A m \in known[c] : idx[<<m, 0>>] # "zero"
    /\ RemovesOwnEntry

LEMMA OneObject ==
  ASSUME MaxDecodes = 0
  PROVE  \A o \in Objs : o = <<MsgOf(o), 0>>
BY DEF Objs, MsgOf

(* What the heap operations do to the indices: none becomes zero or stale. *)
IndicesKept ==
  \A o \in Objs : /\ idx[o] # "zero" => idx'[o] # "zero"
                  /\ idx[o] # "stale" => idx'[o] # "stale"

LEMMA AddKeeps ==
  ASSUME Base, NEW o \in Objs, AddToInFlightPQ(o)
  PROVE  /\ IndicesKept /\ idx'[o] # "zero"
         /\ pq'[o] > 0 /\ \A u \in Objs : pq[u] > 0 => pq'[u] > 0
<1>1. pq \in [Objs -> Nat] /\ idx \in [Objs -> IndexStates]
  BY DEF Base, TypeOK
<1>2. pq' = [pq EXCEPT ![o] = @ + 1]
  BY DEF AddToInFlightPQ, SetPQ
<1>3. idx'[o] = "at" /\ \A u \in Objs \ {o} : idx'[u] = idx[u] \/ idx'[u] = "at"
  BY <1>1 DEF AddToInFlightPQ, SetPQ
<1>4. QED
  BY <1>1, <1>2, <1>3 DEF IndicesKept

LEMMA TakeKeeps ==
  ASSUME Base, NEW v \in Objs, SetPQ([pq EXCEPT ![v] = @ - 1], [idx EXCEPT ![v] = "none"])
  PROVE  IndicesKept /\ \A u \in Objs \ {v} : pq'[u] = pq[u]
<1>1. pq \in [Objs -> Nat] /\ idx \in [Objs -> IndexStates]
  BY DEF Base, TypeOK
<1>2. pq' = [pq EXCEPT ![v] = @ - 1]
  BY DEF SetPQ
<1>3. idx'[v] \in {"none", "at"} /\ \A u \in Objs \ {v} : idx'[u] = idx[u] \/ idx'[u] = "at"
  BY <1>1 DEF SetPQ
<1>4. QED
  BY <1>1, <1>2, <1>3 DEF IndicesKept

(* removeFromInFlightPQ with a valid index or -1 only removes its own.     *)
LEMMA RemoveKeeps ==
  ASSUME Base, NEW o \in Objs, RemoveFromInFlightPQ(o), idx[o] \in {"none", "at"}
  PROVE  IndicesKept /\ \A u \in Objs \ {o} : pq'[u] = pq[u]
<1>1. CASE UNCHANGED <<pq, idx>>
  BY <1>1 DEF IndicesKept
<1>2. CASE SetPQ([pq EXCEPT ![o] = @ - 1], [idx EXCEPT ![o] = "none"])
  BY <1>2, TakeKeeps
<1>3. QED
  BY <1>1, <1>2 DEF RemoveFromInFlightPQ

(* Which steps touch the queue at all.                                     *)
LEMMA PumpIndex ==
  ASSUME NEW c \in Clients, Pump(c)
  PROVE  UNCHANGED <<pq, idx>> \/ PumpAdd(c)
<1> USE DEF pumpRest, flightVars
<1>1. CASE PumpSub(c) \/ PumpCheck(c) \/ PumpReadyState(c) \/ PumpTick(c)
  BY <1>1 DEF PumpSub, PumpCheck, PumpReadyState, PumpTick
<1>2. CASE (\E o \in Objs : PumpTakeMemory(c, o)) \/ (\E m \in Msgs : PumpTakeBackend(c, m))
  BY <1>2 DEF PumpTakeMemory, PumpTakeBackend
<1>3. CASE PumpPush(c) \/ PumpCount(c) \/ PumpSend(c) \/ PumpExit(c)
  BY <1>3 DEF PumpPush, PumpCount, PumpSend, PumpExit
<1>4. QED
  BY <1>1, <1>2, <1>3 DEF Pump

LEMMA IoIndex ==
  ASSUME NEW c \in Clients, Io(c)
  PROVE  UNCHANGED <<pq, idx>> \/ IoRemove(c) \/ IoTouchPQ(c)
<1> USE DEF ioRest, flightVars
<1>1. CASE Sub(c) \/ SubCheck(c) \/ Cls(c) \/ \E n \in 0..MaxRdyCount : Rdy(c, n)
  BY <1>1 DEF Sub, SubCheck, Cls, Rdy
<1>2. CASE \E m \in Msgs, kind \in Commands \ {"CLS"} : IoPop(c, kind, m)
  BY <1>2 DEF IoPop
<1>3. CASE IoRequeue(c) \/ IoDefer(c) \/ IoDeferPQ(c) \/ IoTouch(c)
  BY <1>3 DEF IoRequeue, IoDefer, IoDeferPQ, IoTouch
<1>4. CASE IoCount(c) \/ IoNotify(c) \/ IoExit(c) \/ IoRemoveClient(c)
  BY <1>4 DEF IoCount, IoNotify, IoExit, IoRemoveClient
<1>5. QED
  BY <1>1, <1>2, <1>3, <1>4 DEF Io

LEMMA ScanIndex ==
  ASSUME Scan
  PROVE  UNCHANGED <<pq, idx>> \/ \E o \in Objs : ScanShift(o)
<1> USE DEF scanRest, flightVars
<1>1. CASE ScanInFlight \/ ScanInFlightDone \/ ScanPop \/ ScanTimedOut \/ ScanNotify \/ ScanPut
  BY <1>1 DEF ScanInFlight, ScanInFlightDone, ScanPop, ScanTimedOut, ScanNotify, ScanPut
<1>2. CASE ScanDeferred \/ (\E o \in Objs : ScanShiftDeferred(o)) \/ ScanDeferredDone
  BY <1>2 DEF ScanDeferred, ScanShiftDeferred, ScanDeferredDone
<1>3. CASE ScanPopDeferred \/ ScanPutDeferred
  BY <1>3 DEF ScanPopDeferred, ScanPutDeferred
<1>4. QED
  BY <1>1, <1>2, <1>3 DEF Scan

LEMMA IndicesStep ==
  ASSUME Emptying = FALSE, Base, IndexInv, [Next]_vars, ~Exiting'
  PROVE  IndicesKept /\ epc = "idle" /\ epc' = "idle"
<1>0. xpc = "open" /\ xpc' = "open" /\ ~Exiting
  BY OpenBefore
<1>1. epc = "idle" /\ RemovesOwnEntry
  BY <1>0 DEF IndexInv
<1>2. CASE UNCHANGED <<idx, epc>>
  BY <1>1, <1>2 DEF IndicesKept
<1>3. ASSUME NEW c \in Clients, Pump(c) PROVE IndicesKept /\ epc' = "idle"
  <2>1. epc' = epc
    BY <1>3, PumpFrame
  <2>2. CASE PumpAdd(c)
    <3>1. pobj[c] \in Objs /\ AddToInFlightPQ(pobj[c])
      BY <2>2 DEF PumpAdd, Base, HandsFull
    <3>2. QED
      BY <1>1, <2>1, <3>1, AddKeeps
  <2>3. QED
    BY <1>2, <1>3, <1>1, <2>1, <2>2, PumpIndex
<1>4. ASSUME NEW c \in Clients, Io(c) PROVE IndicesKept /\ epc' = "idle"
  <2>1. epc' = epc
    BY <1>4, IoFrame
  <2>2. CASE IoTouchPQ(c)
    <3>1. ioobj[c] \in Objs /\ AddToInFlightPQ(ioobj[c])
      BY <2>2 DEF IoTouchPQ, Base, HandsFull
    <3>2. QED
      BY <1>1, <2>1, <3>1, AddKeeps
  <2>3. CASE IoRemove(c)
    <3>1. ioobj[c] \in Objs /\ RemoveFromInFlightPQ(ioobj[c]) /\ idx[ioobj[c]] \in {"none", "at"}
      BY <1>1, <2>3 DEF IoRemove, Base, HandsFull, RemovesOwnEntry
    <3>2. QED
      BY <1>1, <2>1, <3>1, RemoveKeeps
  <2>4. QED
    BY <1>2, <1>4, <1>1, <2>1, <2>2, <2>3, IoIndex
<1>5. CASE Scan
  <2>1. epc' = epc
    BY <1>5, ScanFrame
  <2>2. ASSUME NEW o \in Objs, ScanShift(o) PROVE IndicesKept
    BY <2>2, TakeKeeps DEF ScanShift
  <2>3. QED
    BY <1>1, <1>2, <1>5, <2>1, <2>2, ScanIndex
<1>6. CASE Topic
  BY <1>2, <1>6, TopicFrame
<1>7. CASE Admin
  BY <1>0, <1>1, <1>2, <1>7, AdminOpen
<1>8. CASE UNCHANGED vars
  BY <1>2, <1>8 DEF vars, flightVars, adminVars
<1>9. QED
  BY <1>1, <1>3, <1>4, <1>5, <1>6, <1>7, <1>8 DEF Next

(* The pump indexes a message before it sends it.                          *)
LEMMA PumpNames ==
  ASSUME MaxDecodes = 0, Base, OnePlace, ~Flushing, NEW c \in Clients, Pump(c), IndicesKept,
         ppc[c] \in {"count", "send"} => idx[pobj[c]] # "zero",
         \A m \in known[c] : idx[<<m, 0>>] # "zero"
  PROVE  /\ ppc'[c] \in {"count", "send"} => idx'[pobj'[c]] # "zero"
         /\ \A m \in known'[c] : idx'[<<m, 0>>] # "zero"
<1> USE DEF pumpRest, clientVars, flightVars
<1>0. /\ ppc \in [Clients -> PumpStates] /\ pobj \in [Clients -> Objs \cup {NoObj}]
      /\ known \in [Clients -> SUBSET Msgs] /\ \A m \in Msgs : <<m, 0>> \in Objs
  BY DEF Base, TypeOK, Objs
<1>1. \A m \in known[c] : idx'[<<m, 0>>] # "zero"
  BY <1>0 DEF IndicesKept
<1>2. CASE PumpSub(c) \/ PumpCheck(c) \/ PumpReadyState(c) \/ PumpTick(c)
  BY <1>0, <1>1, <1>2 DEF PumpSub, PumpCheck, PumpReadyState, PumpTick
<1>3. CASE (\E o \in Objs : PumpTakeMemory(c, o)) \/ (\E m \in Msgs : PumpTakeBackend(c, m))
  BY <1>0, <1>1, <1>3 DEF PumpTakeMemory, PumpTakeBackend, Taken, Undecodable
<1>4. CASE PumpPush(c)
  BY <1>1, <1>4, PushFacts
<1>5. CASE PumpAdd(c)
  <2>1. pobj[c] \in Objs /\ AddToInFlightPQ(pobj[c]) /\ pobj' = pobj /\ known' = known
    BY <1>5 DEF PumpAdd, Base, HandsFull
  <2>2. idx'[pobj[c]] # "zero"
    BY <2>1, AddKeeps
  <2>3. QED
    BY <1>1, <2>1, <2>2
<1>6. CASE PumpCount(c)
  <2>1. pobj[c] \in Objs /\ pobj' = pobj /\ known' = known /\ ppc[c] = "count"
    BY <1>6 DEF PumpCount, Base, HandsFull
  <2>2. QED
    BY <1>1, <2>1 DEF IndicesKept
<1>7. CASE PumpSend(c)
  <2>1. ppc[c] = "send" /\ pobj[c] \in Objs /\ ppc'[c] \notin {"count", "send"}
    BY <1>0, <1>7 DEF PumpSend, Base, HandsFull
  <2>2. idx'[pobj[c]] # "zero" /\ pobj[c] = <<MsgOf(pobj[c]), 0>>
    BY <2>1, OneObject DEF IndicesKept
  <2>3. \A m \in known'[c] : m \in known[c] \/ m = MsgOf(pobj[c])
    BY <1>0, <1>7 DEF PumpSend
  <2>4. QED
    BY <1>1, <2>1, <2>2, <2>3
<1>8. CASE PumpExit(c)
  BY <1>0, <1>1, <1>8 DEF PumpExit
<1>9. QED
  BY <1>2, <1>3, <1>4, <1>5, <1>6, <1>7, <1>8 DEF Pump

(* A command names a message it was sent, so its index is written.         *)
LEMMA IoNames ==
  ASSUME MaxDecodes = 0, Base, NEW c \in Clients, Io(c), IndicesKept,
         \A o \in Objs : idx[o] # "stale",
         \A m \in known[c] : idx[<<m, 0>>] # "zero",
         iopc[c] = "remove" => idx[ioobj[c]] \in {"none", "at"}
  PROVE  known' = known /\ (iopc'[c] = "remove" => idx'[ioobj'[c]] \in {"none", "at"})
<1> USE DEF ioRest, cmdRest, clientVars, ioVars, pumpOthers
<1>0. /\ iopc \in [Clients -> IoStates] /\ ioobj \in [Clients -> Objs \cup {NoObj}]
      /\ iokind \in [Clients -> CommandNames \ {"CLS"}] /\ idx \in [Objs -> IndexStates]
      /\ inFlight \in [Msgs -> Objs \cup {NoObj}]
  BY DEF Base, TypeOK
<1>1. CASE Sub(c) \/ SubCheck(c) \/ Cls(c) \/ \E n \in 0..MaxRdyCount : Rdy(c, n)
  BY <1>0, <1>1 DEF Sub, SubCheck, Cls, Rdy, SetReadyCount
<1>2. ASSUME NEW m \in Msgs, NEW kind \in Commands \ {"CLS"}, IoPop(c, kind, m)
      PROVE  known' = known /\ idx'[ioobj'[c]] \in {"none", "at"}
  <2>1. /\ m \in known[c] /\ inFlight[m] # NoObj /\ ioobj'[c] = inFlight[m] /\ UNCHANGED <<idx, known>>
    BY <1>0, <1>2 DEF IoPop
  <2>2. inFlight[m] \in Objs /\ MsgOf(inFlight[m]) = m
    BY <1>0, <2>1 DEF Base, HandsFull
  <2>3. inFlight[m] = <<m, 0>>
    BY <2>2, OneObject
  <2>4. idx[inFlight[m]] \in IndexStates /\ idx[inFlight[m]] # "zero" /\ idx[inFlight[m]] # "stale"
    BY <1>0, <2>1, <2>2, <2>3
  <2>5. QED
    BY <2>1, <2>4 DEF IndexStates
<1>3. CASE IoRemove(c)
  BY <1>0, <1>3 DEF IoRemove, AfterRemove, CommandNames
<1>4. CASE IoRequeue(c) \/ IoDefer(c) \/ IoTouch(c)
  BY <1>0, <1>4 DEF IoRequeue, IoDefer, IoTouch, IoDrop
<1>5. CASE IoDeferPQ(c) \/ IoTouchPQ(c) \/ IoCount(c) \/ IoNotify(c)
  BY <1>0, <1>5 DEF IoDeferPQ, IoTouchPQ, IoCount, IoNotify, IoDrop
<1>6. CASE IoExit(c) \/ IoRemoveClient(c)
  BY <1>6 DEF IoExit, IoRemoveClient, flightVars
<1>7. QED
  BY <1>1, <1>2, <1>3, <1>4, <1>5, <1>6 DEF Io

LEMMA IndexStep ==
  ASSUME Emptying = FALSE, MaxDecodes = 0, Base, OnePlace, IndexInv, [Next]_vars
  PROVE  IndexInv'
<1> SUFFICES ASSUME ~Exiting'
             PROVE  /\ epc' = "idle"
                    /\ \A o \in Objs : idx'[o] # "stale"
                    /\ \A c \in Clients : ppc'[c] \in {"count", "send"} => idx'[pobj'[c]] # "zero"
                    /\ \A c \in Clients : \A m \in known'[c] : idx'[<<m, 0>>] # "zero"
                    /\ \A c \in Clients : iopc'[c] = "remove" => idx'[ioobj'[c]] \in {"none", "at"}
  BY DEF IndexInv, RemovesOwnEntry
<1>0. ~Exiting /\ ~Flushing
  BY OpenBefore
<1>1. IndicesKept /\ epc' = "idle"
  BY IndicesStep
<1>2. /\ \A o \in Objs : idx[o] # "stale"
      /\ \A c \in Clients : ppc[c] \in {"count", "send"} => idx[pobj[c]] # "zero"
      /\ \A c \in Clients : \A m \in known[c] : idx[<<m, 0>>] # "zero"
      /\ \A c \in Clients : iopc[c] = "remove" => idx[ioobj[c]] \in {"none", "at"}
  BY <1>0 DEF IndexInv, RemovesOwnEntry
<1>3. \A o \in Objs : idx'[o] # "stale"
  BY <1>1, <1>2 DEF IndicesKept
<1>4. /\ \A c \in Clients : ppc[c] \in {"count", "send"} => idx'[pobj[c]] # "zero"
      /\ \A c \in Clients : \A m \in known[c] : idx'[<<m, 0>>] # "zero"
      /\ \A c \in Clients : iopc[c] = "remove" => idx'[ioobj[c]] \in {"none", "at"}
  <2>1. \A c \in Clients : ppc[c] \in {"count", "send"} => pobj[c] \in Objs
    BY DEF Base, HandsFull
  <2>2. \A c \in Clients : \A m \in known[c] : <<m, 0>> \in Objs
    BY DEF Base, TypeOK, Objs
  <2>3. \A c \in Clients : iopc[c] = "remove" => ioobj[c] \in Objs
    BY DEF Base, HandsFull
  <2>4. \A o \in Objs : idx[o] \in {"none", "at"} => idx'[o] \in {"none", "at"}
    <3>1. idx' \in [Objs -> IndexStates]
      BY BaseStep DEF Base, TypeOK
    <3>2. QED
      BY <1>1, <3>1 DEF IndicesKept, IndexStates
  <2>5. QED
    BY <1>1, <1>2, <2>1, <2>2, <2>3, <2>4 DEF IndicesKept
<1>5. CASE UNCHANGED <<ppc, pobj, known, iopc, ioobj>>
  BY <1>1, <1>3, <1>4, <1>5
<1>6. ASSUME NEW c \in Clients, Pump(c)
      PROVE  /\ \A e \in Clients : ppc'[e] \in {"count", "send"} => idx'[pobj'[e]] # "zero"
             /\ \A e \in Clients : \A m \in known'[e] : idx'[<<m, 0>>] # "zero"
             /\ UNCHANGED <<iopc, ioobj>>
  <2>1. UNCHANGED <<iopc, ioobj>>
    BY <1>6, PumpFrame
  <2>2. \A e \in Clients \ {c} : ppc'[e] = ppc[e] /\ pobj'[e] = pobj[e] /\ known'[e] = known[e]
    BY <1>6, PumpOwn
  <2>3. /\ ppc'[c] \in {"count", "send"} => idx'[pobj'[c]] # "zero"
        /\ \A m \in known'[c] : idx'[<<m, 0>>] # "zero"
    BY <1>0, <1>1, <1>2, <1>6, PumpNames
  <2>4. QED
    BY <1>4, <2>1, <2>2, <2>3
<1>7. ASSUME NEW c \in Clients, Io(c)
      PROVE  /\ \A e \in Clients : iopc'[e] = "remove" => idx'[ioobj'[e]] \in {"none", "at"}
             /\ UNCHANGED <<ppc, pobj, known>>
  <2>1. UNCHANGED <<ppc, pobj>> /\ \A e \in Clients \ {c} : iopc'[e] = iopc[e] /\ ioobj'[e] = ioobj[e]
    BY <1>7, IoFrame, IoClient DEF Own
  <2>2. known' = known /\ (iopc'[c] = "remove" => idx'[ioobj'[c]] \in {"none", "at"})
    BY <1>1, <1>2, <1>7, IoNames
  <2>3. QED
    BY <1>4, <2>1, <2>2
<1>8. CASE Topic
  BY <1>5, <1>8, TopicFrame
<1>9. CASE Scan
  BY <1>5, <1>9, ScanFrame
<1>10. CASE Admin
  BY <1>5, <1>10, AdminFrame
<1>11. CASE UNCHANGED vars
  BY <1>5, <1>11 DEF vars, pumpVars, clientVars, ioVars
<1>12. QED
  BY <1>1, <1>3, <1>4, <1>6, <1>7, <1>8, <1>9, <1>10, <1>11 DEF Next

LEMMA IndexInvHolds ==
  ASSUME Emptying = FALSE, MaxDecodes = 0
  PROVE  Spec => []IndexInv
<1>1. Init => IndexInv
  BY DEF Init, IndexInv, RemovesOwnEntry
<1>2. Base /\ OnePlace /\ IndexInv /\ [Next]_vars => IndexInv'
  BY IndexStep
<1>3. QED
  BY <1>1, <1>2, NsqChannelBase, PlacesKept, PTL DEF Spec

(* removeFromInFlightPQ trusts the index field of the message it is given: *)
(* while a channel that nobody empties is open and its messages stay in    *)
(* memory, that index is the message's own or -1, so no entry of another   *)
(* message is removed.  A message read back from disk has a new object     *)
(* whose index is still 0 when a command of the client that knew the old   *)
(* one takes it, and Empty() leaves old indices behind: the hypotheses are *)
(* needed.                                                                 *)
THEOREM RemovesOwnEntryHolds ==
  ASSUME Emptying = FALSE, MaxDecodes = 0
  PROVE  Spec => [](~Exiting => RemovesOwnEntry)
<1>1. IndexInv => (~Exiting => RemovesOwnEntry)
  BY DEF IndexInv
<1>2. QED
  BY <1>1, IndexInvHolds, PTL
-----------------------------------------------------------------------------
(* What became of a message is final.                                      *)

Decided(m) == fate[m] \notin {"live", "unpublished"}

(* put() is called for a message that is live or new.                      *)
LEMMA PutDecides ==
  ASSUME Base, NEW o \in Objs, PutOk(o) \/ PutFails(o), ~Decided(MsgOf(o)), NEW m \in Msgs, Decided(m)
  PROVE  fate'[m] = fate[m]
<1>1. fate \in [Msgs -> Fates] /\ MsgOf(o) \in Msgs /\ m # MsgOf(o)
  BY ObjsFacts DEF Base, TypeOK
<1>2. QED
  BY <1>1, PutCases DEF ToMemory, ToBackend, ToNowhere

(* Whatever has a place is live.                                           *)
LEMMA PlacedIsLive ==
  ASSUME OnePlace, ~Flushing, NEW m \in Msgs, Decided(m)
  PROVE  /\ ~InMemory(m) /\ ~InBackend(m) /\ ~InFlight(m) /\ ~InDeferred(m) /\ ~ScanHas(m)
         /\ \A c \in Clients : ~PumpHas(c, m) /\ ~IoHas(c, m)
<1>1. Flat(m) /\ ~Live(m)
  BY DEF OnePlace, Decided, Live
<1>2. QED
  BY <1>1 DEF Flat, InHand

LEMMA TopicDecides ==
  ASSUME Base, OnePlace, ~Flushing, Topic, NEW m \in Msgs, Decided(m)
  PROVE  fate'[m] = fate[m]
<1>0. fate \in [Msgs -> Fates] /\ \A k \in Msgs : <<k, 0>> \in Objs /\ MsgOf(<<k, 0>>) = k
  BY ObjsFacts DEF Base, TypeOK, MsgOf
<1>1. ASSUME NEW k \in Msgs, PutMessage(k) PROVE fate'[m] = fate[m]
  <2>1. fate[k] = "unpublished" /\ k # m /\ ~Decided(MsgOf(<<k, 0>>))
    BY <1>0, <1>1 DEF PutMessage, Decided
  <2>2. CASE PutOk(<<k, 0>>) \/ PutFails(<<k, 0>>)
    BY <1>0, <2>1, <2>2, PutDecides
  <2>3. CASE fate' = [fate EXCEPT ![k] = "refused"]
    BY <1>0, <2>1, <2>3
  <2>4. QED
    BY <1>1, <2>2, <2>3 DEF PutMessage
<1>2. ASSUME NEW k \in Msgs, PutMessageDeferred(k) PROVE fate'[m] = fate[m]
  BY <1>0, <1>2 DEF PutMessageDeferred, Decided
<1>3. CASE TopicAddToDeferredPQ
  BY <1>3 DEF TopicAddToDeferredPQ
<1>4. QED
  BY <1>1, <1>2, <1>3 DEF Topic

LEMMA PumpDecides ==
  ASSUME Base, OnePlace, ~Flushing, NEW c \in Clients, Pump(c), NEW m \in Msgs, Decided(m)
  PROVE  fate'[m] = fate[m]
<1> USE DEF pumpRest
<1>0. fate \in [Msgs -> Fates] /\ ~InMemory(m) /\ ~InBackend(m)
  BY PlacedIsLive DEF Base, TypeOK
<1>1. CASE PumpSub(c) \/ PumpCheck(c) \/ PumpReadyState(c) \/ PumpTick(c)
  BY <1>1 DEF PumpSub, PumpCheck, PumpReadyState, PumpTick
<1>2. ASSUME NEW o \in Objs, PumpTakeMemory(c, o) PROVE fate'[m] = fate[m]
  <2>1. MsgOf(o) # m /\ Taken(c, o)
    BY <1>0, <1>2 DEF PumpTakeMemory, InMemory
  <2>2. QED
    BY <1>0, <2>1 DEF Taken
<1>3. ASSUME NEW k \in Msgs, PumpTakeBackend(c, k) PROVE fate'[m] = fate[m]
  <2>1. k # m /\ (Taken(c, <<k, decodes[k] + 1>>) \/ Undecodable(c, k))
    BY <1>0, <1>3 DEF PumpTakeBackend, InBackend
  <2>2. QED
    BY <1>0, <2>1 DEF Taken, Undecodable, MsgOf
<1>4. CASE PumpPush(c) \/ PumpAdd(c) \/ PumpCount(c) \/ PumpSend(c) \/ PumpExit(c)
  BY <1>4 DEF PumpPush, PumpAdd, PumpCount, PumpSend, PumpExit
<1>5. QED
  BY <1>1, <1>2, <1>3, <1>4 DEF Pump

LEMMA IoDecides ==
  ASSUME Base, OnePlace, ~Flushing, NEW c \in Clients, Io(c), NEW m \in Msgs, Decided(m)
  PROVE  fate'[m] = fate[m]
<1> USE DEF ioRest
<1>0. fate \in [Msgs -> Fates] /\ ~InFlight(m) /\ ~IoHas(c, m)
  BY PlacedIsLive DEF Base, TypeOK
<1>1. CASE Sub(c) \/ SubCheck(c) \/ Cls(c) \/ \E n \in 0..MaxRdyCount : Rdy(c, n)
  BY <1>1 DEF Sub, SubCheck, Cls, Rdy
<1>2. ASSUME NEW k \in Msgs, NEW kind, IoPop(c, kind, k) PROVE fate'[m] = fate[m]
  <2>1. k # m
    BY <1>0, <1>2 DEF IoPop, InFlight
  <2>2. QED
    BY <1>0, <1>2, <2>1 DEF IoPop
<1>3. CASE IoRemove(c) \/ IoDeferPQ(c) \/ IoTouchPQ(c)
  BY <1>3 DEF IoRemove, IoDeferPQ, IoTouchPQ
<1>4. ASSUME iopc[c] \in {"put", "defer", "touch"}
      PROVE  ioobj[c] \in Objs /\ MsgOf(ioobj[c]) \in Msgs /\ MsgOf(ioobj[c]) # m /\ ~Decided(MsgOf(ioobj[c]))
  <2>1. ioobj[c] \in Objs /\ iokind[c] # "FIN" /\ MsgOf(ioobj[c]) \in Msgs
    BY <1>4, ObjsFacts DEF Base, HandsFull
  <2>2. IoHas(c, MsgOf(ioobj[c]))
    BY <1>4, <2>1 DEF IoHas
  <2>3. QED
    BY <1>0, <2>1, <2>2, PlacedIsLive
<1>5. CASE IoRequeue(c)
  <2>1. CASE PutOk(ioobj[c]) \/ PutFails(ioobj[c])
    BY <1>4, <1>5, <2>1, PutDecides DEF IoRequeue
  <2>2. CASE fate' = [fate EXCEPT ![MsgOf(ioobj[c])] = "refused"]
    BY <1>0, <1>4, <1>5, <2>2 DEF IoRequeue
  <2>3. QED
    BY <1>5, <2>1, <2>2 DEF IoRequeue
<1>6. CASE IoDefer(c)
  BY <1>0, <1>4, <1>6 DEF IoDefer
<1>7. CASE IoTouch(c)
  BY <1>0, <1>4, <1>7 DEF IoTouch
<1>8. CASE IoCount(c) \/ IoNotify(c) \/ IoExit(c) \/ IoRemoveClient(c)
  BY <1>8 DEF IoCount, IoNotify, IoExit, IoRemoveClient
<1>9. QED
  BY <1>1, <1>2, <1>3, <1>5, <1>6, <1>7, <1>8 DEF Io

LEMMA ScanDecides ==
  ASSUME Base, OnePlace, ~Flushing, Scan, NEW m \in Msgs, Decided(m)
  PROVE  fate'[m] = fate[m]
<1> USE DEF scanRest
<1>1. CASE ScanInFlight \/ (\E o \in Objs : ScanShift(o)) \/ ScanInFlightDone \/ ScanPop
  BY <1>1 DEF ScanInFlight, ScanShift, ScanInFlightDone, ScanPop
<1>2. CASE ScanTimedOut \/ ScanNotify \/ ScanDeferred \/ ScanDeferredDone \/ ScanPopDeferred
  BY <1>2 DEF ScanTimedOut, ScanNotify, ScanDeferred, ScanDeferredDone, ScanPopDeferred
<1>3. CASE \E o \in Objs : ScanShiftDeferred(o)
  BY <1>3 DEF ScanShiftDeferred
<1>4. CASE ScanPut \/ ScanPutDeferred
  <2>1. spc \in {"put", "dput"} /\ (PutOk(sobj) \/ PutFails(sobj))
    BY <1>4 DEF ScanPut, ScanPutDeferred
  <2>2. sobj \in Objs /\ MsgOf(sobj) \in Msgs /\ ScanHas(MsgOf(sobj))
    BY <2>1, ObjsFacts DEF Base, HandsFull, ScanHas
  <2>3. ~Decided(MsgOf(sobj))
    BY <2>2, PlacedIsLive
  <2>4. QED
    BY <2>1, <2>2, <2>3, PutDecides
<1>5. QED
  BY <1>1, <1>2, <1>3, <1>4 DEF Scan

LEMMA AdminDecides ==
  ASSUME Base, OnePlace, ~Flushing, Admin, NEW m \in Msgs, Decided(m)
  PROVE  fate'[m] = fate[m]
<1>0. ~InMemory(m) /\ ~InBackend(m) /\ ~InFlight(m) /\ ~InDeferred(m)
  BY PlacedIsLive
<1>1. CASE (\E b \in BOOLEAN : SetPaused(b)) \/ PauseClients \/ EmptyClients
  BY <1>1 DEF SetPaused, PauseClients, EmptyClients
<1>2. CASE EmptyInFlight
  BY <1>0, <1>2 DEF EmptyInFlight, InFlight
<1>3. CASE EmptyDeferred
  BY <1>0, <1>3 DEF EmptyDeferred, InDeferred
<1>4. CASE EmptyMemory
  BY <1>0, <1>4 DEF EmptyMemory, InMemory
<1>5. CASE EmptyBackend
  BY <1>0, <1>5 DEF EmptyBackend, InBackend
<1>6. CASE (\E mode \in {"close", "delete"} : Exit(mode)) \/ ExitClients
  BY <1>6 DEF Exit, ExitClients
<1>7. CASE (\E o \in Objs : FlushMemory(o)) \/ FlushMemoryDone \/ FlushInFlight \/ FlushDeferred
  BY <1>7 DEF FlushMemory, FlushMemoryDone, FlushInFlight, FlushDeferred, Flushing
<1>8. QED
  BY <1>1, <1>2, <1>3, <1>4, <1>5, <1>6, <1>7 DEF Admin

LEMMA DecidedStep ==
  ASSUME Base, OnePlace, ~Flushing, [Next]_vars, NEW m \in Msgs, Decided(m)
  PROVE  fate'[m] = fate[m]
<1>1. CASE UNCHANGED vars
  BY <1>1 DEF vars
<1>2. QED
  BY <1>1, TopicDecides, PumpDecides, IoDecides, ScanDecides, AdminDecides DEF Next

(* A step that leaves what became of a message alone.                      *)
DecisionsFinal == \A m \in Msgs : ~Flushing /\ Decided(m) => fate'[m] = fate[m]

(* Until a closing channel flushes, a message that was finished, emptied,  *)
(* sampled away, dropped or refused never becomes live again, and what     *)
(* became of it does not change: no late timeout, no second FIN or REQ and *)
(* no Empty() finds it.                                                    *)
THEOREM DecisionsFinalHold == Spec => [][DecisionsFinal]_vars
<1>1. Base /\ OnePlace /\ [Next]_vars => [DecisionsFinal]_vars
  BY DecidedStep DEF DecisionsFinal
<1>2. QED
  BY <1>1, NsqChannelBase, PlacesKept, PTL DEF Spec
-----------------------------------------------------------------------------
(* In-flight messages.                                                     *)

(* As for the deferred ones; the pump and TOUCH put them into the queue.   *)
FlightCovered(o) ==
  \/ pq[o] > 0
  \/ spc = "shifted" /\ sobj = o
  \/ \E c \in Clients : \/ ppc[c] = "add" /\ pobj[c] = o
                        \/ iopc[c] = "touchPQ" /\ ioobj[c] = o

(* What FIN is about to remove from the queue is not in flight any more.   *)
FinDecided == \A c \in Clients : iopc[c] = "remove" /\ iokind[c] = "FIN" => Decided(MsgOf(ioobj[c]))

CoverInv == ~Exiting => FinDecided /\ \A m \in Msgs : inFlight[m] # NoObj => FlightCovered(inFlight[m])

LEMMA FinStep ==
  ASSUME Base, OnePlace, ~Flushing, FinDecided, [Next]_vars
  PROVE  FinDecided'
<1>0. /\ iopc \in [Clients -> IoStates] /\ iokind \in [Clients -> CommandNames \ {"CLS"}]
      /\ ioobj \in [Clients -> Objs \cup {NoObj}] /\ fate \in [Msgs -> Fates]
  BY DEF Base, TypeOK
<1>1. ASSUME NEW e \in Clients, iopc[e] = "remove", iokind[e] = "FIN"
      PROVE  fate'[MsgOf(ioobj[e])] \notin {"live", "unpublished"}
  <2>1. MsgOf(ioobj[e]) \in Msgs /\ Decided(MsgOf(ioobj[e]))
    BY <1>1, ObjsFacts DEF Base, HandsFull, FinDecided
  <2>2. fate'[MsgOf(ioobj[e])] = fate[MsgOf(ioobj[e])]
    BY <2>1, DecidedStep
  <2>3. QED
    BY <2>1, <2>2 DEF Decided
<1>2. CASE UNCHANGED <<iopc, iokind, ioobj>>
  BY <1>1, <1>2 DEF FinDecided, Decided
<1>3. ASSUME NEW c \in Clients, Io(c) PROVE FinDecided'
  <2>1. \A e \in Clients \ {c} : iopc'[e] = iopc[e] /\ iokind'[e] = iokind[e] /\ ioobj'[e] = ioobj[e]
    BY <1>3, IoClient DEF Own
  <2>2. ASSUME iopc'[c] = "remove", iokind'[c] = "FIN"
        PROVE  fate'[MsgOf(ioobj'[c])] \notin {"live", "unpublished"}
    <3> USE DEF ioRest, cmdRest, ioVars, pumpOthers
    <3>1. CASE Sub(c) \/ SubCheck(c) \/ Cls(c) \/ \E n \in 0..MaxRdyCount : Rdy(c, n)
      BY <1>0, <2>2, <3>1 DEF Sub, SubCheck, Cls, Rdy, SetReadyCount
    <3>2. ASSUME NEW m \in Msgs, NEW kind \in Commands \ {"CLS"}, IoPop(c, kind, m)
          PROVE  fate'[MsgOf(ioobj'[c])] \notin {"live", "unpublished"}
      <4>1. ioobj'[c] = inFlight[m] /\ kind = "FIN" /\ fate'[m] = "finished"
        BY <1>0, <2>2, <3>2 DEF IoPop
      <4>2. MsgOf(inFlight[m]) = m
        BY <3>2 DEF IoPop, Base, HandsFull
      <4>3. QED
        BY <4>1, <4>2
    <3>3. CASE IoRemove(c)
      BY <1>0, <2>2, <3>3 DEF IoRemove, AfterRemove, CommandNames
    <3>4. CASE IoRequeue(c) \/ IoDefer(c) \/ IoTouch(c)
      BY <1>0, <2>2, <3>4 DEF IoRequeue, IoDefer, IoTouch, IoDrop
    <3>5. CASE IoDeferPQ(c) \/ IoTouchPQ(c) \/ IoCount(c) \/ IoNotify(c)
      BY <1>0, <2>2, <3>5 DEF IoDeferPQ, IoTouchPQ, IoCount, IoNotify, IoDrop
    <3>6. CASE IoExit(c) \/ IoRemoveClient(c)
      BY <1>1, <2>2, <3>6 DEF IoExit, IoRemoveClient
    <3>7. QED
      BY <1>3, <3>1, <3>2, <3>3, <3>4, <3>5, <3>6 DEF Io
  <2>3. QED
    BY <1>1, <2>1, <2>2 DEF FinDecided, Decided
<1>4. QED
  <2>1. ASSUME NEW c \in Clients, Pump(c) PROVE FinDecided'
    BY <1>2, <2>1, PumpFrame
  <2>2. CASE Topic
    BY <1>2, <2>2, TopicFrame
  <2>3. CASE Scan
    BY <1>2, <2>3, ScanFrame
  <2>4. CASE Admin
    BY <1>2, <2>4, AdminFrame
  <2>5. CASE UNCHANGED vars
    BY <1>2, <2>5 DEF vars, ioVars
  <2>6. QED
    BY <1>3, <2>1, <2>2, <2>3, <2>4, <2>5 DEF Next

LEMMA FlightTypes ==
  ASSUME Base
  PROVE  /\ inFlight \in [Msgs -> Objs \cup {NoObj}] /\ pq \in [Objs -> Nat]
         /\ ppc \in [Clients -> PumpStates] /\ pobj \in [Clients -> Objs \cup {NoObj}]
         /\ iopc \in [Clients -> IoStates] /\ ioobj \in [Clients -> Objs \cup {NoObj}]
         /\ \A m \in Msgs : inFlight[m] # NoObj => inFlight[m] \in Objs /\ MsgOf(inFlight[m]) = m
BY DEF Base, TypeOK, HandsFull

(* A pump leaves "add" only by adding.                                     *)
LEMMA PumpAdds ==
  ASSUME Base, NEW c \in Clients, Pump(c), ~PumpAdd(c)
  PROVE  ppc[c] # "add"
<1>1. CASE PumpSub(c) \/ PumpCheck(c) \/ PumpReadyState(c) \/ PumpTick(c)
  BY <1>1 DEF PumpSub, PumpCheck, PumpReadyState, PumpTick
<1>2. CASE (\E o \in Objs : PumpTakeMemory(c, o)) \/ (\E m \in Msgs : PumpTakeBackend(c, m))
  BY <1>2 DEF PumpTakeMemory, PumpTakeBackend
<1>3. CASE PumpPush(c) \/ PumpCount(c) \/ PumpSend(c) \/ PumpExit(c)
  BY <1>3 DEF PumpPush, PumpCount, PumpSend, PumpExit
<1>4. QED
  BY <1>1, <1>2, <1>3 DEF Pump

LEMMA PumpCovers ==
  ASSUME Base, OnePlace, ~Flushing, NEW c \in Clients, Pump(c),
         \A m \in Msgs : inFlight[m] # NoObj => FlightCovered(inFlight[m]),
         NEW m \in Msgs, inFlight'[m] # NoObj
  PROVE  FlightCovered(inFlight[m])'
<1>0. UNCHANGED <<iopc, ioobj, spc, sobj>> /\ \A e \in Clients \ {c} : ppc'[e] = ppc[e] /\ pobj'[e] = pobj[e]
  BY PumpFrame, PumpOwn
<1>1. CASE PumpAdd(c)
  <2>1. pobj[c] \in Objs /\ AddToInFlightPQ(pobj[c]) /\ inFlight' = inFlight
    BY <1>1 DEF PumpAdd, Base, HandsFull
  <2>2. pq'[pobj[c]] > 0 /\ \A u \in Objs : pq[u] > 0 => pq'[u] > 0
    BY <2>1, AddKeeps
  <2>3. FlightCovered(inFlight[m]) /\ inFlight[m] \in Objs
    BY <2>1, FlightTypes
  <2>4. QED
    BY <1>0, <2>1, <2>2, <2>3 DEF FlightCovered
<1>2. CASE PumpPush(c)
  <2>1. /\ MsgOf(pobj[c]) \in Msgs /\ ppc[c] = "push" /\ ppc'[c] = "add" /\ UNCHANGED <<pobj, pq>>
        /\ inFlight' = [inFlight EXCEPT ![MsgOf(pobj[c])] = pobj[c]]
    BY <1>2, PushFacts
  <2>2. CASE m = MsgOf(pobj[c])
    <3>1. inFlight'[m] = pobj[c]
      BY <2>1, <2>2, FlightTypes
    <3>2. QED
      BY <2>1, <3>1 DEF FlightCovered
  <2>3. CASE m # MsgOf(pobj[c])
    <3>1. inFlight'[m] = inFlight[m] /\ FlightCovered(inFlight[m])
      BY <2>1, <2>3, FlightTypes
    <3>2. QED
      BY <1>0, <2>1, <3>1 DEF FlightCovered
  <2>4. QED
    BY <2>2, <2>3
<1>3. CASE ~PumpAdd(c) /\ ~PumpPush(c)
  <2>1. UNCHANGED <<inFlight, pq>> /\ ppc[c] # "add"
    BY <1>3, PumpFlight, PumpIndex, PumpAdds
  <2>2. FlightCovered(inFlight[m])
    BY <2>1
  <2>3. QED
    BY <1>0, <2>1, <2>2 DEF FlightCovered
<1>4. QED
  BY <1>1, <1>2, <1>3

(* The other commands leave the map and the queue alone.                   *)
LEMMA IoFlight ==
  ASSUME NEW c \in Clients, Io(c), ~IoRemove(c), ~IoTouch(c), ~IoTouchPQ(c),
         ~\E m \in Msgs, kind \in Commands \ {"CLS"} : IoPop(c, kind, m)
  PROVE  inFlight' = inFlight /\ (iopc[c] # "touchPQ" \/ UNCHANGED <<iopc, ioobj>>)
<1> USE DEF ioRest, cmdRest, flightVars, ioVars, pumpOthers
<1>1. CASE Sub(c) \/ SubCheck(c) \/ Cls(c) \/ \E n \in 0..MaxRdyCount : Rdy(c, n)
  BY <1>1 DEF Sub, SubCheck, Cls, Rdy
<1>2. CASE IoRequeue(c) \/ IoDefer(c) \/ IoDeferPQ(c)
  BY <1>2 DEF IoRequeue, IoDefer, IoDeferPQ
<1>3. CASE IoCount(c) \/ IoNotify(c) \/ IoExit(c) \/ IoRemoveClient(c)
  BY <1>3 DEF IoCount, IoNotify, IoExit, IoRemoveClient
<1>4. QED
  BY <1>1, <1>2, <1>3 DEF Io

LEMMA IoCovers ==
  ASSUME Base, OnePlace, ~Flushing, NEW c \in Clients, Io(c), FinDecided, RemovesOwnEntry,
         \A m \in Msgs : inFlight[m] # NoObj => FlightCovered(inFlight[m]),
         NEW m \in Msgs, inFlight'[m] # NoObj
  PROVE  FlightCovered(inFlight[m])'
<1>0. /\ UNCHANGED <<ppc, pobj, spc, sobj>>
      /\ \A e \in Clients \ {c} : iopc'[e] = iopc[e] /\ ioobj'[e] = ioobj[e]
  BY IoFrame, IoClient DEF Own
<1>1. ASSUME NEW k \in Msgs, NEW kind \in Commands \ {"CLS"}, IoPop(c, kind, k) PROVE FlightCovered(inFlight[m])'
  <2>1. iopc[c] = "idle" /\ inFlight' = [inFlight EXCEPT ![k] = NoObj] /\ pq' = pq
    BY <1>1 DEF IoPop
  <2>2. inFlight'[m] = inFlight[m]
    BY <2>1, FlightTypes
  <2>3. FlightCovered(inFlight[m])
    BY <2>2
  <2>4. QED
    BY <1>0, <2>1, <2>2, <2>3 DEF FlightCovered
<1>2. CASE IoRemove(c)
  <2> DEFINE o == ioobj[c]
  <2>1. iopc[c] = "remove" /\ o \in Objs /\ MsgOf(o) \in Msgs /\ RemoveFromInFlightPQ(o) /\ inFlight' = inFlight
    BY <1>2, ObjsFacts DEF IoRemove, Base, HandsFull
  <2>2. idx[o] \in {"none", "at"}
    BY <2>1 DEF RemovesOwnEntry
  <2>3. ~InFlight(MsgOf(o))
    <3>1. CASE iokind[c] = "FIN"
      BY <2>1, <3>1, PlacedIsLive DEF FinDecided
    <3>2. CASE iokind[c] # "FIN"
      <4>1. IoHas(c, MsgOf(o))
        BY <2>1, <3>2 DEF IoHas
      <4>2. QED
        BY <2>1, <4>1 DEF OnePlace, Flat, InHand
    <3>3. QED
      BY <3>1, <3>2
  <2>4. m # MsgOf(o) /\ inFlight[m] \in Objs /\ inFlight[m] # o /\ FlightCovered(inFlight[m])
    BY <2>1, <2>3, FlightTypes DEF InFlight
  <2>5. pq'[inFlight[m]] = pq[inFlight[m]]
    BY <2>1, <2>2, <2>4, RemoveKeeps
  <2>6. QED
    BY <1>0, <2>1, <2>4, <2>5 DEF FlightCovered
<1>3. CASE IoTouch(c)
  <2>1. /\ MsgOf(ioobj[c]) \in Msgs /\ iopc[c] = "touch" /\ iopc'[c] = "touchPQ" /\ UNCHANGED <<ioobj, pq>>
        /\ inFlight' = [inFlight EXCEPT ![MsgOf(ioobj[c])] = ioobj[c]]
    BY <1>3, TouchFacts
  <2>2. CASE m = MsgOf(ioobj[c])
    <3>1. inFlight'[m] = ioobj[c]
      BY <2>1, <2>2, FlightTypes
    <3>2. QED
      BY <2>1, <3>1 DEF FlightCovered
  <2>3. CASE m # MsgOf(ioobj[c])
    <3>1. inFlight'[m] = inFlight[m] /\ FlightCovered(inFlight[m])
      BY <2>1, <2>3, FlightTypes
    <3>2. QED
      BY <1>0, <2>1, <3>1 DEF FlightCovered
  <2>4. QED
    BY <2>2, <2>3
<1>4. CASE IoTouchPQ(c)
  <2>1. ioobj[c] \in Objs /\ AddToInFlightPQ(ioobj[c]) /\ inFlight' = inFlight
    BY <1>4 DEF IoTouchPQ, Base, HandsFull
  <2>2. pq'[ioobj[c]] > 0 /\ \A u \in Objs : pq[u] > 0 => pq'[u] > 0
    BY <2>1, AddKeeps
  <2>3. FlightCovered(inFlight[m]) /\ inFlight[m] \in Objs
    BY <2>1, FlightTypes
  <2>4. QED
    BY <1>0, <2>1, <2>2, <2>3 DEF FlightCovered
<1>5. CASE ~IoRemove(c) /\ ~IoTouch(c) /\ ~IoTouchPQ(c) /\ ~\E k \in Msgs, kind \in Commands \ {"CLS"} : IoPop(c, kind, k)
  <2>1. inFlight' = inFlight /\ pq' = pq /\ (iopc[c] # "touchPQ" \/ UNCHANGED <<iopc, ioobj>>)
    BY <1>5, IoFlight, IoIndex
  <2>2. FlightCovered(inFlight[m])
    BY <2>1
  <2>3. QED
    BY <1>0, <2>1, <2>2 DEF FlightCovered
<1>6. QED
  BY <1>1, <1>2, <1>3, <1>4, <1>5

LEMMA ScanCovers ==
  ASSUME MaxDecodes = 0, Base, Scan,
         \A m \in Msgs : inFlight[m] # NoObj => FlightCovered(inFlight[m]),
         NEW m \in Msgs, inFlight'[m] # NoObj
  PROVE  FlightCovered(inFlight[m])'
<1>0. UNCHANGED <<ppc, pobj, iopc, ioobj>>
  BY ScanFrame
<1>1. ASSUME NEW o \in Objs, ScanShift(o) PROVE FlightCovered(inFlight[m])'
  <2>1. spc = "inflight" /\ spc' = "shifted" /\ sobj' = o /\ inFlight' = inFlight
    BY <1>1 DEF ScanShift
  <2>2. \A u \in Objs \ {o} : pq'[u] = pq[u]
    BY <1>1, TakeKeeps DEF ScanShift
  <2>3. FlightCovered(inFlight[m]) /\ inFlight[m] \in Objs
    BY <2>1, FlightTypes
  <2>4. QED
    BY <1>0, <2>1, <2>2, <2>3 DEF FlightCovered
<1>2. CASE ScanPop
  <2>1. spc = "shifted" /\ sobj \in Objs /\ MsgOf(sobj) \in Msgs /\ pq' = pq
    BY <1>2, ObjsFacts DEF ScanPop, Base, HandsFull
  <2>2. inFlight[MsgOf(sobj)] # NoObj => inFlight[MsgOf(sobj)] = sobj
    BY <2>1, OneObject, FlightTypes
  <2>3. inFlight'[MsgOf(sobj)] = NoObj /\ \A k \in Msgs \ {MsgOf(sobj)} : inFlight'[k] = inFlight[k]
    BY <1>2, <2>1, <2>2, FlightTypes DEF ScanPop
  <2>4. m # MsgOf(sobj) /\ inFlight'[m] = inFlight[m]
    BY <2>3
  <2>5. inFlight[m] # sobj /\ FlightCovered(inFlight[m])
    BY <2>4, FlightTypes
  <2>6. QED
    BY <1>0, <2>1, <2>4, <2>5 DEF FlightCovered
<1>3. ASSUME ~ScanPop, ~\E o \in Objs : ScanShift(o)
      PROVE  UNCHANGED <<inFlight, pq>> /\ spc # "shifted"
  <2> USE DEF scanRest, flightVars
  <2>1. CASE ScanInFlight \/ ScanInFlightDone \/ ScanTimedOut \/ ScanNotify \/ ScanPut
    BY <2>1 DEF ScanInFlight, ScanInFlightDone, ScanTimedOut, ScanNotify, ScanPut
  <2>2. CASE ScanDeferred \/ (\E o \in Objs : ScanShiftDeferred(o)) \/ ScanDeferredDone
    BY <2>2 DEF ScanDeferred, ScanShiftDeferred, ScanDeferredDone
  <2>3. CASE ScanPopDeferred \/ ScanPutDeferred
    BY <2>3 DEF ScanPopDeferred, ScanPutDeferred
  <2>4. QED
    BY <1>3, <2>1, <2>2, <2>3 DEF Scan
<1>4. CASE ~ScanPop /\ ~\E o \in Objs : ScanShift(o)
  <2>1. UNCHANGED <<inFlight, pq>> /\ spc # "shifted"
    BY <1>3, <1>4
  <2>2. FlightCovered(inFlight[m])
    BY <2>1
  <2>3. QED
    BY <1>0, <2>1, <2>2 DEF FlightCovered
<1>5. QED
  BY <1>1, <1>2, <1>4

LEMMA CoverStep ==
  ASSUME Emptying = FALSE, MaxDecodes = 0, Base, OnePlace, IndexInv, CoverInv, [Next]_vars
  PROVE  CoverInv'
<1> SUFFICES ASSUME ~Exiting'
             PROVE  FinDecided' /\ \A m \in Msgs : inFlight'[m] # NoObj => FlightCovered(inFlight[m])'
  BY DEF CoverInv
<1>0. xpc = "open" /\ xpc' = "open" /\ ~Exiting /\ ~Flushing
  BY OpenBefore
<1>1. /\ epc = "idle" /\ RemovesOwnEntry /\ FinDecided
      /\ \A m \in Msgs : inFlight[m] # NoObj => FlightCovered(inFlight[m])
  BY <1>0 DEF IndexInv, CoverInv
<1>2. FinDecided'
  BY <1>0, <1>1, FinStep
<1>3. CASE UNCHANGED <<inFlight, pq, spc, sobj, ppc, pobj, iopc, ioobj>>
  BY <1>1, <1>2, <1>3 DEF FlightCovered
<1>4. ASSUME NEW c \in Clients, Pump(c) \/ Io(c), NEW m \in Msgs, inFlight'[m] # NoObj
      PROVE  FlightCovered(inFlight[m])'
  <2>1. CASE Pump(c)
    BY <1>0, <1>1, <1>4, <2>1, PumpCovers
  <2>2. CASE Io(c)
    BY <1>0, <1>1, <1>4, <2>2, IoCovers
  <2>3. QED
    BY <1>4, <2>1, <2>2
<1>5. CASE Topic
  BY <1>3, <1>5, TopicFrame
<1>6. ASSUME Scan, NEW m \in Msgs, inFlight'[m] # NoObj
      PROVE  FlightCovered(inFlight[m])'
  BY <1>1, <1>6, ScanCovers
<1>7. CASE Admin
  BY <1>0, <1>1, <1>3, <1>7, AdminOpen, AdminFrame
<1>8. CASE UNCHANGED vars
  BY <1>3, <1>8 DEF vars, flightVars, scanVars, pumpVars, ioVars
<1>9. QED
  BY <1>2, <1>4, <1>5, <1>6, <1>7, <1>8 DEF Next

(* Every in-flight and every deferred message will be found by the queue   *)
(* scan, while a channel that nobody empties is open and its messages stay *)
(* in memory: a command removes only its own message from the queue, and   *)
(* that message has left the map before.  (For the deferred half no        *)
(* hypothesis is needed; the in-flight half does fail when a message read  *)
(* back from disk gets a second object.)                                   *)
THEOREM TimeoutCoveredHolds ==
  ASSUME Emptying = FALSE, MaxDecodes = 0
  PROVE  Spec => [](~Exiting => TimeoutCovered)
<1>1. Init => CoverInv
  BY DEF Init, CoverInv, FinDecided
<1>2. Base /\ OnePlace /\ IndexInv /\ CoverInv /\ [Next]_vars => CoverInv'
  BY CoverStep
<1>3. CoverInv /\ DeferredCovered => (~Exiting => TimeoutCovered)
  BY DEF CoverInv, DeferredCovered, TimeoutCovered, FlightCovered, DeferCovered, Enqueuing
<1>4. QED
  BY <1>1, <1>2, <1>3, NsqChannelBase, PlacesKept, IndexInvHolds, DeferredCoveredHolds, PTL DEF Spec
=============================================================================
