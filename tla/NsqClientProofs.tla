-------------------------- MODULE NsqClientProofs --------------------------
(***************************************************************************)
(* What a channel guarantees its clients, for every number of messages and *)
(* clients: none is left behind by a channel that goes away, none sleeps   *)
(* although it could be served, and its in-flight count is exact.          *)
(***************************************************************************)
EXTENDS NsqOnePlaceProofs, FiniteSetTheorems

(* Where the two goroutines of a client are in each state of the client,   *)
(* and the locks: a scan that looks at a queue keeps exit() out.           *)
ClientInv ==
  /\ \A c \in Clients :
       /\ cstate[c] = "init" => ppc[c] = "nosub" /\ iopc[c] \in {"idle", "subcheck"}
       /\ iopc[c] = "subcheck" => cstate[c] = "init" /\ c \in clients
       /\ cstate[c] \in {"subscribed", "closing"} => c \in clients
       /\ cstate[c] \in {"exiting", "gone"} => iopc[c] = "idle"
  /\ spc \notin {"idle", "between"} => xpc = "open"

-----------------------------------------------------------------------------
(* What the steps of each actor leave alone.                               *)

LEMMA PumpFrame ==
  ASSUME NEW c \in Clients, Pump(c)
  PROVE  UNCHANGED <<deferred, dpq, tpc, tobj, iopc, iokind, ioobj, returns, spc, sobj, paused, pausing, epc, xpc,
                     xmode, kicked, quiet, clients, deleter, cstate, rdy>>
<1> USE DEF pumpOthers, pumpRest, clientVars, deferVars, topicVars, ioVars, scanVars, adminVars
<1>1. CASE PumpSub(c) \/ PumpCheck(c) \/ PumpReadyState(c) \/ PumpTick(c)
  BY <1>1 DEF PumpSub, PumpCheck, PumpReadyState, PumpTick
<1>2. ASSUME NEW o \in Objs, PumpTakeMemory(c, o)
      PROVE  UNCHANGED <<deferred, dpq, tpc, tobj, iopc, iokind, ioobj, returns, spc, sobj, paused, pausing, epc, xpc,
                     xmode, kicked, quiet, clients, deleter, cstate, rdy>>
  BY <1>2 DEF PumpTakeMemory
<1>3. ASSUME NEW m \in Msgs, PumpTakeBackend(c, m)
      PROVE  UNCHANGED <<deferred, dpq, tpc, tobj, iopc, iokind, ioobj, returns, spc, sobj, paused, pausing, epc, xpc,
                     xmode, kicked, quiet, clients, deleter, cstate, rdy>>
  BY <1>3 DEF PumpTakeBackend
<1>4. CASE PumpPush(c) \/ PumpAdd(c) \/ PumpCount(c) \/ PumpSend(c) \/ PumpExit(c)
  BY <1>4 DEF PumpPush, PumpAdd, PumpCount, PumpSend, PumpExit
<1>5. QED
  BY <1>1, <1>2, <1>3, <1>4 DEF Pump

LEMMA IoFrame ==
  ASSUME NEW c \in Clients, Io(c)
  PROVE  UNCHANGED <<decodes, owner, tpc, tobj, ppc, pobj, spc, sobj, paused, pausing, epc, xpc, xmode, kicked, quiet>>
<1> USE DEF ioOthers, ioRest, cmdRest, queueVars, flightVars, topicVars, pumpVars, scanVars, adminVars, pumpOthers
<1>1. CASE Sub(c) \/ SubCheck(c) \/ Cls(c) \/ \E n \in 0..MaxRdyCount : Rdy(c, n)
  BY <1>1 DEF Sub, SubCheck, Cls, Rdy
<1>2. CASE \E m \in Msgs, kind \in Commands \ {"CLS"} : IoPop(c, kind, m)
  BY <1>2 DEF IoPop
<1>3. CASE IoRemove(c) \/ IoRequeue(c) \/ IoDefer(c) \/ IoDeferPQ(c) \/ IoTouch(c) \/ IoTouchPQ(c)
  BY <1>3 DEF IoRemove, IoRequeue, IoDefer, IoDeferPQ, IoTouch, IoTouchPQ
<1>4. CASE IoCount(c) \/ IoNotify(c) \/ IoExit(c) \/ IoRemoveClient(c)
  BY <1>4 DEF IoCount, IoNotify, IoExit, IoRemoveClient
<1>5. QED
  BY <1>1, <1>2, <1>3, <1>4 DEF Io

LEMMA ScanFrame ==
  ASSUME Scan
  PROVE  UNCHANGED <<decodes, owner, clients, deleter, cstate, rdy, known, tpc, tobj, ppc, pobj, iopc, iokind, ioobj,
                     returns, paused, pausing, epc, xpc, xmode, kicked, quiet>>
<1> USE DEF scanOthers, scanRest, queueVars, flightVars, clientVars, topicVars, pumpVars, ioVars, adminVars
<1>1. CASE ScanInFlight \/ (\E o \in Objs : ScanShift(o)) \/ ScanInFlightDone \/ ScanPop
  BY <1>1 DEF ScanInFlight, ScanShift, ScanInFlightDone, ScanPop
<1>2. CASE ScanTimedOut \/ ScanNotify \/ ScanPut \/ ScanDeferred
  BY <1>2 DEF ScanTimedOut, ScanNotify, ScanPut, ScanDeferred
<1>3. CASE (\E o \in Objs : ScanShiftDeferred(o)) \/ ScanDeferredDone \/ ScanPopDeferred \/ ScanPutDeferred
  BY <1>3 DEF ScanShiftDeferred, ScanDeferredDone, ScanPopDeferred, ScanPutDeferred
<1>4. QED
  BY <1>1, <1>2, <1>3 DEF Scan

LEMMA TopicFrame ==
  ASSUME Topic
  PROVE  UNCHANGED <<decodes, inFlight, pq, idx, owner, clients, deleter, cstate, rdy, known, count, token, ppc, pobj,
                     iopc, iokind, ioobj, returns, spc, sobj, paused, pausing, epc, xpc, xmode, kicked, quiet>>
<1> USE DEF topicOthers, queueVars, flightVars, clientVars, readyVars, pumpVars, ioVars, scanVars, adminVars
<1>1. CASE \E m \in Msgs : PutMessage(m)
  BY <1>1 DEF PutMessage
<1>2. CASE \E m \in Msgs : PutMessageDeferred(m)
  BY <1>2 DEF PutMessageDeferred
<1>3. CASE TopicAddToDeferredPQ
  BY <1>3 DEF TopicAddToDeferredPQ
<1>4. QED
  BY <1>1, <1>2, <1>3 DEF Topic

LEMMA AdminFrame ==
  ASSUME Admin
  PROVE  UNCHANGED <<decodes, owner, clients, deleter, cstate, rdy, known, ppc, pobj, iopc, iokind, ioobj, returns, spc,
                     sobj>>
<1> USE DEF adminOthers, adminRest, topicOthers, queueVars, flightVars, clientVars, pumpVars, ioVars, scanVars
<1>1. CASE (\E b \in BOOLEAN : SetPaused(b)) \/ PauseClients \/ EmptyInFlight \/ EmptyDeferred \/ EmptyClients
  BY <1>1 DEF SetPaused, PauseClients, EmptyInFlight, EmptyDeferred, EmptyClients
<1>2. CASE EmptyMemory \/ EmptyBackend \/ (\E mode \in {"close", "delete"} : Exit(mode)) \/ ExitClients
  BY <1>2 DEF EmptyMemory, EmptyBackend, Exit, ExitClients
<1>3. CASE (\E o \in Objs : FlushMemory(o)) \/ FlushMemoryDone \/ FlushInFlight \/ FlushDeferred
  BY <1>3 DEF FlushMemory, FlushMemoryDone, FlushInFlight, FlushDeferred
<1>4. QED
  BY <1>1, <1>2, <1>3 DEF Admin
-----------------------------------------------------------------------------
(* What a step of an IO loop does to its client.                           *)

(* Only the client itself is concerned.                                    *)
Own(c) ==
  \A e \in Clients \ {c} : /\ iopc'[e] = iopc[e] /\ iokind'[e] = iokind[e] /\ ioobj'[e] = ioobj[e]
                           /\ cstate'[e] = cstate[e] /\ rdy'[e] = rdy[e] /\ count'[e] = count[e]
                           /\ token'[e] = token[e] /\ known'[e] = known[e]
                           /\ e \in clients' <=> e \in clients

(* SUB: it becomes a client, or is refused; then it stays or leaves again. *)
Joins(c) ==
  /\ UNCHANGED <<rdy, count, token, known, iokind, ioobj>>
  /\ \/ iopc[c] = "idle" /\ cstate[c] = "init" /\ iopc'[c] = "subcheck" /\ cstate'[c] = "init" /\ c \in clients'
     \/ iopc[c] = "idle" /\ cstate[c] = "init" /\ iopc'[c] = "idle" /\ cstate'[c] = "exiting" /\ clients' = clients
     \/ /\ iopc[c] = "subcheck" /\ iopc'[c] = "idle" /\ cstate'[c] = "subscribed" /\ clients' = clients
        /\ ~(Ephemeral /\ Exiting)
     \/ /\ iopc[c] = "subcheck" /\ iopc'[c] = "idle" /\ cstate'[c] = "gone" /\ c \notin clients'

(* The connection ends, or the client that has ended is removed.           *)
Leaves(c) ==
  /\ UNCHANGED <<rdy, count, token, known, iopc, iokind, ioobj>>
  /\ \/ iopc[c] = "idle" /\ cstate'[c] = "exiting" /\ clients' = clients
     \/ cstate[c] = "exiting" /\ cstate'[c] = "gone" /\ c \notin clients'

(* A command of a client.                                                  *)
Executes(c) ==
  /\ clients' = clients
  /\ iopc'[c] # "subcheck"
  /\ \/ cstate' = cstate /\ iopc[c] \notin {"idle", "subcheck"}
     \/ iopc[c] = "idle" /\ cstate[c] \in {"subscribed", "closing"} /\ cstate'[c] \in {"subscribed", "closing"}
  /\ iopc'[c] # "notify" => rdy'[c] = rdy[c] /\ count'[c] >= count[c]
  /\ iopc[c] = "notify" => token'[c] = TRUE
  /\ token[c] => token'[c]

LEMMA IoClient ==
  ASSUME Base, NEW c \in Clients, Io(c)
  PROVE  Own(c) /\ (Joins(c) \/ Leaves(c) \/ Executes(c))
<1> USE DEF ioOthers, ioRest, cmdRest, clientVars, readyVars, ioVars, pumpOthers
<1>0. /\ iopc \in [Clients -> IoStates] /\ iokind \in [Clients -> CommandNames \ {"CLS"}]
      /\ ioobj \in [Clients -> Objs \cup {NoObj}] /\ cstate \in [Clients -> ClientStates]
      /\ rdy \in [Clients -> 0..MaxRdyCount] /\ count \in [Clients -> Int] /\ token \in [Clients -> BOOLEAN]
      /\ known \in [Clients -> SUBSET Msgs]
  BY DEF Base, TypeOK
<1>1. CASE Sub(c)
  BY <1>0, <1>1 DEF Sub, Own, Joins
<1>2. CASE SubCheck(c)
  BY <1>0, <1>2 DEF SubCheck, Own, Joins
<1>3. CASE Cls(c) \/ \E n \in 0..MaxRdyCount : Rdy(c, n)
  BY <1>0, <1>3 DEF Cls, Rdy, SetReadyCount, Own, Executes
<1>4. CASE \E m \in Msgs, kind \in Commands \ {"CLS"} : IoPop(c, kind, m)
  BY <1>0, <1>4 DEF IoPop, Own, Executes
<1>5. CASE IoRemove(c)
  BY <1>0, <1>5 DEF IoRemove, AfterRemove, CommandNames, Own, Executes
<1>6. CASE IoRequeue(c)
  BY <1>0, <1>6 DEF IoRequeue, IoDrop, Own, Executes
<1>7. CASE IoDefer(c) \/ IoTouch(c)
  BY <1>0, <1>7 DEF IoDefer, IoTouch, IoDrop, Own, Executes
<1>8. CASE IoDeferPQ(c) \/ IoTouchPQ(c)
  BY <1>0, <1>8 DEF IoDeferPQ, IoTouchPQ, IoDrop, Own, Executes
<1>9. CASE IoCount(c)
  BY <1>0, <1>9 DEF IoCount, IoDrop, Own, Executes
<1>10. CASE IoNotify(c)
  BY <1>0, <1>10 DEF IoNotify, TryUpdateReadyState, Own, Executes
<1>11. CASE IoExit(c) \/ IoRemoveClient(c)
  BY <1>0, <1>11 DEF IoExit, IoRemoveClient, Own, Leaves
<1>12. QED
  BY <1>1, <1>2, <1>3, <1>4, <1>5, <1>6, <1>7, <1>8, <1>9, <1>10, <1>11 DEF Io
-----------------------------------------------------------------------------
(* The states of a client, of its two goroutines and of the scan.          *)

(* A pump that waits for its subscription moves when there is one, or when *)
(* the connection has ended.                                               *)
LEMMA PumpOwn ==
  ASSUME Base, NEW c \in Clients, Pump(c)
  PROVE  /\ \A e \in Clients \ {c} : /\ ppc'[e] = ppc[e] /\ pobj'[e] = pobj[e] /\ count'[e] = count[e]
                                     /\ token'[e] = token[e] /\ known'[e] = known[e]
         /\ cstate[c] # "init" \/ ppc[c] # "nosub"
<1> USE DEF pumpOthers, pumpRest, clientVars, readyVars
<1>0. /\ ppc \in [Clients -> PumpStates] /\ pobj \in [Clients -> Objs \cup {NoObj}]
      /\ count \in [Clients -> Int] /\ token \in [Clients -> BOOLEAN] /\ known \in [Clients -> SUBSET Msgs]
  BY DEF Base, TypeOK
<1>1. CASE PumpSub(c) \/ PumpCheck(c) \/ PumpReadyState(c) \/ PumpTick(c)
  BY <1>0, <1>1 DEF PumpSub, PumpCheck, PumpReadyState, PumpTick
<1>2. CASE \E o \in Objs : PumpTakeMemory(c, o)
  BY <1>0, <1>2 DEF PumpTakeMemory, Taken
<1>3. CASE \E m \in Msgs : PumpTakeBackend(c, m)
  BY <1>0, <1>3 DEF PumpTakeBackend, Taken, Undecodable
<1>4. CASE PumpPush(c) \/ PumpAdd(c) \/ PumpCount(c) \/ PumpSend(c) \/ PumpExit(c)
  BY <1>0, <1>4 DEF PumpPush, PumpAdd, PumpCount, PumpSend, PumpExit
<1>5. QED
  BY <1>1, <1>2, <1>3, <1>4 DEF Pump

(* The scan begins on an open channel; exit() waits until it has ended.    *)
LEMMA ScanLock ==
  ASSUME Scan, spc \notin {"idle", "between"} => xpc = "open"
  PROVE  spc' \notin {"idle", "between"} => xpc = "open"
<1>1. CASE ScanInFlight \/ ScanInFlightDone \/ ScanDeferred \/ ScanDeferredDone
  BY <1>1 DEF ScanInFlight, ScanInFlightDone, ScanDeferred, ScanDeferredDone, Exiting
<1>2. CASE (\E o \in Objs : ScanShift(o) \/ ScanShiftDeferred(o)) \/ ScanPop \/ ScanPopDeferred
  BY <1>2 DEF ScanShift, ScanShiftDeferred, ScanPop, ScanPopDeferred
<1>3. CASE ScanTimedOut \/ ScanNotify \/ ScanPut \/ ScanPutDeferred
  BY <1>3 DEF ScanTimedOut, ScanNotify, ScanPut, ScanPutDeferred
<1>4. QED
  BY <1>1, <1>2, <1>3 DEF Scan

(* exit() goes one way: the flag, the clients, then everything else; the   *)
(* clients whose connection it closes are those of that moment.            *)
ExitMoves ==
  \/ UNCHANGED <<xpc, kicked>>
  \/ xpc = "open" /\ xpc' = "clients" /\ spc \in {"idle", "between"} /\ UNCHANGED kicked
  \/ xpc = "clients" /\ xpc' \notin {"open", "clients"} /\ kicked' = clients
  \/ xpc \notin {"open", "clients"} /\ xpc' \notin {"open", "clients"} /\ UNCHANGED kicked

LEMMA AdminMoves ==
  ASSUME Admin
  PROVE  ExitMoves
<1> USE DEF adminOthers, adminRest, topicOthers, adminVars, ExitMoves
<1>1. CASE (\E b \in BOOLEAN : SetPaused(b)) \/ PauseClients \/ EmptyDeferred \/ EmptyClients \/ EmptyMemory
  BY <1>1 DEF SetPaused, PauseClients, EmptyDeferred, EmptyClients, EmptyMemory
<1>2. CASE EmptyInFlight \/ EmptyBackend
  BY <1>2 DEF EmptyInFlight, EmptyBackend
<1>3. CASE (\E mode \in {"close", "delete"} : Exit(mode)) \/ ExitClients
  BY <1>3 DEF Exit, ExitClients
<1>4. CASE (\E o \in Objs : FlushMemory(o)) \/ FlushMemoryDone \/ FlushInFlight \/ FlushDeferred
  BY <1>4 DEF FlushMemory, FlushMemoryDone, FlushInFlight, FlushDeferred
<1>5. QED
  BY <1>1, <1>2, <1>3, <1>4 DEF Admin

LEMMA ClientStep ==
  ASSUME Base, ClientInv, [Next]_vars
  PROVE  ClientInv'
<1>1. CASE UNCHANGED vars
  BY <1>1 DEF ClientInv, vars, clientVars, pumpVars, ioVars, scanVars, adminVars
<1>2. ASSUME NEW c \in Clients, Pump(c) PROVE ClientInv'
  <2>1. UNCHANGED <<iopc, spc, xpc, clients, cstate>>
    BY <1>2, PumpFrame
  <2>2. (\A e \in Clients \ {c} : ppc'[e] = ppc[e]) /\ cstate[c] # "init"
    BY <1>2, PumpOwn DEF ClientInv
  <2>3. QED
    BY <2>1, <2>2 DEF ClientInv
<1>3. ASSUME NEW c \in Clients, Io(c) PROVE ClientInv'
  <2>1. UNCHANGED <<ppc, spc, xpc>>
    BY <1>3, IoFrame
  <2>2. Own(c) /\ (Joins(c) \/ Leaves(c) \/ Executes(c))
    BY <1>3, IoClient
  <2>3. /\ cstate'[c] = "init" => ppc[c] = "nosub" /\ iopc'[c] \in {"idle", "subcheck"}
        /\ iopc'[c] = "subcheck" => cstate'[c] = "init" /\ c \in clients'
        /\ cstate'[c] \in {"subscribed", "closing"} => c \in clients'
        /\ cstate'[c] \in {"exiting", "gone"} => iopc'[c] = "idle"
    <3>1. CASE Joins(c)
      BY <3>1 DEF Joins, ClientInv
    <3>2. CASE Leaves(c)
      BY <3>2 DEF Leaves, ClientInv
    <3>3. CASE Executes(c)
      BY <3>3 DEF Executes, ClientInv
    <3>4. QED
      BY <2>2, <3>1, <3>2, <3>3
  <2>4. QED
    BY <2>1, <2>2, <2>3 DEF ClientInv, Own
<1>4. CASE Topic
  BY <1>4, TopicFrame DEF ClientInv
<1>5. CASE Scan
  <2>1. UNCHANGED <<clients, cstate, ppc, iopc, xpc>>
    BY <1>5, ScanFrame
  <2>2. spc' \notin {"idle", "between"} => xpc = "open"
    BY <1>5, ScanLock DEF ClientInv
  <2>3. QED
    BY <2>1, <2>2 DEF ClientInv
<1>6. CASE Admin
  BY <1>6, AdminFrame, AdminMoves DEF ClientInv, ExitMoves
<1>7. QED
  BY <1>1, <1>2, <1>3, <1>4, <1>5, <1>6 DEF Next

(* Whoever got into an ephemeral channel that goes away is disconnected.   *)
LEMMA OrphanStep ==
  ASSUME Base, ClientInv, NoOrphanSubscriber, [Next]_vars
  PROVE  NoOrphanSubscriber'
<1>1. CASE UNCHANGED <<xpc, kicked, cstate>>
  BY <1>1 DEF NoOrphanSubscriber
<1>2. ASSUME NEW c \in Clients, Io(c) PROVE NoOrphanSubscriber'
  <2>1. UNCHANGED <<xpc, kicked>>
    BY <1>2, IoFrame
  <2>2. Own(c) /\ (Joins(c) \/ Leaves(c) \/ Executes(c))
    BY <1>2, IoClient
  <2>3. Ephemeral /\ xpc # "open" /\ cstate'[c] \in {"subscribed", "closing"} => cstate[c] \in {"subscribed", "closing"}
    BY <2>2 DEF Joins, Leaves, Executes, Exiting, ClientInv
  <2>4. QED
    BY <2>1, <2>2, <2>3 DEF NoOrphanSubscriber, Own
<1>3. CASE Admin
  <2>1. UNCHANGED <<cstate, clients>> /\ ExitMoves
    BY <1>3, AdminFrame, AdminMoves
  <2>2. QED
    BY <2>1 DEF ExitMoves, NoOrphanSubscriber, ClientInv
<1>4. QED
  <2>1. ASSUME NEW c \in Clients, Pump(c) PROVE UNCHANGED <<xpc, kicked, cstate>>
    BY <2>1, PumpFrame
  <2>2. CASE Topic
    BY <1>1, <2>2, TopicFrame
  <2>3. CASE Scan
    BY <1>1, <2>3, ScanFrame
  <2>4. CASE UNCHANGED vars
    BY <1>1, <2>4 DEF vars, clientVars, adminVars
  <2>5. QED
    BY <1>1, <1>2, <1>3, <2>1, <2>2, <2>3, <2>4 DEF Next
-----------------------------------------------------------------------------
(* No wakeup is lost.                                                      *)

(* Who owns a message in the scan's hands does not change: no pump has it. *)
LEMMA ScanOwner ==
  ASSUME Base, OnePlace, ClientInv, NEW c \in Clients, Pump(c)
  PROVE  spc \in {"timedout", "notify", "put"} => owner'[sobj] = owner[sobj]
<1>1. CASE owner' = owner
  BY <1>1
<1>2. CASE PumpPush(c)
  <2>1. SUFFICES ASSUME spc \in {"timedout", "notify", "put"} PROVE owner'[sobj] = owner[sobj]
    OBVIOUS
  <2>2. sobj \in Objs /\ MsgOf(sobj) \in Msgs /\ ScanHas(MsgOf(sobj))
    BY <2>1, ObjsFacts DEF Base, HandsFull, ScanHas
  <2>3. ~Flushing
    BY <2>1 DEF ClientInv, Flushing
  <2>4. ~InHand(MsgOf(sobj))
    BY <2>2, <2>3 DEF OnePlace, Flat
  <2>5. ppc[c] = "push" /\ owner' = [owner EXCEPT ![pobj[c]] = c]
    BY <1>2 DEF PumpPush
  <2>6. pobj[c] # sobj
    BY <2>4, <2>5 DEF InHand, PumpHas
  <2>7. owner \in [Objs -> Clients \cup {NoClient}]
    BY DEF Base, TypeOK
  <2>8. QED
    BY <2>2, <2>5, <2>6, <2>7
<1>3. QED
  <2> USE <1>1 DEF pumpRest, flightVars
  <2>1. CASE PumpSub(c) \/ PumpCheck(c) \/ PumpReadyState(c) \/ PumpTick(c)
    BY <2>1 DEF PumpSub, PumpCheck, PumpReadyState, PumpTick
  <2>2. CASE (\E o \in Objs : PumpTakeMemory(c, o)) \/ (\E m \in Msgs : PumpTakeBackend(c, m))
    BY <2>2 DEF PumpTakeMemory, PumpTakeBackend
  <2>3. CASE PumpAdd(c) \/ PumpCount(c) \/ PumpSend(c) \/ PumpExit(c)
    BY <2>3 DEF PumpAdd, PumpCount, PumpSend, PumpExit
  <2>4. QED
    BY <1>2, <2>1, <2>2, <2>3 DEF Pump

(* A pump falls asleep only when its client is not ready.                  *)
LEMMA PumpSleeps ==
  ASSUME Base, NEW c \in Clients, Pump(c), ppc'[c] = "idle"
  PROVE  ~IsReadyForMessages(c) /\ count' = count
<1> USE DEF pumpRest, readyVars
<1>0. ppc \in [Clients -> PumpStates]
  BY DEF Base, TypeOK
<1>1. CASE PumpCheck(c)
  BY <1>0, <1>1 DEF PumpCheck
<1>2. CASE PumpSub(c) \/ PumpReadyState(c) \/ PumpTick(c)
  BY <1>0, <1>2 DEF PumpSub, PumpReadyState, PumpTick
<1>3. CASE (\E o \in Objs : PumpTakeMemory(c, o)) \/ (\E m \in Msgs : PumpTakeBackend(c, m))
  BY <1>0, <1>3 DEF PumpTakeMemory, PumpTakeBackend, Taken, Undecodable
<1>4. CASE PumpPush(c) \/ PumpAdd(c) \/ PumpCount(c) \/ PumpSend(c) \/ PumpExit(c)
  BY <1>0, <1>4 DEF PumpPush, PumpAdd, PumpCount, PumpSend, PumpExit
<1>5. QED
  BY <1>1, <1>2, <1>3, <1>4 DEF Pump

(* A timeout that lowers a client's count is followed by a token.          *)
LEMMA ScanTells ==
  ASSUME Base, Scan, NEW c \in Clients
  PROVE  /\ count'[c] = count[c] \/ (spc' = "notify" /\ owner[sobj'] = c)
         /\ token[c] => token'[c]
         /\ spc = "notify" /\ owner[sobj] = c => token'[c]
<1> USE DEF scanRest, readyVars
<1>0. count \in [Clients -> Int] /\ token \in [Clients -> BOOLEAN]
  BY DEF Base, TypeOK
<1>1. CASE ScanInFlight \/ ScanInFlightDone \/ ScanDeferred \/ ScanDeferredDone
  BY <1>1 DEF ScanInFlight, ScanInFlightDone, ScanDeferred, ScanDeferredDone
<1>2. CASE (\E o \in Objs : ScanShift(o) \/ ScanShiftDeferred(o)) \/ ScanPop \/ ScanPopDeferred
  BY <1>2 DEF ScanShift, ScanShiftDeferred, ScanPop, ScanPopDeferred
<1>3. CASE ScanTimedOut
  BY <1>0, <1>3 DEF ScanTimedOut
<1>4. CASE ScanNotify
  BY <1>0, <1>4 DEF ScanNotify, TryUpdateReadyState
<1>5. CASE ScanPut \/ ScanPutDeferred
  BY <1>5 DEF ScanPut, ScanPutDeferred
<1>6. QED
  BY <1>1, <1>2, <1>3, <1>4, <1>5 DEF Scan

(* So is a handler's change of the pause flag or of the counts.            *)
LEMMA AdminTells ==
  ASSUME Base, Admin
  PROVE  pausing' = TRUE \/ (\A c \in clients : token'[c]) \/ UNCHANGED <<paused, pausing, count, token>>
<1> USE DEF adminOthers, adminRest, topicOthers, adminVars, readyVars
<1>0. clients \subseteq Clients
  BY DEF Base, TypeOK
<1>1. CASE \E b \in BOOLEAN : SetPaused(b)
  BY <1>1 DEF SetPaused
<1>2. CASE PauseClients
  BY <1>0, <1>2 DEF PauseClients
<1>3. CASE EmptyClients
  BY <1>0, <1>3 DEF EmptyClients
<1>4. CASE EmptyInFlight \/ EmptyDeferred \/ EmptyMemory \/ EmptyBackend
  BY <1>4 DEF EmptyInFlight, EmptyDeferred, EmptyMemory, EmptyBackend
<1>5. CASE (\E mode \in {"close", "delete"} : Exit(mode)) \/ ExitClients
  BY <1>5 DEF Exit, ExitClients
<1>6. CASE (\E o \in Objs : FlushMemory(o)) \/ FlushMemoryDone \/ FlushInFlight \/ FlushDeferred
  BY <1>6 DEF FlushMemory, FlushMemoryDone, FlushInFlight, FlushDeferred
<1>7. QED
  BY <1>1, <1>2, <1>3, <1>4, <1>5, <1>6 DEF Admin

LEMMA WakeupStep ==
  ASSUME Base, OnePlace, ClientInv, NoLostWakeup, [Next]_vars
  PROVE  NoLostWakeup'
<1>0. count \in [Clients -> Int] /\ rdy \in [Clients -> 0..MaxRdyCount] /\ clients \subseteq Clients
      /\ token \in [Clients -> BOOLEAN] /\ pausing \in BOOLEAN
  BY DEF Base, TypeOK
<1>1. CASE UNCHANGED vars
  BY <1>1 DEF vars, NoLostWakeup, IsReadyForMessages, flightVars, clientVars, readyVars, pumpVars, ioVars, scanVars,
              adminVars
<1>2. ASSUME NEW d \in Clients, Pump(d) PROVE NoLostWakeup'
  <2>1. UNCHANGED <<iopc, spc, sobj, paused, pausing, clients, rdy>>
    BY <1>2, PumpFrame
  <2>2. spc = "notify" => owner'[sobj] = owner[sobj]
    BY <1>2, ScanOwner
  <2>3. ppc'[d] = "idle" => ~IsReadyForMessages(d)'
    BY <1>2, <2>1, PumpSleeps DEF IsReadyForMessages
  <2>4. \A e \in Clients \ {d} : ppc'[e] = ppc[e] /\ count'[e] = count[e] /\ token'[e] = token[e]
    BY <1>2, PumpOwn
  <2>5. QED
    BY <1>0, <2>1, <2>2, <2>3, <2>4 DEF NoLostWakeup, IsReadyForMessages
<1>3. ASSUME NEW d \in Clients, Io(d) PROVE NoLostWakeup'
  <2>1. UNCHANGED <<ppc, spc, sobj, paused, pausing, owner>>
    BY <1>3, IoFrame
  <2>2. Own(d) /\ (Joins(d) \/ Leaves(d) \/ Executes(d))
    BY <1>3, IoClient
  <2>3. SUFFICES ASSUME NEW c \in clients', ppc[c] = "idle", IsReadyForMessages(c)'
                 PROVE  token'[c] \/ iopc'[c] = "notify" \/ pausing \/ (spc = "notify" /\ owner[sobj] = c)
    BY <2>1 DEF NoLostWakeup
  <2>4. c \in Clients
    <3>1. clients' \subseteq Clients
      BY BaseStep DEF Base, TypeOK
    <3>2. QED
      BY <3>1
  <2>5. ~paused /\ count'[c] < rdy'[c] /\ rdy'[c] > 0
    BY <2>1, <2>3 DEF IsReadyForMessages
  <2>6. CASE c # d
    BY <2>2, <2>3, <2>4, <2>5, <2>6 DEF Own, NoLostWakeup, IsReadyForMessages
  <2>7. CASE c = d
    <3>1. ~Joins(d)
      BY <2>3, <2>7 DEF Joins, ClientInv
    <3>2. CASE Leaves(d)
      <4>1. c \in clients /\ UNCHANGED <<iopc, token, rdy, count>>
        BY <2>3, <2>7, <3>2 DEF Leaves
      <4>2. QED
        BY <2>3, <2>5, <4>1 DEF NoLostWakeup, IsReadyForMessages
    <3>3. CASE Executes(d) /\ iopc'[d] # "notify"
      <4>1. c \in clients /\ rdy'[c] = rdy[c] /\ count'[c] >= count[c]
        BY <2>3, <2>7, <3>3 DEF Executes
      <4>2. (iopc[c] = "notify" => token'[c]) /\ (token[c] => token'[c])
        BY <2>7, <3>3 DEF Executes
      <4>3. count'[c] \in Int /\ count[c] \in Int /\ rdy[c] \in Int
        <5>1. count' \in [Clients -> Int]
          BY BaseStep DEF Base, TypeOK
        <5>2. QED
          BY <1>0, <2>4, <5>1, BoundsAssumption
      <4>4. count[c] < rdy[c] /\ rdy[c] > 0
        BY <2>5, <4>1, <4>3
      <4>5. QED
        BY <2>3, <2>5, <4>1, <4>2, <4>4 DEF NoLostWakeup, IsReadyForMessages
    <3>4. QED
      BY <2>2, <2>7, <3>1, <3>2, <3>3
  <2>8. QED
    BY <2>6, <2>7
<1>4. CASE Topic
  BY <1>4, TopicFrame DEF NoLostWakeup, IsReadyForMessages
<1>5. CASE Scan
  <2>1. UNCHANGED <<owner, clients, rdy, ppc, iopc, paused, pausing>>
    BY <1>5, ScanFrame
  <2>2. SUFFICES ASSUME NEW c \in clients, ppc[c] = "idle", ~paused, count'[c] < rdy[c], rdy[c] > 0
                 PROVE  token'[c] \/ iopc[c] = "notify" \/ pausing \/ (spc' = "notify" /\ owner[sobj'] = c)
    BY <2>1 DEF NoLostWakeup, IsReadyForMessages
  <2>3. /\ count'[c] = count[c] \/ (spc' = "notify" /\ owner[sobj'] = c)
        /\ token[c] => token'[c]
        /\ spc = "notify" /\ owner[sobj] = c => token'[c]
    BY <1>0, <1>5, ScanTells
  <2>4. QED
    BY <2>2, <2>3 DEF NoLostWakeup, IsReadyForMessages
<1>6. CASE Admin
  <2>1. UNCHANGED <<owner, clients, rdy, ppc, iopc, spc, sobj>>
    BY <1>6, AdminFrame
  <2>2. pausing' = TRUE \/ (\A c \in clients : token'[c]) \/ UNCHANGED <<paused, pausing, count, token>>
    BY <1>6, AdminTells
  <2>3. QED
    BY <2>1, <2>2 DEF NoLostWakeup, IsReadyForMessages
<1>7. QED
  BY <1>1, <1>2, <1>3, <1>4, <1>5, <1>6 DEF Next
-----------------------------------------------------------------------------
(* The in-flight count.                                                    *)

(* A connection that has not subscribed has nothing.                       *)
FreshInv ==
  \A c \in Clients : cstate[c] = "init" => count[c] = 0 /\ \A o \in Objs : owner[o] # c

(* TOUCH puts back what it took from its own client.                       *)
TouchesOwn ==
  \A c \in Clients : iopc[c] = "touch" \/ (iopc[c] = "remove" /\ iokind[c] = "TOUCH") => owner[ioobj[c]] = c

(* The count is below the ready count when the pump takes a message, and   *)
(* only the pump raises it.                                                *)
CountBelow ==
  \A c \in clients : /\ count[c] <= MaxRdyCount
                     /\ ppc[c] \in {"ready", "push", "add", "count"} => count[c] < MaxRdyCount

CountInv == ~Exiting => epc = "idle" /\ CountExact /\ TouchesOwn /\ CountBelow

(* The lags one by one.                                                    *)
IoLag(c)   == IF iopc[c] \in {"remove", "put", "defer", "deferPQ", "touch", "count"} THEN 1 ELSE 0
ScanLag(c) == IF spc = "timedout" /\ owner[sobj] = c THEN 1 ELSE 0
PumpLag(c) == IF ppc[c] \in {"add", "count"} THEN 1 ELSE 0
CountOf(c) == count[c] = Cardinality(InFlightTo(c)) + (IoLag(c) + ScanLag(c) - PumpLag(c))

LEMMA CountsOne == CountExact <=> \A c \in clients : CountOf(c)
BY DEF CountExact, CountOf, Lag, IoLag, ScanLag, PumpLag

LEMMA CountsOneNext == CountExact' <=> \A c \in clients' : CountOf(c)'
BY DEF CountExact, CountOf, Lag, IoLag, ScanLag, PumpLag

LEMMA LagTypes ==
  ASSUME NEW c
  PROVE  /\ IoLag(c) \in {0, 1} /\ ScanLag(c) \in {0, 1} /\ PumpLag(c) \in {0, 1}
         /\ IoLag(c)' \in {0, 1} /\ ScanLag(c)' \in {0, 1} /\ PumpLag(c)' \in {0, 1}
BY DEF IoLag, ScanLag, PumpLag

LEMMA FlightSize ==
  /\ \A S \in SUBSET Msgs : IsFiniteSet(S) /\ Cardinality(S) \in Nat
  /\ \A S \in SUBSET Msgs : \A m \in Msgs \ S : Cardinality(S \cup {m}) = Cardinality(S) + 1
  /\ \A S \in SUBSET Msgs : \A m \in S : Cardinality(S \ {m}) = Cardinality(S) - 1
  /\ \A c : InFlightTo(c) \in SUBSET Msgs /\ InFlightTo(c)' \in SUBSET Msgs
<1>1. \A S \in SUBSET Msgs : IsFiniteSet(S) /\ Cardinality(S) \in Nat
  BY SetsAssumption, FS_Subset, FS_CardinalityType
<1>2. \A S \in SUBSET Msgs : \A m \in Msgs \ S : Cardinality(S \cup {m}) = Cardinality(S) + 1
  BY <1>1, FS_AddElement
<1>3. \A S \in SUBSET Msgs : \A m \in S : Cardinality(S \ {m}) = Cardinality(S) - 1
  BY <1>1, FS_RemoveElement
<1>4. \A c : InFlightTo(c) \in SUBSET Msgs /\ InFlightTo(c)' \in SUBSET Msgs
  BY DEF InFlightTo
<1>5. QED
  BY <1>1, <1>2, <1>3, <1>4

(* A step that changes neither the client's count, nor its messages, nor   *)
(* what is under way.                                                      *)
LEMMA CountKept ==
  ASSUME NEW c \in Clients, CountOf(c), count'[c] = count[c], InFlightTo(c)' = InFlightTo(c),
         IoLag(c)' = IoLag(c), ScanLag(c)' = ScanLag(c), PumpLag(c)' = PumpLag(c)
  PROVE  CountOf(c)'
BY DEF CountOf

(* A message comes in or goes out, or the count moves, and a lag makes up  *)
(* for it.                                                                 *)
LEMMA CountMoves ==
  ASSUME NEW c \in Clients, Base, CountOf(c),
         \/ /\ InFlightTo(c)' = InFlightTo(c)
            /\ count'[c] - count[c] =
                 IoLag(c)' - IoLag(c) + (ScanLag(c)' - ScanLag(c)) - (PumpLag(c)' - PumpLag(c))
         \/ /\ \E m \in Msgs \ InFlightTo(c) : InFlightTo(c)' = InFlightTo(c) \cup {m}
            /\ count'[c] = count[c]
            /\ IoLag(c)' - IoLag(c) + (ScanLag(c)' - ScanLag(c)) - (PumpLag(c)' - PumpLag(c)) = -1
         \/ /\ \E m \in InFlightTo(c) : InFlightTo(c)' = InFlightTo(c) \ {m}
            /\ count'[c] = count[c]
            /\ IoLag(c)' - IoLag(c) + (ScanLag(c)' - ScanLag(c)) - (PumpLag(c)' - PumpLag(c)) = 1,
         count'[c] \in Int
  PROVE  CountOf(c)'
<1> DEFINE n == Cardinality(InFlightTo(c))  np == Cardinality(InFlightTo(c)')
           d == IoLag(c)' - IoLag(c) + (ScanLag(c)' - ScanLag(c)) - (PumpLag(c)' - PumpLag(c))
<1>1. n \in Nat /\ np \in Nat
  BY FlightSize
<1>2. \/ np = n /\ count'[c] - count[c] = d
      \/ np = n + 1 /\ count'[c] = count[c] /\ d = -1
      \/ np = n - 1 /\ count'[c] = count[c] /\ d = 1
  <2>1. CASE InFlightTo(c)' = InFlightTo(c) /\ count'[c] - count[c] = d
    BY <2>1
  <2>2. CASE (\E m \in Msgs \ InFlightTo(c) : InFlightTo(c)' = InFlightTo(c) \cup {m}) /\ count'[c] = count[c] /\ d = -1
    BY <2>2, FlightSize
  <2>3. CASE (\E m \in InFlightTo(c) : InFlightTo(c)' = InFlightTo(c) \ {m}) /\ count'[c] = count[c] /\ d = 1
    BY <2>3, FlightSize
  <2>4. QED
    BY <2>1, <2>2, <2>3
<1>3. count[c] = n + (IoLag(c) + ScanLag(c) - PumpLag(c)) /\ count[c] \in Int
  BY DEF CountOf, Base, TypeOK
<1>4. SUFFICES count'[c] = np + (IoLag(c)' + ScanLag(c)' - PumpLag(c)')
  BY DEF CountOf
<1>5. /\ IoLag(c) \in Int /\ ScanLag(c) \in Int /\ PumpLag(c) \in Int
      /\ IoLag(c)' \in Int /\ ScanLag(c)' \in Int /\ PumpLag(c)' \in Int
  BY LagTypes
<1>6. \A a, b, x, y, i, s, p, j, t, q \in Int :
        /\ a = x + (i + s - p)
        /\ \/ y = x /\ b - a = j - i + (t - s) - (q - p)
           \/ y = x + 1 /\ b = a /\ j - i + (t - s) - (q - p) = -1
           \/ y = x - 1 /\ b = a /\ j - i + (t - s) - (q - p) = 1
        => b = y + (j + t - q)
  OBVIOUS
<1>7. n \in Int /\ np \in Int
  BY <1>1
<1> HIDE DEF n, np
<1>8. QED
  BY <1>2, <1>3, <1>5, <1>6, <1>7

(* Only a push changes what is in flight, and to whom.                     *)
LEMMA PumpFlight ==
  ASSUME NEW c \in Clients, Pump(c), ~PumpPush(c)
  PROVE  UNCHANGED <<owner, inFlight>>
<1> USE DEF pumpRest, flightVars
<1>1. CASE PumpSub(c) \/ PumpCheck(c) \/ PumpReadyState(c) \/ PumpTick(c)
  BY <1>1 DEF PumpSub, PumpCheck, PumpReadyState, PumpTick
<1>2. CASE (\E o \in Objs : PumpTakeMemory(c, o)) \/ (\E m \in Msgs : PumpTakeBackend(c, m))
  BY <1>2 DEF PumpTakeMemory, PumpTakeBackend
<1>3. CASE PumpAdd(c) \/ PumpCount(c) \/ PumpSend(c) \/ PumpExit(c)
  BY <1>3 DEF PumpAdd, PumpCount, PumpSend, PumpExit
<1>4. QED
  BY <1>1, <1>2, <1>3 DEF Pump

(* The message of a push is not in flight already: the pump has it.        *)
LEMMA PushFacts ==
  ASSUME Base, OnePlace, ~Flushing, NEW c \in Clients, PumpPush(c)
  PROVE  /\ pobj[c] \in Objs /\ MsgOf(pobj[c]) \in Msgs /\ ppc[c] = "push" /\ ppc'[c] = "add"
         /\ inFlight[MsgOf(pobj[c])] = NoObj
         /\ inFlight' = [inFlight EXCEPT ![MsgOf(pobj[c])] = pobj[c]]
         /\ owner' = [owner EXCEPT ![pobj[c]] = c]
         /\ UNCHANGED <<count, pobj, fate, known, pq, idx>>
<1>1. ppc[c] = "push" /\ pobj[c] \in Objs
  BY DEF PumpPush, Base, HandsFull
<1>2. MsgOf(pobj[c]) \in Msgs /\ PumpHas(c, MsgOf(pobj[c]))
  BY <1>1, ObjsFacts DEF PumpHas
<1>3. inFlight[MsgOf(pobj[c])] = NoObj
  BY <1>2 DEF OnePlace, Flat, InHand, InFlight
<1>4. ppc \in [Clients -> PumpStates]
  BY DEF Base, TypeOK
<1>5. QED
  BY <1>1, <1>2, <1>3, <1>4 DEF PumpPush, readyVars, clientVars

LEMMA PushFlight ==
  ASSUME Base, OnePlace, ~Flushing, NEW c \in Clients, PumpPush(c)
  PROVE  /\ \A e \in Clients \ {c} : InFlightTo(e)' = InFlightTo(e)
         /\ MsgOf(pobj[c]) \in Msgs \ InFlightTo(c) /\ InFlightTo(c)' = InFlightTo(c) \cup {MsgOf(pobj[c])}
<1> DEFINE o == pobj[c]  m == MsgOf(o)
<1>1. /\ o \in Objs /\ m \in Msgs /\ inFlight[m] = NoObj
      /\ inFlight' = [inFlight EXCEPT ![m] = o] /\ owner' = [owner EXCEPT ![o] = c]
  BY PushFacts
<1>2. /\ inFlight \in [Msgs -> Objs \cup {NoObj}] /\ owner \in [Objs -> Clients \cup {NoClient}]
      /\ \A k \in Msgs : inFlight[k] # NoObj => MsgOf(inFlight[k]) = k
  BY DEF Base, TypeOK, HandsFull
<1>3. inFlight'[m] = o /\ owner'[o] = c /\ o # NoObj
  BY <1>1, <1>2, SetsAssumption
<1>4. \A k \in Msgs \ {m} : /\ inFlight'[k] = inFlight[k]
                            /\ inFlight[k] # NoObj => owner'[inFlight[k]] = owner[inFlight[k]]
  BY <1>1, <1>2
<1> HIDE DEF o, m
<1>5. \A e \in Clients, k \in Msgs \ {m} : k \in InFlightTo(e)' <=> k \in InFlightTo(e)
  BY <1>4 DEF InFlightTo
<1>6. \A e \in Clients : m \notin InFlightTo(e) /\ (m \in InFlightTo(e)' <=> e = c)
  BY <1>1, <1>3 DEF InFlightTo
<1>7. QED
  <2>1. \A e : InFlightTo(e) \subseteq Msgs /\ InFlightTo(e)' \subseteq Msgs
    BY DEF InFlightTo
  <2>2. ASSUME NEW e \in Clients \ {c} PROVE InFlightTo(e)' = InFlightTo(e)
    <3>1. \A k \in Msgs : k \in InFlightTo(e)' <=> k \in InFlightTo(e)
      BY <1>5, <1>6, <2>2
    <3>2. QED
      BY <2>1, <3>1
  <2>3. InFlightTo(c)' = InFlightTo(c) \cup {m}
    BY <1>1, <1>5, <1>6, <2>1
  <2>4. QED
    BY <1>1, <1>6, <2>2, <2>3 DEF o, m

(* What a pump's other steps do to its client's count.                     *)
LEMMA PumpSteps ==
  ASSUME Base, NEW c \in Clients, Pump(c), ~PumpPush(c)
  PROVE  \/ count' = count /\ PumpLag(c)' = PumpLag(c)
         \/ PumpCount(c) /\ count'[c] = count[c] + 1 /\ PumpLag(c) = 1 /\ PumpLag(c)' = 0
<1> USE DEF pumpRest, readyVars, PumpLag
<1>0. ppc \in [Clients -> PumpStates] /\ count \in [Clients -> Int]
  BY DEF Base, TypeOK
<1>1. CASE PumpSub(c) \/ PumpCheck(c) \/ PumpReadyState(c) \/ PumpTick(c)
  BY <1>0, <1>1 DEF PumpSub, PumpCheck, PumpReadyState, PumpTick
<1>2. CASE (\E o \in Objs : PumpTakeMemory(c, o)) \/ (\E m \in Msgs : PumpTakeBackend(c, m))
  BY <1>0, <1>2 DEF PumpTakeMemory, PumpTakeBackend, Taken, Undecodable
<1>3. CASE PumpCount(c)
  BY <1>0, <1>3 DEF PumpCount
<1>4. CASE PumpAdd(c) \/ PumpSend(c) \/ PumpExit(c)
  BY <1>0, <1>4 DEF PumpAdd, PumpSend, PumpExit
<1>5. QED
  BY <1>1, <1>2, <1>3, <1>4 DEF Pump

LEMMA PumpCounts ==
  ASSUME Base, OnePlace, ClientInv, ~Flushing, NEW c \in Clients, Pump(c), NEW e \in Clients, CountOf(e)
  PROVE  CountOf(e)'
<1>1. UNCHANGED <<iopc, spc, sobj>>
  BY PumpFrame
<1>2. IoLag(e)' = IoLag(e)
  BY <1>1 DEF IoLag
<1>3. ScanLag(e)' = ScanLag(e)
  BY <1>1, ScanOwner DEF ScanLag
<1>4. e # c => count'[e] = count[e] /\ PumpLag(e)' = PumpLag(e)
  BY PumpOwn DEF PumpLag
<1>5. count' \in [Clients -> Int] /\ count \in [Clients -> Int]
  <2>1. Base'
    BY PumpType
  <2>2. QED
    BY <2>1 DEF Base, TypeOK
<1>6. CASE PumpPush(c)
  <2>1. e # c => InFlightTo(e)' = InFlightTo(e)
    BY <1>6, PushFlight
  <2>2. CASE e = c
    <3>1. MsgOf(pobj[c]) \in Msgs \ InFlightTo(c) /\ InFlightTo(c)' = InFlightTo(c) \cup {MsgOf(pobj[c])}
      BY <1>6, PushFlight
    <3>2. count'[c] = count[c] /\ PumpLag(c) = 0 /\ PumpLag(c)' = 1
      BY <1>6, PushFacts DEF PumpLag
    <3>3. IoLag(c)' - IoLag(c) + (ScanLag(c)' - ScanLag(c)) - (PumpLag(c)' - PumpLag(c)) = -1
      BY <1>2, <1>3, <2>2, <3>2, LagTypes
    <3>4. QED
      BY <1>5, <2>2, <3>1, <3>2, <3>3, CountMoves
  <2>3. QED
    BY <1>2, <1>3, <1>4, <2>1, <2>2, CountKept
<1>7. CASE ~PumpPush(c)
  <2>1. InFlightTo(e)' = InFlightTo(e)
    BY <1>7, PumpFlight DEF InFlightTo
  <2>2. \/ count' = count /\ PumpLag(c)' = PumpLag(c)
        \/ count'[c] = count[c] + 1 /\ PumpLag(c) = 1 /\ PumpLag(c)' = 0
    BY <1>7, PumpSteps
  <2>3. CASE e = c /\ count'[c] = count[c] + 1 /\ PumpLag(c) = 1 /\ PumpLag(c)' = 0
    <3>1. count'[e] - count[e] = IoLag(e)' - IoLag(e) + (ScanLag(e)' - ScanLag(e)) - (PumpLag(e)' - PumpLag(e))
      BY <1>2, <1>3, <1>5, <2>3, LagTypes
    <3>2. QED
      BY <1>5, <2>1, <3>1, CountMoves
  <2>4. QED
    BY <1>2, <1>3, <1>4, <2>1, <2>2, <2>3, CountKept
<1>8. QED
  BY <1>6, <1>7

(* A command takes a message of its own client out of the map ...          *)
LEMMA PopFlight ==
  ASSUME Base, NEW c \in Clients, NEW kind, NEW m \in Msgs, IoPop(c, kind, m)
  PROVE  /\ \A e \in Clients \ {c} : InFlightTo(e)' = InFlightTo(e)
         /\ m \in InFlightTo(c) /\ InFlightTo(c)' = InFlightTo(c) \ {m}
<1>1. inFlight[m] # NoObj /\ owner[inFlight[m]] = c /\ inFlight' = [inFlight EXCEPT ![m] = NoObj] /\ owner' = owner
  BY DEF IoPop
<1>2. inFlight \in [Msgs -> Objs \cup {NoObj}]
  BY DEF Base, TypeOK
<1>3. inFlight'[m] = NoObj /\ \A k \in Msgs \ {m} : inFlight'[k] = inFlight[k]
  BY <1>1, <1>2
<1>4. QED
  BY <1>1, <1>3 DEF InFlightTo

(* ... and TOUCH puts it back.  It is not in flight meanwhile.             *)
LEMMA TouchFacts ==
  ASSUME Base, OnePlace, ~Flushing, NEW c \in Clients, IoTouch(c)
  PROVE  /\ ioobj[c] \in Objs /\ MsgOf(ioobj[c]) \in Msgs /\ inFlight[MsgOf(ioobj[c])] = NoObj
         /\ inFlight' = [inFlight EXCEPT ![MsgOf(ioobj[c])] = ioobj[c]]
         /\ iopc[c] = "touch" /\ iopc'[c] = "touchPQ" /\ UNCHANGED <<ioobj, iokind, fate, owner, count, pq, idx>>
<1>1. iopc[c] = "touch" /\ ioobj[c] \in Objs /\ iokind[c] = "TOUCH"
  BY DEF IoTouch, Base, HandsFull
<1>2. MsgOf(ioobj[c]) \in Msgs /\ IoHas(c, MsgOf(ioobj[c]))
  BY <1>1, ObjsFacts DEF IoHas
<1>3. inFlight[MsgOf(ioobj[c])] = NoObj
  BY <1>2 DEF OnePlace, Flat, InHand, InFlight
<1>4. iopc \in [Clients -> IoStates]
  BY DEF Base, TypeOK
<1>5. QED
  BY <1>1, <1>2, <1>3, <1>4 DEF IoTouch, cmdRest, readyVars

LEMMA TouchFlight ==
  ASSUME Base, OnePlace, ~Flushing, NEW c \in Clients, IoTouch(c), owner[ioobj[c]] = c
  PROVE  /\ \A e \in Clients \ {c} : InFlightTo(e)' = InFlightTo(e)
         /\ MsgOf(ioobj[c]) \in Msgs \ InFlightTo(c)
         /\ InFlightTo(c)' = InFlightTo(c) \cup {MsgOf(ioobj[c])}
<1> DEFINE o == ioobj[c]  m == MsgOf(o)
<1>1. /\ o \in Objs /\ m \in Msgs /\ inFlight[m] = NoObj
      /\ inFlight' = [inFlight EXCEPT ![m] = o] /\ owner' = owner
  BY TouchFacts
<1>2. inFlight \in [Msgs -> Objs \cup {NoObj}]
  BY DEF Base, TypeOK
<1>3. inFlight'[m] = o /\ o # NoObj /\ \A k \in Msgs \ {m} : inFlight'[k] = inFlight[k]
  BY <1>1, <1>2, SetsAssumption
<1>4. owner[o] = c
  OBVIOUS
<1> HIDE DEF o, m
<1>5. \A e \in Clients, k \in Msgs \ {m} : k \in InFlightTo(e)' <=> k \in InFlightTo(e)
  BY <1>1, <1>3 DEF InFlightTo
<1>6. \A e \in Clients : m \notin InFlightTo(e) /\ (m \in InFlightTo(e)' <=> e = c)
  BY <1>1, <1>3, <1>4 DEF InFlightTo
<1>7. \A e : InFlightTo(e) \subseteq Msgs /\ InFlightTo(e)' \subseteq Msgs
  BY DEF InFlightTo
<1>8. ASSUME NEW e \in Clients \ {c} PROVE InFlightTo(e)' = InFlightTo(e)
  <2>1. \A k \in Msgs : k \in InFlightTo(e)' <=> k \in InFlightTo(e)
    BY <1>5, <1>6, <1>8
  <2>2. QED
    BY <1>7, <2>1
<1>9. InFlightTo(c)' = InFlightTo(c) \cup {m}
  BY <1>1, <1>5, <1>6, <1>7
<1>10. QED
  BY <1>1, <1>6, <1>8, <1>9 DEF o, m

(* While the channel is open and its backend works, every other step of a  *)
(* command leaves the count and the lag alone, or settles both.            *)
LEMMA IoSteps ==
  ASSUME Base, OnePlace, BackendFails = FALSE, xpc = "open", NEW c \in Clients, Io(c), ~IoTouch(c),
         ~\E m \in Msgs, kind \in Commands \ {"CLS"} : IoPop(c, kind, m)
  PROVE  /\ inFlight' = inFlight
         /\ \/ count' = count /\ IoLag(c)' = IoLag(c)
            \/ count'[c] = count[c] - 1 /\ IoLag(c) = 1 /\ IoLag(c)' = 0
<1> USE DEF ioRest, cmdRest, readyVars, flightVars, clientVars, pumpOthers, ioVars, IoLag
<1>0. /\ iopc \in [Clients -> IoStates] /\ count \in [Clients -> Int]
      /\ iokind \in [Clients -> CommandNames \ {"CLS"}]
  BY DEF Base, TypeOK
<1>1. CASE Sub(c) \/ SubCheck(c)
  BY <1>0, <1>1 DEF Sub, SubCheck
<1>2. CASE Cls(c) \/ \E n \in 0..MaxRdyCount : Rdy(c, n)
  BY <1>0, <1>2 DEF Cls, Rdy, SetReadyCount
<1>3. CASE IoRemove(c)
  BY <1>0, <1>3 DEF IoRemove, AfterRemove, CommandNames
<1>4. CASE IoRequeue(c)
  BY <1>0, <1>4 DEF IoRequeue, IoDrop, PutFails, Exiting
<1>5. CASE IoDefer(c)
  <2>1. iopc[c] = "defer" /\ ioobj[c] \in Objs /\ iokind[c] = "DEFER"
    BY <1>5 DEF IoDefer, Base, HandsFull
  <2>2. MsgOf(ioobj[c]) \in Msgs /\ IoHas(c, MsgOf(ioobj[c]))
    BY <2>1, ObjsFacts DEF IoHas
  <2>3. deferred[MsgOf(ioobj[c])] = NoObj
    BY <2>2 DEF OnePlace, Flushing, Flat, InHand, InDeferred
  <2>4. QED
    BY <1>0, <1>5, <2>1, <2>3 DEF IoDefer
<1>6. CASE IoDeferPQ(c) \/ IoTouchPQ(c)
  BY <1>0, <1>6 DEF IoDeferPQ, IoTouchPQ, IoDrop
<1>7. CASE IoCount(c)
  BY <1>0, <1>7 DEF IoCount, IoDrop
<1>8. CASE IoNotify(c) \/ IoExit(c) \/ IoRemoveClient(c)
  BY <1>0, <1>8 DEF IoNotify, IoExit, IoRemoveClient
<1>9. QED
  BY <1>1, <1>2, <1>3, <1>4, <1>5, <1>6, <1>7, <1>8 DEF Io

LEMMA IoCounts ==
  ASSUME Base, OnePlace, TouchesOwn, BackendFails = FALSE, xpc = "open", NEW c \in Clients, Io(c),
         NEW e \in Clients, CountOf(e)
  PROVE  CountOf(e)'
<1>1. UNCHANGED <<owner, spc, sobj, ppc>> /\ Own(c) /\ ~Flushing
  BY IoFrame, IoClient DEF Flushing
<1>2. ScanLag(e)' = ScanLag(e) /\ PumpLag(e)' = PumpLag(e)
  BY <1>1 DEF ScanLag, PumpLag
<1>3. e # c => count'[e] = count[e] /\ IoLag(e)' = IoLag(e)
  BY <1>1 DEF IoLag, Own
<1>4. count' \in [Clients -> Int] /\ count \in [Clients -> Int] /\ iopc \in [Clients -> IoStates]
  <2>1. Base'
    BY IoType
  <2>2. QED
    BY <2>1 DEF Base, TypeOK
<1>5. ASSUME NEW m \in Msgs, NEW kind \in Commands \ {"CLS"}, IoPop(c, kind, m) PROVE CountOf(e)'
  <2>1. /\ e # c => InFlightTo(e)' = InFlightTo(e)
        /\ m \in InFlightTo(c) /\ InFlightTo(c)' = InFlightTo(c) \ {m}
    BY <1>5, PopFlight
  <2>2. count'[c] = count[c] /\ IoLag(c) = 0 /\ IoLag(c)' = 1
    BY <1>4, <1>5 DEF IoPop, readyVars, IoLag
  <2>3. CASE e = c
    <3>1. IoLag(c)' - IoLag(c) + (ScanLag(c)' - ScanLag(c)) - (PumpLag(c)' - PumpLag(c)) = 1
      BY <1>2, <2>2, <2>3, LagTypes
    <3>2. QED
      BY <1>4, <2>1, <2>2, <2>3, <3>1, CountMoves
  <2>4. QED
    BY <1>2, <1>3, <2>1, <2>3, CountKept
<1>6. CASE IoTouch(c)
  <2>1. iopc[c] = "touch" /\ iopc'[c] = "touchPQ" /\ count' = count
    BY <1>1, <1>6, TouchFacts
  <2>2. owner[ioobj[c]] = c
    BY <2>1 DEF TouchesOwn
  <2>3. /\ e # c => InFlightTo(e)' = InFlightTo(e)
        /\ MsgOf(ioobj[c]) \in Msgs \ InFlightTo(c)
        /\ InFlightTo(c)' = InFlightTo(c) \cup {MsgOf(ioobj[c])}
    BY <1>1, <1>6, <2>2, TouchFlight
  <2>4. IoLag(c) = 1 /\ IoLag(c)' = 0
    BY <2>1 DEF IoLag
  <2>5. CASE e = c
    <3>1. IoLag(c)' - IoLag(c) + (ScanLag(c)' - ScanLag(c)) - (PumpLag(c)' - PumpLag(c)) = -1
      BY <1>2, <2>4, <2>5, LagTypes
    <3>2. QED
      BY <1>4, <2>1, <2>3, <2>5, <3>1, CountMoves
  <2>6. QED
    BY <1>2, <1>3, <2>3, <2>5, CountKept
<1>7. CASE ~IoTouch(c) /\ ~\E m \in Msgs, kind \in Commands \ {"CLS"} : IoPop(c, kind, m)
  <2>1. /\ inFlight' = inFlight
        /\ \/ count' = count /\ IoLag(c)' = IoLag(c)
           \/ count'[c] = count[c] - 1 /\ IoLag(c) = 1 /\ IoLag(c)' = 0
    BY <1>7, IoSteps
  <2>2. InFlightTo(e)' = InFlightTo(e)
    BY <1>1, <2>1 DEF InFlightTo
  <2>3. CASE e = c /\ count'[c] = count[c] - 1 /\ IoLag(c) = 1 /\ IoLag(c)' = 0
    <3>1. count'[e] - count[e] = IoLag(e)' - IoLag(e) + (ScanLag(e)' - ScanLag(e)) - (PumpLag(e)' - PumpLag(e))
      BY <1>2, <1>4, <2>3, LagTypes
    <3>2. QED
      BY <1>4, <2>2, <3>1, CountMoves
  <2>4. QED
    BY <1>2, <1>3, <2>1, <2>2, <2>3, CountKept
<1>8. QED
  BY <1>5, <1>6, <1>7

(* The scan takes a timed out message from its client, then counts it.     *)
LEMMA ScanSteps ==
  ASSUME Scan, ~ScanPop, ~ScanTimedOut
  PROVE  inFlight' = inFlight /\ count' = count /\ spc # "timedout" /\ spc' # "timedout"
<1> USE DEF scanRest, readyVars, flightVars
<1>1. CASE ScanInFlight \/ ScanInFlightDone \/ ScanDeferred \/ ScanDeferredDone
  BY <1>1 DEF ScanInFlight, ScanInFlightDone, ScanDeferred, ScanDeferredDone
<1>2. CASE (\E o \in Objs : ScanShift(o) \/ ScanShiftDeferred(o)) \/ ScanPopDeferred
  BY <1>2 DEF ScanShift, ScanShiftDeferred, ScanPopDeferred
<1>3. CASE ScanNotify \/ ScanPut \/ ScanPutDeferred
  BY <1>3 DEF ScanNotify, ScanPut, ScanPutDeferred
<1>4. QED
  BY <1>1, <1>2, <1>3 DEF Scan

LEMMA ScanCounts ==
  ASSUME Base, Scan, NEW e \in clients, CountOf(e)
  PROVE  CountOf(e)' /\ count'[e] <= count[e]
<1>1. UNCHANGED <<owner, ppc, iopc>> /\ e \in Clients
  BY ScanFrame DEF Base, TypeOK
<1>2. IoLag(e)' = IoLag(e) /\ PumpLag(e)' = PumpLag(e)
  BY <1>1 DEF IoLag, PumpLag
<1>3. count' \in [Clients -> Int] /\ count \in [Clients -> Int]
  <2>1. Base'
    BY ScanType
  <2>2. QED
    BY <2>1 DEF Base, TypeOK
<1>4. CASE ScanPop
  <2>1. spc = "shifted" /\ sobj \in Objs /\ count' = count
    BY <1>4 DEF ScanPop, Base, HandsFull, scanRest, readyVars
  <2> DEFINE m == MsgOf(sobj)  found == inFlight[m] # NoObj /\ owner[inFlight[m]] = owner[sobj]
  <2>2. m \in Msgs /\ ScanLag(e) = 0
    BY <2>1, ObjsFacts DEF ScanLag
  <2>3. CASE found
    <3>1. inFlight' = [inFlight EXCEPT ![m] = NoObj] /\ spc' = "timedout" /\ sobj' = sobj
      BY <1>4, <2>3 DEF ScanPop
    <3>2. inFlight \in [Msgs -> Objs \cup {NoObj}]
      BY DEF Base, TypeOK
    <3>3. inFlight'[m] = NoObj /\ \A k \in Msgs \ {m} : inFlight'[k] = inFlight[k]
      BY <2>2, <3>1, <3>2
    <3>4. inFlight[m] # NoObj /\ owner[inFlight[m]] = owner[sobj]
      BY <2>3
    <3> HIDE DEF m
    <3>5. CASE e = owner[sobj]
      <4>1. m \in InFlightTo(e) /\ InFlightTo(e)' = InFlightTo(e) \ {m}
        BY <1>1, <2>2, <3>3, <3>4, <3>5 DEF InFlightTo
      <4>2. ScanLag(e)' = 1
        BY <1>1, <3>1, <3>5 DEF ScanLag
      <4>3. IoLag(e)' - IoLag(e) + (ScanLag(e)' - ScanLag(e)) - (PumpLag(e)' - PumpLag(e)) = 1
        BY <1>2, <2>2, <4>2, LagTypes
      <4>4. QED
        BY <1>1, <1>3, <2>1, <4>1, <4>3, CountMoves
    <3>6. CASE e # owner[sobj]
      <4>1. InFlightTo(e)' = InFlightTo(e)
        BY <1>1, <2>2, <3>3, <3>4, <3>6 DEF InFlightTo
      <4>2. ScanLag(e)' = 0
        BY <1>1, <3>1, <3>6 DEF ScanLag
      <4>3. QED
        BY <1>1, <1>2, <1>3, <2>1, <2>2, <4>1, <4>2, CountKept
    <3>7. QED
      BY <3>5, <3>6
  <2>4. CASE ~found
    <3>1. inFlight' = inFlight /\ spc' = "between"
      BY <1>4, <2>4 DEF ScanPop
    <3>2. InFlightTo(e)' = InFlightTo(e) /\ ScanLag(e)' = 0
      BY <1>1, <3>1 DEF InFlightTo, ScanLag
    <3>3. QED
      BY <1>1, <1>2, <1>3, <2>1, <2>2, <3>2, CountKept
  <2>5. QED
    BY <2>3, <2>4
<1>5. CASE ScanTimedOut
  <2>1. /\ spc = "timedout" /\ spc' # "timedout" /\ inFlight' = inFlight
        /\ count' = IF owner[sobj] \in clients THEN [count EXCEPT ![owner[sobj]] = @ - 1] ELSE count
    BY <1>5 DEF ScanTimedOut, flightVars
  <2>2. InFlightTo(e)' = InFlightTo(e) /\ ScanLag(e)' = 0
    BY <1>1, <2>1 DEF InFlightTo, ScanLag
  <2>3. CASE e = owner[sobj]
    <3>1. count'[e] = count[e] - 1 /\ ScanLag(e) = 1
      BY <1>1, <1>3, <2>1, <2>3 DEF ScanLag
    <3>2. count'[e] - count[e] = IoLag(e)' - IoLag(e) + (ScanLag(e)' - ScanLag(e)) - (PumpLag(e)' - PumpLag(e))
      BY <1>1, <1>2, <1>3, <2>2, <3>1, LagTypes
    <3>3. QED
      BY <1>1, <1>3, <2>2, <3>1, <3>2, CountMoves
  <2>4. CASE e # owner[sobj]
    <3>1. count'[e] = count[e] /\ ScanLag(e) = 0
      BY <1>1, <1>3, <2>1, <2>4 DEF ScanLag
    <3>2. QED
      BY <1>1, <1>2, <1>3, <2>2, <3>1, CountKept
  <2>5. QED
    BY <2>3, <2>4
<1>6. CASE ~ScanPop /\ ~ScanTimedOut
  <2>1. inFlight' = inFlight /\ count' = count /\ spc # "timedout" /\ spc' # "timedout"
    BY <1>6, ScanSteps
  <2>2. InFlightTo(e)' = InFlightTo(e) /\ ScanLag(e)' = ScanLag(e)
    BY <1>1, <2>1 DEF InFlightTo, ScanLag
  <2>3. QED
    BY <1>1, <1>2, <1>3, <2>1, <2>2, CountKept
<1>7. QED
  BY <1>4, <1>5, <1>6

(* What a handler can do to an open channel that nobody empties.           *)
LEMMA AdminOpen ==
  ASSUME Admin, Emptying = FALSE, xpc = "open", xpc' = "open", epc = "idle"
  PROVE  UNCHANGED <<memory, backend, inFlight, pq, idx, deferred, dpq, count, tpc, tobj, fate, epc>>
<1> USE DEF adminOthers, adminRest, topicOthers, adminVars, queueVars, flightVars, deferVars, readyVars, topicVars
<1>1. CASE (\E b \in BOOLEAN : SetPaused(b)) \/ PauseClients
  BY <1>1 DEF SetPaused, PauseClients
<1>2. CASE EmptyInFlight \/ EmptyDeferred \/ EmptyClients \/ EmptyMemory \/ EmptyBackend
  BY <1>2 DEF EmptyInFlight, EmptyDeferred, EmptyClients, EmptyMemory, EmptyBackend
<1>3. CASE (\E mode \in {"close", "delete"} : Exit(mode)) \/ ExitClients
  BY <1>3 DEF Exit, ExitClients
<1>4. CASE (\E o \in Objs : FlushMemory(o)) \/ FlushMemoryDone \/ FlushInFlight \/ FlushDeferred
  BY <1>4 DEF FlushMemory, FlushMemoryDone, FlushInFlight, FlushDeferred
<1>5. QED
  BY <1>1, <1>2, <1>3, <1>4 DEF Admin

(* Empty() lowers a count to zero and no handler raises one.               *)
LEMMA AdminCount ==
  ASSUME Base, Admin, NEW c \in Clients
  PROVE  count'[c] = count[c] \/ count'[c] = 0
<1> USE DEF adminOthers, adminRest, topicOthers, readyVars
<1>1. CASE (\E b \in BOOLEAN : SetPaused(b)) \/ PauseClients \/ EmptyInFlight \/ EmptyDeferred
  BY <1>1 DEF SetPaused, PauseClients, EmptyInFlight, EmptyDeferred
<1>2. CASE EmptyClients
  BY <1>2 DEF EmptyClients
<1>3. CASE EmptyMemory \/ EmptyBackend \/ (\E mode \in {"close", "delete"} : Exit(mode)) \/ ExitClients
  BY <1>3 DEF EmptyMemory, EmptyBackend, Exit, ExitClients
<1>4. CASE (\E o \in Objs : FlushMemory(o)) \/ FlushMemoryDone \/ FlushInFlight \/ FlushDeferred
  BY <1>4 DEF FlushMemory, FlushMemoryDone, FlushInFlight, FlushDeferred
<1>5. QED
  BY <1>1, <1>2, <1>3, <1>4 DEF Admin

LEMMA FreshStep ==
  ASSUME Base, ClientInv, FreshInv, [Next]_vars
  PROVE  FreshInv'
<1>1. CASE UNCHANGED vars
  BY <1>1 DEF FreshInv, vars, flightVars, clientVars, readyVars
<1>2. ASSUME NEW c \in Clients, Pump(c) PROVE FreshInv'
  <2>1. UNCHANGED cstate /\ (\A e \in Clients \ {c} : count'[e] = count[e]) /\ cstate[c] # "init"
    BY <1>2, PumpFrame, PumpOwn DEF ClientInv
  <2>2. owner' = owner \/ owner' = [owner EXCEPT ![pobj[c]] = c]
    BY <1>2, PumpFlight DEF PumpPush
  <2>3. owner \in [Objs -> Clients \cup {NoClient}]
    BY DEF Base, TypeOK
  <2>4. \A o \in Objs : owner'[o] = owner[o] \/ owner'[o] = c
    BY <2>2, <2>3
  <2>5. QED
    BY <2>1, <2>4 DEF FreshInv
<1>3. ASSUME NEW c \in Clients, Io(c) PROVE FreshInv'
  <2>1. UNCHANGED owner /\ Own(c) /\ (Joins(c) \/ Leaves(c) \/ Executes(c))
    BY <1>3, IoFrame, IoClient
  <2>2. cstate'[c] = "init" => cstate[c] = "init" /\ count' = count
    BY <2>1 DEF Joins, Leaves, Executes, ClientInv
  <2>3. QED
    BY <2>1, <2>2 DEF FreshInv, Own
<1>4. CASE Topic
  BY <1>4, TopicFrame DEF FreshInv
<1>5. CASE Scan
  <2>1. UNCHANGED <<owner, cstate>> /\ Base'
    BY <1>5, ScanFrame, ScanType
  <2>2. \A c \in Clients : count'[c] = count[c] \/ (spc' = "notify" /\ owner[sobj'] = c)
    BY <1>5, ScanTells
  <2>3. spc' = "notify" => sobj' \in Objs
    BY <2>1 DEF Base, HandsFull
  <2>4. QED
    BY <2>1, <2>2, <2>3 DEF FreshInv
<1>6. CASE Admin
  <2>1. UNCHANGED <<owner, cstate>> /\ \A c \in Clients : count'[c] = count[c] \/ count'[c] = 0
    BY <1>6, AdminFrame, AdminCount
  <2>2. QED
    BY <2>1 DEF FreshInv
<1>7. QED
  BY <1>1, <1>2, <1>3, <1>4, <1>5, <1>6 DEF Next

(* The owner of what a command holds to put back does not change.          *)
LEMMA TouchStep ==
  ASSUME Base, OnePlace, ~Flushing, TouchesOwn, [Next]_vars
  PROVE  TouchesOwn'
<1>1. CASE UNCHANGED <<iopc, iokind, ioobj, owner>>
  BY <1>1 DEF TouchesOwn
<1>2. ASSUME NEW d \in Clients, Pump(d) PROVE TouchesOwn'
  <2>1. UNCHANGED <<iopc, iokind, ioobj>>
    BY <1>2, PumpFrame
  <2>2. CASE ~PumpPush(d)
    BY <1>1, <1>2, <2>1, <2>2, PumpFlight
  <2>3. CASE PumpPush(d)
    <3>1. pobj[d] \in Objs /\ ppc[d] = "push" /\ owner' = [owner EXCEPT ![pobj[d]] = d]
      BY <2>3, PushFacts
    <3>2. owner \in [Objs -> Clients \cup {NoClient}]
      BY DEF Base, TypeOK
    <3>3. SUFFICES ASSUME NEW c \in Clients, iopc[c] = "touch" \/ (iopc[c] = "remove" /\ iokind[c] = "TOUCH")
                   PROVE  owner'[ioobj[c]] = c
      BY <2>1 DEF TouchesOwn
    <3>4. ioobj[c] \in Objs /\ iokind[c] # "FIN" /\ owner[ioobj[c]] = c
      BY <3>3 DEF Base, HandsFull, TouchesOwn
    <3>5. MsgOf(ioobj[c]) \in Msgs /\ IoHas(c, MsgOf(ioobj[c]))
      BY <3>3, <3>4, ObjsFacts DEF IoHas
    <3>6. ~PumpHas(d, MsgOf(ioobj[c]))
      BY <3>5 DEF OnePlace, Flat, OneHand
    <3>7. pobj[d] # ioobj[c]
      BY <3>1, <3>6 DEF PumpHas
    <3>8. QED
      BY <3>1, <3>2, <3>4, <3>7
  <2>4. QED
    BY <2>2, <2>3
<1>3. ASSUME NEW d \in Clients, Io(d) PROVE TouchesOwn'
  <2>1. UNCHANGED owner /\ Own(d)
    BY <1>3, IoFrame, IoClient
  <2>2. iopc'[d] = "touch" \/ (iopc'[d] = "remove" /\ iokind'[d] = "TOUCH") => owner[ioobj'[d]] = d
    <3> USE DEF ioRest, cmdRest, ioVars, pumpOthers
    <3>0. /\ iopc \in [Clients -> IoStates] /\ iokind \in [Clients -> CommandNames \ {"CLS"}]
          /\ ioobj \in [Clients -> Objs \cup {NoObj}]
      BY DEF Base, TypeOK
    <3>1. CASE Sub(d) \/ SubCheck(d) \/ Cls(d) \/ \E n \in 0..MaxRdyCount : Rdy(d, n)
      BY <3>0, <3>1 DEF Sub, SubCheck, Cls, Rdy, SetReadyCount
    <3>2. CASE \E m \in Msgs, kind \in Commands \ {"CLS"} : IoPop(d, kind, m)
      BY <3>0, <3>2 DEF IoPop
    <3>3. CASE IoRemove(d)
      <4>1. iopc[d] = "remove" /\ iopc'[d] = AfterRemove[iokind[d]] /\ ioobj' = ioobj
        BY <3>0, <3>3 DEF IoRemove
      <4>2. iopc'[d] # "remove" /\ (iopc'[d] = "touch" => iokind[d] = "TOUCH")
        BY <3>0, <4>1 DEF AfterRemove, CommandNames
      <4>3. QED
        BY <4>1, <4>2 DEF TouchesOwn
    <3>4. CASE IoRequeue(d) \/ IoDefer(d) \/ IoTouch(d)
      BY <3>0, <3>4 DEF IoRequeue, IoDefer, IoTouch, IoDrop
    <3>5. CASE IoDeferPQ(d) \/ IoTouchPQ(d) \/ IoCount(d) \/ IoNotify(d)
      BY <3>0, <3>5 DEF IoDeferPQ, IoTouchPQ, IoCount, IoNotify, IoDrop
    <3>6. CASE IoExit(d) \/ IoRemoveClient(d)
      <4>1. UNCHANGED <<iopc, iokind, ioobj>>
        BY <3>6 DEF IoExit, IoRemoveClient
      <4>2. QED
        BY <4>1 DEF TouchesOwn
    <3>7. QED
      BY <1>3, <3>1, <3>2, <3>3, <3>4, <3>5, <3>6 DEF Io
  <2>3. QED
    BY <2>1, <2>2 DEF TouchesOwn, Own
<1>4. QED
  <2>1. CASE Topic
    BY <1>1, <2>1, TopicFrame
  <2>2. CASE Scan
    BY <1>1, <2>2, ScanFrame
  <2>3. CASE Admin
    BY <1>1, <2>3, AdminFrame
  <2>4. CASE UNCHANGED vars
    BY <1>1, <2>4 DEF vars, flightVars, ioVars
  <2>5. QED
    BY <1>2, <1>3, <2>1, <2>2, <2>3, <2>4 DEF Next

(* A pump that has a message found the count below the ready count.        *)
LEMMA PumpBelow ==
  ASSUME Base, NEW c \in Clients, Pump(c), count[c] <= MaxRdyCount,
         ppc[c] \in {"ready", "push", "add", "count"} => count[c] < MaxRdyCount
  PROVE  /\ count'[c] <= MaxRdyCount
         /\ ppc'[c] \in {"ready", "push", "add", "count"} => count'[c] < MaxRdyCount
<1> USE DEF pumpRest, readyVars
<1>0. /\ ppc \in [Clients -> PumpStates] /\ count \in [Clients -> Int] /\ rdy[c] \in 0..MaxRdyCount
      /\ MaxRdyCount \in Nat
  BY BoundsAssumption DEF Base, TypeOK
<1>1. CASE PumpCheck(c)
  <2>1. count' = count /\ (ppc'[c] = "ready" => IsReadyForMessages(c)) /\ ppc'[c] \in {"ready", "idle", "exited"}
    BY <1>0, <1>1 DEF PumpCheck
  <2>2. QED
    BY <1>0, <2>1 DEF IsReadyForMessages
<1>2. CASE PumpSub(c) \/ PumpReadyState(c) \/ PumpTick(c)
  BY <1>0, <1>2 DEF PumpSub, PumpReadyState, PumpTick
<1>3. CASE (\E o \in Objs : PumpTakeMemory(c, o)) \/ (\E m \in Msgs : PumpTakeBackend(c, m))
  BY <1>0, <1>3 DEF PumpTakeMemory, PumpTakeBackend, Taken, Undecodable
<1>4. CASE PumpCount(c)
  BY <1>0, <1>4 DEF PumpCount
<1>5. CASE PumpPush(c) \/ PumpAdd(c) \/ PumpSend(c) \/ PumpExit(c)
  BY <1>0, <1>5 DEF PumpPush, PumpAdd, PumpSend, PumpExit
<1>6. QED
  BY <1>1, <1>2, <1>3, <1>4, <1>5 DEF Pump

(* A command never raises the count.                                       *)
LEMMA IoLowers ==
  ASSUME Base, NEW c \in Clients, Io(c)
  PROVE  count'[c] <= count[c]
<1> USE DEF ioRest, cmdRest, readyVars, clientVars, pumpOthers
<1>0. count \in [Clients -> Int]
  BY DEF Base, TypeOK
<1>1. CASE Sub(c) \/ SubCheck(c) \/ Cls(c) \/ \E n \in 0..MaxRdyCount : Rdy(c, n)
  BY <1>0, <1>1 DEF Sub, SubCheck, Cls, Rdy
<1>2. CASE \E m \in Msgs, kind \in Commands \ {"CLS"} : IoPop(c, kind, m)
  BY <1>0, <1>2 DEF IoPop
<1>3. CASE IoRemove(c) \/ IoRequeue(c) \/ IoDefer(c) \/ IoDeferPQ(c) \/ IoTouch(c) \/ IoTouchPQ(c)
  BY <1>0, <1>3 DEF IoRemove, IoRequeue, IoDefer, IoDeferPQ, IoTouch, IoTouchPQ
<1>4. CASE IoCount(c) \/ IoNotify(c) \/ IoExit(c) \/ IoRemoveClient(c)
  BY <1>0, <1>4 DEF IoCount, IoNotify, IoExit, IoRemoveClient
<1>5. QED
  BY <1>1, <1>2, <1>3, <1>4 DEF Io

(* A channel that is open has been open.                                   *)
LEMMA OpenBefore ==
  ASSUME [Next]_vars, ~Exiting'
  PROVE  xpc = "open" /\ xpc' = "open" /\ ~Exiting /\ ~Flushing
<1>1. xpc' = "open"
  BY DEF Exiting
<1>2. xpc = "open"
  <2>1. ASSUME NEW c \in Clients, Pump(c) \/ Io(c) PROVE xpc' = xpc
    BY <2>1, PumpFrame, IoFrame
  <2>2. CASE Topic
    BY <1>1, <2>2, TopicFrame
  <2>3. CASE Scan
    BY <1>1, <2>3, ScanFrame
  <2>4. CASE Admin
    BY <1>1, <2>4, AdminMoves DEF ExitMoves
  <2>5. CASE UNCHANGED vars
    BY <1>1, <2>5 DEF vars, adminVars
  <2>6. QED
    BY <1>1, <2>1, <2>2, <2>3, <2>4, <2>5 DEF Next
<1>3. QED
  BY <1>1, <1>2 DEF Exiting, Flushing

(* Who has just joined has nothing in flight and a count of zero.          *)
LEMMA JoinedCounts ==
  ASSUME Base, ClientInv, FreshInv, NEW c \in Clients, Io(c), c \notin clients, c \in clients'
  PROVE  CountOf(c)' /\ count'[c] = 0 /\ ppc'[c] = "nosub"
<1>1. UNCHANGED <<owner, spc, sobj, ppc>> /\ (Joins(c) \/ Leaves(c) \/ Executes(c)) /\ Base'
  BY IoFrame, IoClient, IoType
<1>2. cstate[c] = "init" /\ iopc'[c] = "subcheck" /\ count' = count
  BY <1>1 DEF Joins, Leaves, Executes
<1>3. count'[c] = 0 /\ (\A o \in Objs : owner'[o] # c) /\ ppc'[c] = "nosub"
  BY <1>1, <1>2 DEF FreshInv, ClientInv
<1>4. InFlightTo(c)' = {}
  BY <1>1, <1>3 DEF InFlightTo, Base, TypeOK
<1>5. IoLag(c)' = 0 /\ PumpLag(c)' = 0
  BY <1>2, <1>3 DEF IoLag, PumpLag
<1>6. ScanLag(c)' = 0
  <2>1. spc' = "timedout" => sobj' \in Objs
    BY <1>1 DEF Base, HandsFull
  <2>2. QED
    BY <1>3, <2>1 DEF ScanLag
<1>7. Cardinality({}) = 0
  BY FS_EmptySet
<1>8. CountOf(c)'
  BY <1>3, <1>4, <1>5, <1>6, <1>7 DEF CountOf
<1>9. QED
  BY <1>3, <1>8

LEMMA CountStep ==
  ASSUME Emptying = FALSE, BackendFails = FALSE,
         Base, OnePlace, ClientInv, FreshInv, CountInv, [Next]_vars
  PROVE  CountInv'
<1>1. SUFFICES ASSUME ~Exiting' PROVE (epc = "idle" /\ CountExact /\ TouchesOwn /\ CountBelow)'
  BY DEF CountInv
<1>2. xpc = "open" /\ xpc' = "open" /\ ~Exiting /\ ~Flushing
  BY <1>1, OpenBefore
<1>3. epc = "idle" /\ (\A c \in clients : CountOf(c)) /\ TouchesOwn /\ CountBelow
  BY <1>2, CountsOne DEF CountInv
<1>4. TouchesOwn'
  BY <1>2, <1>3, TouchStep
<1>5. clients \subseteq Clients /\ clients' \subseteq Clients /\ count \in [Clients -> Int] /\ MaxRdyCount \in Nat
  <2>1. Base'
    BY BaseStep
  <2>2. QED
    BY <2>1, BoundsAssumption DEF Base, TypeOK
<1>6. SUFFICES /\ epc' = "idle"
               /\ \A e \in clients' :
                    /\ CountOf(e)' /\ count'[e] <= MaxRdyCount
                    /\ ppc'[e] \in {"ready", "push", "add", "count"} => count'[e] < MaxRdyCount
  BY <1>4, CountsOneNext DEF CountBelow
<1>7. \A e \in clients : /\ count[e] <= MaxRdyCount
                         /\ ppc[e] \in {"ready", "push", "add", "count"} => count[e] < MaxRdyCount
  BY <1>3 DEF CountBelow
<1>8. ASSUME UNCHANGED <<epc, clients, count, inFlight, owner, iopc, spc, sobj, ppc>>,
             NEW e \in clients'
      PROVE  /\ epc' = "idle" /\ CountOf(e)' /\ count'[e] <= MaxRdyCount
             /\ ppc'[e] \in {"ready", "push", "add", "count"} => count'[e] < MaxRdyCount
  <2>1. e \in clients /\ e \in Clients /\ CountOf(e)
    BY <1>3, <1>5, <1>8
  <2>2. InFlightTo(e)' = InFlightTo(e) /\ IoLag(e)' = IoLag(e) /\ ScanLag(e)' = ScanLag(e) /\ PumpLag(e)' = PumpLag(e)
    BY <1>8 DEF InFlightTo, IoLag, ScanLag, PumpLag
  <2>3. QED
    BY <1>3, <1>7, <1>8, <2>1, <2>2, CountKept
<1>9. ASSUME NEW d \in Clients, Pump(d), NEW e \in clients'
      PROVE  /\ epc' = "idle" /\ CountOf(e)' /\ count'[e] <= MaxRdyCount
             /\ ppc'[e] \in {"ready", "push", "add", "count"} => count'[e] < MaxRdyCount
  <2>1. epc' = "idle" /\ e \in clients /\ e \in Clients
    BY <1>3, <1>5, <1>9, PumpFrame
  <2>2. CountOf(e)'
    BY <1>2, <1>3, <1>9, <2>1, PumpCounts
  <2>3. e # d => ppc'[e] = ppc[e] /\ count'[e] = count[e]
    BY <1>9, <2>1, PumpOwn
  <2>4. e = d => /\ count'[e] <= MaxRdyCount
                 /\ ppc'[e] \in {"ready", "push", "add", "count"} => count'[e] < MaxRdyCount
    BY <1>7, <1>9, <2>1, PumpBelow
  <2>5. QED
    BY <1>7, <2>1, <2>2, <2>3, <2>4
<1>10. ASSUME NEW d \in Clients, Io(d), NEW e \in clients'
       PROVE  /\ epc' = "idle" /\ CountOf(e)' /\ count'[e] <= MaxRdyCount
              /\ ppc'[e] \in {"ready", "push", "add", "count"} => count'[e] < MaxRdyCount
  <2>1. UNCHANGED <<epc, ppc>> /\ Own(d) /\ e \in Clients
    BY <1>5, <1>10, IoFrame, IoClient
  <2>2. CASE e \in clients
    <3>1. CountOf(e)'
      BY <1>2, <1>3, <1>10, <2>1, <2>2, IoCounts
    <3>2. count'[e] <= count[e]
      BY <1>5, <1>10, <2>1, IoLowers DEF Own
    <3>3. count'[e] \in Int
      BY <2>1, BaseStep DEF Base, TypeOK
    <3>4. QED
      BY <1>3, <1>5, <1>7, <2>1, <2>2, <3>1, <3>2, <3>3
  <2>3. CASE e \notin clients
    <3>1. e = d
      BY <1>10, <2>1, <2>3 DEF Own
    <3>2. CountOf(e)' /\ count'[e] = 0 /\ ppc'[e] = "nosub"
      BY <1>10, <2>3, <3>1, JoinedCounts
    <3>3. QED
      BY <1>3, <1>5, <2>1, <3>2
  <2>4. QED
    BY <2>2, <2>3
<1>11. ASSUME Scan, NEW e \in clients'
       PROVE  /\ epc' = "idle" /\ CountOf(e)' /\ count'[e] <= MaxRdyCount
              /\ ppc'[e] \in {"ready", "push", "add", "count"} => count'[e] < MaxRdyCount
  <2>1. UNCHANGED <<epc, ppc, clients>>
    BY <1>11, ScanFrame
  <2>2. e \in clients /\ e \in Clients
    BY <1>5, <1>11, <2>1
  <2>3. CountOf(e)' /\ count'[e] <= count[e]
    BY <1>3, <1>11, <2>2, ScanCounts
  <2>4. count'[e] \in Int
    BY <2>2, BaseStep DEF Base, TypeOK
  <2>5. QED
    BY <1>3, <1>5, <1>7, <2>1, <2>2, <2>3, <2>4
<1>12. CASE Topic
  BY <1>8, <1>12, TopicFrame, <1>3
<1>13. CASE Admin
  BY <1>2, <1>3, <1>8, <1>13, AdminOpen, AdminFrame
<1>14. CASE UNCHANGED vars
  BY <1>3, <1>8, <1>14 DEF vars, adminVars, clientVars, readyVars, flightVars, ioVars, scanVars, pumpVars
<1>15. epc' = "idle"
  <2>1. ASSUME NEW d \in Clients, Pump(d) \/ Io(d) PROVE epc' = "idle"
    BY <1>3, <2>1, PumpFrame, IoFrame
  <2>2. CASE Scan
    BY <1>3, <2>2, ScanFrame
  <2>3. CASE Topic
    BY <1>3, <2>3, TopicFrame
  <2>4. CASE Admin
    BY <1>2, <1>3, <2>4, AdminOpen
  <2>5. CASE UNCHANGED vars
    BY <1>3, <2>5 DEF vars, adminVars
  <2>6. QED
    BY <2>1, <2>2, <2>3, <2>4, <2>5 DEF Next
<1>16. QED
  BY <1>9, <1>10, <1>11, <1>12, <1>13, <1>14, <1>15 DEF Next
-----------------------------------------------------------------------------
(* The theorems.                                                           *)

LEMMA ClientsInit == Init => ClientInv /\ NoOrphanSubscriber /\ NoLostWakeup /\ FreshInv /\ CountInv
<1> SUFFICES ASSUME Init PROVE ClientInv /\ NoOrphanSubscriber /\ NoLostWakeup /\ FreshInv /\ CountInv
  OBVIOUS
<1>1. ClientInv /\ NoOrphanSubscriber /\ NoLostWakeup
  BY DEF Init, ClientInv, NoOrphanSubscriber, NoLostWakeup
<1>2. FreshInv
  BY SetsAssumption DEF Init, FreshInv
<1>3. CountExact /\ CountBelow /\ TouchesOwn /\ epc = "idle"
  BY DEF Init, CountExact, CountBelow, TouchesOwn
<1>4. QED
  BY <1>1, <1>2, <1>3 DEF CountInv

LEMMA PlacesKept == Spec => []OnePlace
<1>1. Init => OnePlace
  BY OnePlaceInit
<1>2. Base /\ OnePlace /\ [Next]_vars => OnePlace'
  BY OnePlaceStep
<1>3. QED
  BY <1>1, <1>2, NsqChannelBase, PTL DEF Spec

(* The two goroutines of a client agree on where it is: SUB is answered by *)
(* the IO loop before the pump serves it, a client that is subscribed is   *)
(* among the channel's clients, one that is leaving executes no command;   *)
(* and exit() waits for a scan that holds the exitMutex.                   *)
THEOREM ClientInvHolds == Spec => []ClientInv
<1>1. Init => ClientInv
  BY ClientsInit
<1>2. Base /\ ClientInv /\ [Next]_vars => ClientInv'
  BY ClientStep
<1>3. QED
  BY <1>1, <1>2, NsqChannelBase, PTL DEF Spec

(* Whatever the interleaving of SUB with exit(), a client that has got     *)
(* into an exiting ephemeral channel has its connection closed.            *)
THEOREM NoOrphanSubscriberHolds == Spec => []NoOrphanSubscriber
<1>1. Init => NoOrphanSubscriber
  BY ClientsInit
<1>2. Base /\ ClientInv /\ NoOrphanSubscriber /\ [Next]_vars => NoOrphanSubscriber'
  BY OrphanStep
<1>3. QED
  BY <1>1, <1>2, NsqChannelBase, ClientInvHolds, PTL DEF Spec

(* tryUpdateReadyState may drop its token: a pump sleeps although its      *)
(* client could take a message only while a token is waiting or coming,    *)
(* with timeouts, commands, RDY, pauses, Empty() and exit() all racing.    *)
THEOREM NoLostWakeupHolds == Spec => []NoLostWakeup
<1>1. Init => NoLostWakeup
  BY ClientsInit
<1>2. Base /\ OnePlace /\ ClientInv /\ NoLostWakeup /\ [Next]_vars => NoLostWakeup'
  BY WakeupStep
<1>3. QED
  BY <1>1, <1>2, NsqChannelBase, PlacesKept, ClientInvHolds, PTL DEF Spec

(* While a channel that is not emptied and whose backend works is open,    *)
(* the counters have not drifted.                                          *)
LEMMA CountInvHolds ==
  ASSUME Emptying = FALSE, BackendFails = FALSE
  PROVE  Spec => []CountInv
<1>1. Init => FreshInv /\ CountInv
  BY ClientsInit
<1>2. Base /\ ClientInv /\ FreshInv /\ [Next]_vars => FreshInv'
  BY FreshStep
<1>3. Base /\ OnePlace /\ ClientInv /\ FreshInv /\ CountInv /\ [Next]_vars => CountInv'
  BY CountStep
<1>4. QED
  BY <1>1, <1>2, <1>3, NsqChannelBase, PlacesKept, ClientInvHolds, PTL DEF Spec

(* InFlightCount is the number of messages in flight to the client, up to  *)
(* the steps under way, as long as the channel is open, nobody empties it  *)
(* and its backend works: Empty() sets the counters to zero while commands *)
(* are being executed, and a REQ whose put fails skips RequeuedMessage(),  *)
(* so without these hypotheses the code does not promise it.               *)
THEOREM CountExactHolds ==
  ASSUME Emptying = FALSE, BackendFails = FALSE
  PROVE  Spec => [](~Exiting => CountExact)
<1>1. CountInv => (~Exiting => CountExact)
  BY DEF CountInv
<1>2. QED
  BY <1>1, CountInvHolds, PTL

(* Under the same hypotheses no client has more messages in flight than    *)
(* the largest ready count: the count lags behind the map by a delivery,   *)
(* but the pump decides before it takes one and takes one at a time.       *)
THEOREM RdyRespectedHolds ==
  ASSUME Emptying = FALSE, BackendFails = FALSE
  PROVE  Spec => [](~Exiting => RdyRespected)
<1>1. ASSUME Base, CountInv, ~Exiting, NEW c \in clients
      PROVE  Cardinality(InFlightTo(c)) <= MaxRdyCount
  <2>1. CountOf(c) /\ CountBelow
    BY <1>1, CountsOne DEF CountInv
  <2>2. /\ count[c] <= MaxRdyCount
        /\ ppc[c] \in {"add", "count"} => count[c] < MaxRdyCount
    BY <2>1 DEF CountBelow
  <2>3. count[c] \in Int /\ Cardinality(InFlightTo(c)) \in Int /\ MaxRdyCount \in Int
    BY <1>1, FlightSize, BoundsAssumption DEF Base, TypeOK
  <2>4. IoLag(c) \in {0, 1} /\ ScanLag(c) \in {0, 1}
    BY LagTypes
  <2>5. PumpLag(c) = 0 \/ (PumpLag(c) = 1 /\ count[c] < MaxRdyCount)
    BY <2>2 DEF PumpLag
  <2>6. count[c] = Cardinality(InFlightTo(c)) + (IoLag(c) + ScanLag(c) - PumpLag(c))
    BY <2>1 DEF CountOf
  <2>7. \A n, k, x \in Int, a, b \in {0, 1}, p \in {0, 1} :
          n = k + (a + b - p) /\ n <= x /\ (p = 0 \/ n < x) => k <= x
    OBVIOUS
  <2>8. QED
    BY <2>2, <2>3, <2>4, <2>5, <2>6, <2>7
<1>2. Base /\ CountInv => (~Exiting => RdyRespected)
  BY <1>1 DEF RdyRespected
<1>3. QED
  BY <1>2, NsqChannelBase, CountInvHolds, PTL
=============================================================================
