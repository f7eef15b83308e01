-------------------------- MODULE NsqChannelProofs --------------------------
(***************************************************************************)
(* What NsqChannel guarantees for every number of messages and clients,    *)
(* every queue size and every choice of the behaviours that are modelled.  *)
(***************************************************************************)
EXTENDS NsqChannel, TLAPS

(* A goroutine that is about to use its message has one, and the maps file *)
(* an object under its own message ID.                                     *)
HandsFull ==
  /\ \A c \in Clients :
       /\ ppc[c] \in {"push", "add", "count", "send"} => pobj[c] \in Objs
       /\ iopc[c] \in {"remove", "put", "defer", "deferPQ", "touch", "touchPQ"}
            => ioobj[c] \in Objs
       /\ iopc[c] = "put" => iokind[c] = "REQ"
       /\ iopc[c] = "defer" => iokind[c] = "DEFER"
       /\ iopc[c] = "touch" => iokind[c] = "TOUCH"
  /\ spc \in {"shifted", "timedout", "notify", "put", "dshifted", "dput"}
       => sobj \in Objs
  /\ tpc = "deferPQ" => tobj \in Objs
  /\ \A m \in Msgs : /\ inFlight[m] # NoObj => MsgOf(inFlight[m]) = m
                     /\ deferred[m] # NoObj => MsgOf(deferred[m]) = m

(* An object whose index points into the queue is in the queue.            *)
IndexedIsQueued == \A o \in Objs : idx[o] = "at" => pq[o] > 0

-----------------------------------------------------------------------------
(* A message object is a pair: its message and the number of its copy.     *)
LEMMA ObjsFacts ==
  /\ \A o \in Objs : MsgOf(o) \in Msgs
  /\ \A m \in Msgs, g \in 0..MaxDecodes : <<m, g>> \in Objs /\ MsgOf(<<m, g>>) = m
  /\ \A m \in Msgs : <<m, 0>> \in Objs
BY BoundsAssumption DEF Objs, MsgOf

(* Adding an element to one of a family of sets.                           *)
LEMMA AddToSet ==
  ASSUME NEW D, NEW S, NEW f \in [D -> SUBSET S], NEW d \in D, NEW x \in S
  PROVE  [f EXCEPT ![d] = @ \cup {x}] \in [D -> SUBSET S]
OBVIOUS

(* SetPQ keeps the types, and an entry that is indexed is queued.          *)
LEMMA SetPQFacts ==
  ASSUME NEW q \in [Objs -> Nat], NEW i \in [Objs -> IndexStates], SetPQ(q, i),
         \A o \in Objs : i[o] = "at" => q[o] > 0
  PROVE  pq' \in [Objs -> Nat] /\ idx' \in [Objs -> IndexStates] /\ IndexedIsQueued'
BY DEF SetPQ, IndexStates, IndexedIsQueued

(* addToInFlightPQ keeps the types and what the indices say.               *)
LEMMA AddFacts ==
  ASSUME TypeOK, IndexedIsQueued, NEW o \in Objs, AddToInFlightPQ(o)
  PROVE  pq' \in [Objs -> Nat] /\ idx' \in [Objs -> IndexStates] /\ IndexedIsQueued'
<1> DEFINE q == [pq EXCEPT ![o] = @ + 1]
           i == [idx EXCEPT ![o] = "at"]
<1>1. q \in [Objs -> Nat] /\ i \in [Objs -> IndexStates]
  BY DEF TypeOK, IndexStates
<1>2. \A u \in Objs : i[u] = "at" => q[u] > 0
  BY DEF TypeOK, IndexedIsQueued
<1>3. SetPQ(q, i)
  BY DEF AddToInFlightPQ
<1> HIDE DEF q, i
<1>4. QED
  BY <1>1, <1>2, <1>3, SetPQFacts

(* Taking one entry of v out of the queue.                                 *)
LEMMA TakeOutFacts ==
  ASSUME TypeOK, IndexedIsQueued, NEW v \in Objs, pq[v] > 0,
         SetPQ([pq EXCEPT ![v] = @ - 1], [idx EXCEPT ![v] = "none"])
  PROVE  pq' \in [Objs -> Nat] /\ idx' \in [Objs -> IndexStates] /\ IndexedIsQueued'
<1> DEFINE q == [pq EXCEPT ![v] = @ - 1]
           i == [idx EXCEPT ![v] = "none"]
<1>1. q \in [Objs -> Nat] /\ i \in [Objs -> IndexStates]
  BY DEF TypeOK, IndexStates
<1>2. \A u \in Objs : i[u] = "at" => q[u] > 0
  BY DEF TypeOK, IndexedIsQueued
<1>3. SetPQ(q, i)
  OBVIOUS
<1> HIDE DEF q, i
<1>4. QED
  BY <1>1, <1>2, <1>3, SetPQFacts

(* So does removeFromInFlightPQ, whatever index it trusts: it only ever    *)
(* removes an entry that is there.                                         *)
LEMMA RemoveFacts ==
  ASSUME TypeOK, IndexedIsQueued, NEW o \in Objs, RemoveFromInFlightPQ(o)
  PROVE  pq' \in [Objs -> Nat] /\ idx' \in [Objs -> IndexStates] /\ IndexedIsQueued'
<1>1. CASE idx[o] = "none" /\ UNCHANGED <<pq, idx>>
  BY <1>1 DEF TypeOK, IndexedIsQueued
<1>2. CASE idx[o] = "at" /\ SetPQ([pq EXCEPT ![o] = @ - 1], [idx EXCEPT ![o] = "none"])
  BY <1>2, TakeOutFacts DEF IndexedIsQueued
<1>3. ASSUME NEW v \in Objs, pq[v] > 0,
             SetPQ([pq EXCEPT ![v] = @ - 1], [idx EXCEPT ![v] = "none"])
      PROVE  pq' \in [Objs -> Nat] /\ idx' \in [Objs -> IndexStates] /\ IndexedIsQueued'
  BY <1>3, TakeOutFacts
<1>4. QED
  BY <1>1, <1>2, <1>3 DEF RemoveFromInFlightPQ

(* put() has three outcomes: memory, backend, or nowhere.                  *)
ToMemory(o) ==
  /\ memory' = [memory EXCEPT ![o] = @ + 1] /\ backend' = backend
  /\ fate' = [fate EXCEPT ![MsgOf(o)] = "live"]
ToBackend(o) ==
  /\ memory' = memory /\ backend' = [backend EXCEPT ![MsgOf(o)] = @ + 1]
  /\ fate' = [fate EXCEPT ![MsgOf(o)] = "live"]
ToNowhere(o) ==
  /\ memory' = memory /\ backend' = backend
  /\ fate' = [fate EXCEPT ![MsgOf(o)] = "dropped"]

(* Every outcome of put() is one of the three.                             *)
LEMMA PutCases ==
  ASSUME NEW o, PutOk(o) \/ PutFails(o)
  PROVE  ToMemory(o) \/ ToBackend(o) \/ ToNowhere(o)
BY Zenon DEF PutOk, PutFails, ToMemory, ToBackend, ToNowhere

(* put() keeps the types of the queues.                                    *)
LEMMA PutFacts ==
  ASSUME TypeOK, NEW o \in Objs, PutOk(o) \/ PutFails(o)
  PROVE  memory' \in [Objs -> Nat] /\ backend' \in [Msgs -> Nat] /\ fate' \in [Msgs -> Fates]
<1>1. MsgOf(o) \in Msgs
  BY ObjsFacts
<1>2. memory \in [Objs -> Nat] /\ backend \in [Msgs -> Nat] /\ fate \in [Msgs -> Fates]
  BY DEF TypeOK
<1>3. QED
  BY <1>1, <1>2, PutCases DEF ToMemory, ToBackend, ToNowhere, Fates

-----------------------------------------------------------------------------
Base == TypeOK /\ HandsFull /\ IndexedIsQueued

(* The topic's pump keeps the types.                                      *)
LEMMA TopicType == ASSUME Base, Topic PROVE Base'
<1>0. ASSUME NEW o \in Objs, PutOk(o) \/ PutFails(o)
      PROVE  memory' \in [Objs -> Nat] /\ backend' \in [Msgs -> Nat] /\ fate' \in [Msgs -> Fates]
  BY <1>0, PutFacts DEF Base
<1> USE ObjsFacts, BoundsAssumption, CommandsAssumption, SetsAssumption
    DEF Base, TypeOK, HandsFull, IndexedIsQueued,
      vars, queueVars, flightVars, deferVars, clientVars, readyVars, topicVars,
      pumpVars, ioVars, scanVars, adminVars, pumpOthers, ioOthers, scanOthers,
      adminOthers, topicOthers, pumpRest, ioRest, cmdRest, scanRest, adminRest,
      ClientStates, PumpStates, IoStates, ScanStates, EmptyStates, ExitStates,
      IndexStates, Fates, CommandNames
<1>1. ASSUME NEW m \in Msgs, PutMessage(m) PROVE Base'
  <2>0. <<m, 0>> \in Objs
    BY BoundsAssumption DEF Objs
  <2>1. memory' \in [Objs -> Nat] /\ backend' \in [Msgs -> Nat] /\ fate' \in [Msgs -> Fates]
    <3>1. CASE PutOk(<<m, 0>>) \/ PutFails(<<m, 0>>)
      BY <3>1, <2>0, <1>0
    <3>2. CASE fate' = [fate EXCEPT ![m] = "refused"] /\ UNCHANGED <<memory, backend>>
      BY <3>2
    <3>3. QED
      BY <1>1, <3>1, <3>2 DEF PutMessage
  <2>2. UNCHANGED <<decodes, deferVars, topicVars, topicOthers>>
    BY <1>1 DEF PutMessage
  <2>3. QED
    BY <2>1, <2>2
<1>2. ASSUME NEW m \in Msgs, PutMessageDeferred(m) PROVE Base'
  BY <1>2 DEF PutMessageDeferred
<1>3. CASE TopicAddToDeferredPQ
  BY <1>3 DEF TopicAddToDeferredPQ
<1> HIDE DEF Base
<1>4. QED
  BY <1>1, <1>2, <1>3 DEF Topic

(* A client's pump keeps the types.                                       *)
LEMMA PumpType == ASSUME NEW c \in Clients, Base, Pump(c) PROVE Base'
<1>0. \A o \in Objs : [known EXCEPT ![c] = @ \cup {MsgOf(o)}] \in [Clients -> SUBSET Msgs]
  BY AddToSet, ObjsFacts DEF Base, TypeOK
<1> USE ObjsFacts, BoundsAssumption, CommandsAssumption, SetsAssumption
    DEF Base, TypeOK, HandsFull, IndexedIsQueued,
      vars, queueVars, flightVars, deferVars, clientVars, readyVars, topicVars,
      pumpVars, ioVars, scanVars, adminVars, pumpOthers, ioOthers, scanOthers,
      adminOthers, topicOthers, pumpRest, ioRest, cmdRest, scanRest, adminRest,
      ClientStates, PumpStates, IoStates, ScanStates, EmptyStates, ExitStates,
      IndexStates, Fates, CommandNames
<1>1. CASE PumpSub(c)
  BY <1>1 DEF PumpSub
<1>2. CASE PumpCheck(c)
  <2>1. \E pc \in {"ready", "idle", "exited"} : ppc' = [ppc EXCEPT ![c] = pc]
    BY <1>2, Zenon DEF PumpCheck
  <2>2. UNCHANGED <<pobj, readyVars, pumpRest>>
    BY <1>2 DEF PumpCheck
  <2>3. QED
    BY <2>1, <2>2
<1>3. CASE PumpReadyState(c)
  BY <1>3 DEF PumpReadyState
<1>4. CASE PumpTick(c)
  BY <1>4 DEF PumpTick
<1>5. ASSUME NEW o \in Objs, PumpTakeMemory(c, o) PROVE Base'
  <2>1. \/ /\ ppc' = [ppc EXCEPT ![c] = "push"] /\ pobj' = [pobj EXCEPT ![c] = o]
           /\ fate' = fate
        \/ /\ ppc' = [ppc EXCEPT ![c] = "check"] /\ pobj' = pobj
           /\ fate' = [fate EXCEPT ![MsgOf(o)] = "sampled"]
    BY <1>5, Zenon DEF PumpTakeMemory, Taken
  <2>2. memory' \in [Objs -> Nat]
    BY <1>5 DEF PumpTakeMemory
  <2>3. UNCHANGED <<backend, decodes, flightVars, clientVars, readyVars, pumpOthers>>
    BY <1>5 DEF PumpTakeMemory
  <2>4. CASE /\ ppc' = [ppc EXCEPT ![c] = "push"] /\ pobj' = [pobj EXCEPT ![c] = o]
           /\ fate' = fate
    BY <2>4, <2>2, <2>3
  <2>5. CASE /\ ppc' = [ppc EXCEPT ![c] = "check"] /\ pobj' = pobj
           /\ fate' = [fate EXCEPT ![MsgOf(o)] = "sampled"]
    BY <2>5, <2>2, <2>3
  <2>6. QED
    BY <2>1, <2>4, <2>5
<1>6. ASSUME NEW m \in Msgs, PumpTakeBackend(c, m) PROVE Base'
  <2>1. decodes[m] + 1 \in 0..MaxDecodes
    BY <1>6 DEF PumpTakeBackend
  <2>2. <<m, decodes[m] + 1>> \in Objs /\ MsgOf(<<m, decodes[m] + 1>>) = m
    BY <2>1
  <2>3. \/ /\ ppc' = [ppc EXCEPT ![c] = "push"]
           /\ pobj' = [pobj EXCEPT ![c] = <<m, decodes[m] + 1>>]
           /\ fate' = fate
        \/ /\ ppc' = [ppc EXCEPT ![c] = "check"] /\ pobj' = pobj
           /\ \E f \in {"sampled", "dropped"} : fate' = [fate EXCEPT ![m] = f]
    BY <1>6, <2>2, Zenon DEF PumpTakeBackend, Taken, Undecodable
  <2>4. backend' \in [Msgs -> Nat] /\ decodes' \in [Msgs -> 0..MaxDecodes]
    BY <1>6 DEF PumpTakeBackend
  <2>5. UNCHANGED <<memory, flightVars, clientVars, readyVars, pumpOthers>>
    BY <1>6 DEF PumpTakeBackend
  <2>6. CASE /\ ppc' = [ppc EXCEPT ![c] = "push"]
           /\ pobj' = [pobj EXCEPT ![c] = <<m, decodes[m] + 1>>]
           /\ fate' = fate
    <3>1. /\ ppc' \in [Clients -> PumpStates] /\ fate' \in [Msgs -> Fates]
          /\ pobj' \in [Clients -> Objs \cup {NoObj}]
      BY <2>6, <2>2
    <3>2. TypeOK'
      BY <3>1, <2>2, <2>4, <2>5
    <3>3. HandsFull'
      BY <2>6, <2>2, <2>4, <2>5
    <3>4. IndexedIsQueued'
      BY <2>6, <2>2, <2>4, <2>5
    <3>5. QED
      BY <3>2, <3>3, <3>4
  <2>7. CASE /\ ppc' = [ppc EXCEPT ![c] = "check"] /\ pobj' = pobj
           /\ \E f \in {"sampled", "dropped"} : fate' = [fate EXCEPT ![m] = f]
    <3>1. fate' \in [Msgs -> Fates]
      <4>1. PICK f \in {"sampled", "dropped"} : fate' = [fate EXCEPT ![m] = f]
        BY <2>7
      <4>2. QED
        BY <4>1
    <3>2. ppc' \in [Clients -> PumpStates] /\ pobj' = pobj /\ ppc' = [ppc EXCEPT ![c] = "check"]
      BY <2>7
    <3>3. TypeOK'
      BY <3>1, <3>2, <2>2, <2>4, <2>5
    <3>4. HandsFull'
      BY <3>2, <2>2, <2>4, <2>5
    <3>5. IndexedIsQueued'
      BY <3>2, <2>2, <2>4, <2>5
    <3>6. QED
      BY <3>3, <3>4, <3>5
  <2>8. QED
    BY <2>3, <2>6, <2>7
<1>7. CASE PumpPush(c)
  <2>1. pobj[c] \in Objs /\ MsgOf(pobj[c]) \in Msgs
    BY <1>7 DEF PumpPush
  <2>2. owner' \in [Objs -> Clients \cup {NoClient}]
    BY <1>7, <2>1 DEF PumpPush
  <2>3. \/ /\ ppc' = [ppc EXCEPT ![c] = "add"]
           /\ inFlight' = [inFlight EXCEPT ![MsgOf(pobj[c])] = pobj[c]]
        \/ ppc' = [ppc EXCEPT ![c] = "count"] /\ inFlight' = inFlight
    BY <1>7, Zenon DEF PumpPush
  <2>4. ppc[c] = "push" /\ UNCHANGED <<pq, idx, pobj, queueVars, clientVars, readyVars, fate, pumpOthers>>
    BY <1>7 DEF PumpPush
  <2>5. CASE /\ ppc' = [ppc EXCEPT ![c] = "add"]
           /\ inFlight' = [inFlight EXCEPT ![MsgOf(pobj[c])] = pobj[c]]
    BY <2>5, <2>1, <2>2, <2>4
  <2>6. CASE ppc' = [ppc EXCEPT ![c] = "count"] /\ inFlight' = inFlight
    BY <2>6, <2>1, <2>2, <2>4
  <2>7. QED
    BY <2>3, <2>5, <2>6
<1>8. CASE PumpAdd(c)
  <2>1. pobj[c] \in Objs
    BY <1>8 DEF PumpAdd
  <2>2. pq' \in [Objs -> Nat] /\ idx' \in [Objs -> IndexStates] /\ IndexedIsQueued'
    BY <1>8, <2>1, AddFacts DEF PumpAdd
  <2>3. ppc' = [ppc EXCEPT ![c] = "count"] /\ ppc[c] = "add"
    BY <1>8 DEF PumpAdd
  <2>4. UNCHANGED <<inFlight, owner, pobj, queueVars, clientVars, readyVars, fate, pumpOthers>>
    BY <1>8 DEF PumpAdd
  <2>5. QED
    BY <2>1, <2>2, <2>3, <2>4
<1>9. CASE PumpCount(c)
  BY <1>9 DEF PumpCount
<1>10. CASE PumpSend(c)
  <2>1. pobj[c] \in Objs /\ MsgOf(pobj[c]) \in Msgs
    BY <1>10 DEF PumpSend
  <2>2. \E pc \in {"check", "exited"} : ppc' = [ppc EXCEPT ![c] = pc]
    BY <1>10, Zenon DEF PumpSend
  <2>3. known' = known \/ known' = [known EXCEPT ![c] = @ \cup {MsgOf(pobj[c])}]
    BY <1>10, Zenon DEF PumpSend
  <2>4. known \in [Clients -> SUBSET Msgs]
    OBVIOUS
  <2>5. [known EXCEPT ![c] = @ \cup {MsgOf(pobj[c])}] \in [Clients -> SUBSET Msgs]
    BY <2>1, <1>0, Zenon
  <2>6. known' \in [Clients -> SUBSET Msgs]
    BY <2>3, <2>4, <2>5, Zenon
  <2>7. pobj' = [pobj EXCEPT ![c] = NoObj]
    BY <1>10 DEF PumpSend
  <2>8. UNCHANGED <<clients, deleter, cstate, rdy, queueVars, flightVars, readyVars, fate, pumpOthers>>
    BY <1>10 DEF PumpSend
  <2>9. QED
    BY <2>1, <2>2, <2>3, <2>4, <2>5, <2>6, <2>7, <2>8
<1>11. CASE PumpExit(c)
  BY <1>11 DEF PumpExit
<1> HIDE DEF Base
<1>12. QED
  BY <1>1, <1>2, <1>3, <1>4, <1>5, <1>6, <1>7, <1>8, <1>9, <1>10, <1>11 DEF Pump

(* AddClient adds c and nobody else; SUB sets its own client's state.      *)
LEMMA SubFacts ==
  ASSUME NEW c \in Clients, clients \subseteq Clients,
         cstate \in [Clients -> ClientStates], Sub(c)
  PROVE  clients' \subseteq Clients /\ cstate' \in [Clients -> ClientStates]
<1>1. clients' = clients \cup {c} \/ clients' = clients
  BY Zenon DEF Sub
<1>2. cstate' = cstate \/ cstate' = [cstate EXCEPT ![c] = "exiting"]
  BY Zenon DEF Sub
<1>3. QED
  BY <1>1, <1>2 DEF ClientStates

(* The second look of SUB keeps c or takes it out again.                   *)
LEMMA SubCheckFacts ==
  ASSUME NEW c \in Clients, clients \subseteq Clients, deleter \in BOOLEAN,
         cstate \in [Clients -> ClientStates], SubCheck(c)
  PROVE  clients' \subseteq Clients /\ deleter' \in BOOLEAN /\ cstate' \in [Clients -> ClientStates]
<1>1. clients' = clients \/ clients' = clients \ {c}
  BY Zenon DEF SubCheck
<1>2. deleter' = deleter \/ deleter' = (deleter \/ clients' = {})
  BY Zenon DEF SubCheck
<1>3. cstate' = [cstate EXCEPT ![c] = "subscribed"] \/ cstate' = [cstate EXCEPT ![c] = "gone"]
  BY Zenon DEF SubCheck
<1>4. deleter' \in BOOLEAN
  BY <1>2, Zenon
<1>5. QED
  BY <1>1, <1>3, <1>4 DEF ClientStates

(* A client's IO loop keeps the types.                                    *)
LEMMA IoType == ASSUME NEW c \in Clients, Base, Io(c) PROVE Base'
<1>0. ASSUME NEW o \in Objs, PutOk(o) \/ PutFails(o)
      PROVE  memory' \in [Objs -> Nat] /\ backend' \in [Msgs -> Nat] /\ fate' \in [Msgs -> Fates]
  BY <1>0, PutFacts DEF Base
<1> USE ObjsFacts, BoundsAssumption, CommandsAssumption, SetsAssumption
    DEF Base, TypeOK, HandsFull, IndexedIsQueued,
      vars, queueVars, flightVars, deferVars, clientVars, readyVars, topicVars,
      pumpVars, ioVars, scanVars, adminVars, pumpOthers, ioOthers, scanOthers,
      adminOthers, topicOthers, pumpRest, ioRest, cmdRest, scanRest, adminRest,
      ClientStates, PumpStates, IoStates, ScanStates, EmptyStates, ExitStates,
      IndexStates, Fates, CommandNames
<1>1. CASE Sub(c)
  <2>1. \/ iopc' = iopc
        \/ iopc' = [iopc EXCEPT ![c] = "subcheck"]
    BY <1>1, Zenon DEF Sub
  <2>2. clients' \subseteq Clients /\ cstate' \in [Clients -> ClientStates]
    BY <1>1, SubFacts
  <2>3. UNCHANGED <<deleter, rdy, known, iokind, ioobj, readyVars, ioRest>>
    BY <1>1 DEF Sub
  <2>4. CASE iopc' = iopc
    <3>1. iopc' \in [Clients -> IoStates]
      BY <2>4, <2>2
    <3>2. TypeOK'
      BY <3>1, <2>2, <2>3
    <3>3. HandsFull'
      BY <2>4, <2>2, <2>3
    <3>4. IndexedIsQueued'
      BY <2>4, <2>2, <2>3
    <3>5. QED
      BY <3>2, <3>3, <3>4
  <2>5. CASE iopc' = [iopc EXCEPT ![c] = "subcheck"]
    <3>1. iopc' \in [Clients -> IoStates]
      BY <2>5, <2>2
    <3>2. TypeOK'
      BY <3>1, <2>2, <2>3
    <3>3. HandsFull'
      BY <2>5, <2>2, <2>3
    <3>4. IndexedIsQueued'
      BY <2>5, <2>2, <2>3
    <3>5. QED
      BY <3>2, <3>3, <3>4
  <2>6. QED
    BY <2>1, <2>4, <2>5
<1>2. CASE SubCheck(c)
  <2>1. iopc' = [iopc EXCEPT ![c] = "idle"]
    BY <1>2, Zenon DEF SubCheck
  <2>2. clients' \subseteq Clients /\ deleter' \in BOOLEAN /\ cstate' \in [Clients -> ClientStates]
    BY <1>2, SubCheckFacts
  <2>3. UNCHANGED <<rdy, known, iokind, ioobj, readyVars, ioRest>>
    BY <1>2, Zenon DEF SubCheck
  <2>4. TypeOK'
    <3>1. iopc' \in [Clients -> IoStates]
      BY <2>1
    <3>2. QED
      BY <3>1, <2>2, <2>3
  <2>5. HandsFull'
    BY <2>1, <2>3
  <2>6. IndexedIsQueued'
    BY <2>3
  <2>7. QED
    BY <2>4, <2>5, <2>6
<1>3. ASSUME NEW n \in 0..MaxRdyCount, Rdy(c, n) PROVE Base'
  BY <1>3 DEF Rdy, SetReadyCount
<1>4. CASE Cls(c)
  BY <1>4 DEF Cls, SetReadyCount
<1>5. ASSUME NEW kind \in Commands \ {"CLS"}, NEW m \in Msgs, IoPop(c, kind, m) PROVE Base'
  BY <1>5 DEF IoPop
<1>6. CASE IoRemove(c)
  <2>1. ioobj[c] \in Objs /\ iopc[c] = "remove"
    BY <1>6 DEF IoRemove
  <2>2. pq' \in [Objs -> Nat] /\ idx' \in [Objs -> IndexStates] /\ IndexedIsQueued'
    BY <1>6, <2>1, RemoveFacts DEF IoRemove
  <2>3. /\ AfterRemove["FIN"] = "count" /\ AfterRemove["REQ"] = "put"
        /\ AfterRemove["DEFER"] = "defer" /\ AfterRemove["TOUCH"] = "touch"
    BY DEF AfterRemove
  <2>4. iopc' = [iopc EXCEPT ![c] = AfterRemove[iokind[c]]]
    BY <1>6 DEF IoRemove
  <2>5. iokind[c] \in {"FIN", "REQ", "DEFER", "TOUCH"}
    BY <1>6
  <2>6. /\ iokind[c] = "FIN" => iopc' = [iopc EXCEPT ![c] = "count"]
        /\ iokind[c] = "REQ" => iopc' = [iopc EXCEPT ![c] = "put"]
        /\ iokind[c] = "DEFER" => iopc' = [iopc EXCEPT ![c] = "defer"]
        /\ iokind[c] = "TOUCH" => iopc' = [iopc EXCEPT ![c] = "touch"]
    BY <2>3, <2>4
  <2>7. UNCHANGED <<inFlight, owner, iokind, ioobj, deferVars, fate, cmdRest>>
    BY <1>6 DEF IoRemove
  <2>8. QED
    BY <2>1, <2>2, <2>3, <2>4, <2>5, <2>6, <2>7
<1>7. CASE IoRequeue(c)
  <2>1. ioobj[c] \in Objs /\ MsgOf(ioobj[c]) \in Msgs
    BY <1>7 DEF IoRequeue
  <2>2. \/ PutOk(ioobj[c]) \/ PutFails(ioobj[c])
        \/ memory' = memory /\ backend' = backend /\ fate' = [fate EXCEPT ![MsgOf(ioobj[c])] = "refused"]
    BY <1>7, Zenon DEF IoRequeue
  <2>3. PutOk(ioobj[c]) \/ PutFails(ioobj[c]) =>
        memory' \in [Objs -> Nat] /\ backend' \in [Msgs -> Nat] /\ fate' \in [Msgs -> Fates]
    BY <2>1, <1>0
  <2>4. memory' = memory /\ backend' = backend /\ fate' = [fate EXCEPT ![MsgOf(ioobj[c])] = "refused"] =>
        memory' \in [Objs -> Nat] /\ backend' \in [Msgs -> Nat] /\ fate' \in [Msgs -> Fates]
    BY <2>1
  <2>5. memory' \in [Objs -> Nat] /\ backend' \in [Msgs -> Nat] /\ fate' \in [Msgs -> Fates]
    BY <2>2, <2>3, <2>4, Zenon
  <2>6. \E pc \in {"count", "idle"} : IoDrop(c, pc)
    BY <1>7, Zenon DEF IoRequeue
  <2>7. UNCHANGED <<decodes, returns, flightVars, deferVars, clientVars, readyVars, ioOthers>>
    BY <1>7 DEF IoRequeue
  <2>8. QED
    BY <2>5, <2>6, <2>7 DEF IoDrop
<1>8. CASE IoDefer(c)
  <2>1. ioobj[c] \in Objs /\ MsgOf(ioobj[c]) \in Msgs /\ iopc[c] = "defer"
    BY <1>8 DEF IoDefer
  <2>2. \/ /\ deferred' = [deferred EXCEPT ![MsgOf(ioobj[c])] = ioobj[c]]
           /\ iopc' = [iopc EXCEPT ![c] = "deferPQ"]
           /\ iokind' = iokind /\ ioobj' = ioobj /\ fate' = fate
        \/ /\ deferred' = deferred /\ IoDrop(c, "idle")
           /\ fate' = [fate EXCEPT ![MsgOf(ioobj[c])] = "dropped"]
    BY <1>8, Zenon DEF IoDefer
  <2>3. UNCHANGED <<dpq, flightVars, cmdRest>>
    BY <1>8 DEF IoDefer
  <2>4. CASE /\ deferred' = [deferred EXCEPT ![MsgOf(ioobj[c])] = ioobj[c]]
           /\ iopc' = [iopc EXCEPT ![c] = "deferPQ"]
           /\ iokind' = iokind /\ ioobj' = ioobj /\ fate' = fate
    BY <2>4, <2>1, <2>3 DEF IoDrop
  <2>5. CASE /\ deferred' = deferred /\ IoDrop(c, "idle")
           /\ fate' = [fate EXCEPT ![MsgOf(ioobj[c])] = "dropped"]
    BY <2>5, <2>1, <2>3 DEF IoDrop
  <2>6. QED
    BY <2>2, <2>4, <2>5
<1>9. CASE IoDeferPQ(c)
  BY <1>9 DEF IoDeferPQ, IoDrop
<1>10. CASE IoTouch(c)
  <2>1. ioobj[c] \in Objs /\ MsgOf(ioobj[c]) \in Msgs /\ iopc[c] = "touch"
    BY <1>10 DEF IoTouch
  <2>2. \/ /\ inFlight' = [inFlight EXCEPT ![MsgOf(ioobj[c])] = ioobj[c]]
           /\ iopc' = [iopc EXCEPT ![c] = "touchPQ"]
           /\ iokind' = iokind /\ ioobj' = ioobj /\ fate' = fate
        \/ /\ inFlight' = inFlight /\ IoDrop(c, "idle")
           /\ fate' = [fate EXCEPT ![MsgOf(ioobj[c])] = "dropped"]
    BY <1>10, Zenon DEF IoTouch
  <2>3. UNCHANGED <<pq, idx, owner, deferVars, cmdRest>>
    BY <1>10 DEF IoTouch
  <2>4. CASE /\ inFlight' = [inFlight EXCEPT ![MsgOf(ioobj[c])] = ioobj[c]]
           /\ iopc' = [iopc EXCEPT ![c] = "touchPQ"]
           /\ iokind' = iokind /\ ioobj' = ioobj /\ fate' = fate
    BY <2>4, <2>1, <2>3 DEF IoDrop
  <2>5. CASE /\ inFlight' = inFlight /\ IoDrop(c, "idle")
           /\ fate' = [fate EXCEPT ![MsgOf(ioobj[c])] = "dropped"]
    BY <2>5, <2>1, <2>3 DEF IoDrop
  <2>6. QED
    BY <2>2, <2>4, <2>5
<1>11. CASE IoTouchPQ(c)
  <2>1. ioobj[c] \in Objs
    BY <1>11 DEF IoTouchPQ
  <2>2. pq' \in [Objs -> Nat] /\ idx' \in [Objs -> IndexStates] /\ IndexedIsQueued'
    BY <1>11, <2>1, AddFacts DEF IoTouchPQ
  <2>3. IoDrop(c, "idle") /\ UNCHANGED <<inFlight, owner, deferVars, fate, cmdRest>>
    BY <1>11 DEF IoTouchPQ
  <2>4. QED
    BY <2>2, <2>3 DEF IoDrop
<1>12. CASE IoCount(c)
  BY <1>12 DEF IoCount, IoDrop
<1>13. CASE IoNotify(c)
  BY <1>13 DEF IoNotify, TryUpdateReadyState
<1>14. CASE IoExit(c)
  BY <1>14 DEF IoExit
<1>15. CASE IoRemoveClient(c)
  BY <1>15 DEF IoRemoveClient
<1> HIDE DEF Base
<1>16. QED
  BY <1>1, <1>2, <1>3, <1>4, <1>5, <1>6, <1>7, <1>8, <1>9, <1>10, <1>11, <1>12, <1>13, <1>14, <1>15 DEF Io

(* The scan worker keeps the types.                                       *)
LEMMA ScanType == ASSUME Base, Scan PROVE Base'
<1>0. ASSUME NEW o \in Objs, PutOk(o) \/ PutFails(o)
      PROVE  memory' \in [Objs -> Nat] /\ backend' \in [Msgs -> Nat] /\ fate' \in [Msgs -> Fates]
  BY <1>0, PutFacts DEF Base
<1> USE ObjsFacts, BoundsAssumption, CommandsAssumption, SetsAssumption
    DEF Base, TypeOK, HandsFull, IndexedIsQueued,
      vars, queueVars, flightVars, deferVars, clientVars, readyVars, topicVars,
      pumpVars, ioVars, scanVars, adminVars, pumpOthers, ioOthers, scanOthers,
      adminOthers, topicOthers, pumpRest, ioRest, cmdRest, scanRest, adminRest,
      ClientStates, PumpStates, IoStates, ScanStates, EmptyStates, ExitStates,
      IndexStates, Fates, CommandNames
<1>1. CASE ScanInFlight
  BY <1>1 DEF ScanInFlight
<1>2. ASSUME NEW o \in Objs, ScanShift(o) PROVE Base'
  <2>1. pq' \in [Objs -> Nat] /\ idx' \in [Objs -> IndexStates] /\ IndexedIsQueued'
    BY <1>2, TakeOutFacts DEF ScanShift
  <2>2. spc' = "shifted" /\ sobj' = o
    BY <1>2 DEF ScanShift
  <2>3. UNCHANGED <<inFlight, owner, queueVars, deferVars, readyVars, fate, scanOthers>>
    BY <1>2 DEF ScanShift
  <2>4. QED
    BY <2>1, <2>2, <2>3
<1>3. CASE ScanInFlightDone
  BY <1>3 DEF ScanInFlightDone
<1>4. CASE ScanPop
  <2>1. spc = "shifted" /\ sobj \in Objs /\ MsgOf(sobj) \in Msgs
    BY <1>4 DEF ScanPop
  <2>2. \/ inFlight' = [inFlight EXCEPT ![MsgOf(sobj)] = NoObj] /\ spc' = "timedout" /\ sobj' = sobj
        \/ inFlight' = inFlight /\ spc' = "between" /\ sobj' = NoObj
    BY <1>4, Zenon DEF ScanPop
  <2>3. UNCHANGED <<pq, idx, owner, queueVars, deferVars, readyVars, fate, scanOthers>>
    BY <1>4 DEF ScanPop
  <2>4. CASE inFlight' = [inFlight EXCEPT ![MsgOf(sobj)] = NoObj] /\ spc' = "timedout" /\ sobj' = sobj
    BY <2>4, <2>1, <2>3
  <2>5. CASE inFlight' = inFlight /\ spc' = "between" /\ sobj' = NoObj
    BY <2>5, <2>1, <2>3
  <2>6. QED
    BY <2>2, <2>4, <2>5
<1>5. CASE ScanTimedOut
  BY <1>5 DEF ScanTimedOut
<1>6. CASE ScanNotify
  <2>1. token' \in [Clients -> BOOLEAN]
    BY <1>6, Zenon DEF ScanNotify, TryUpdateReadyState
  <2>2. spc = "notify" /\ spc' = "put"
    BY <1>6 DEF ScanNotify
  <2>3. UNCHANGED <<count, sobj, queueVars, flightVars, deferVars, fate, scanOthers>>
    BY <1>6 DEF ScanNotify
  <2>4. QED
    BY <2>1, <2>2, <2>3
<1>7. CASE ScanPut
  <2>1. sobj \in Objs
    BY <1>7 DEF ScanPut
  <2>2. memory' \in [Objs -> Nat] /\ backend' \in [Msgs -> Nat] /\ fate' \in [Msgs -> Fates]
    BY <1>7, <2>1, <1>0 DEF ScanPut
  <2>3. spc' = "inflight" /\ sobj' = NoObj
    BY <1>7 DEF ScanPut
  <2>4. UNCHANGED <<decodes, flightVars, deferVars, readyVars, scanOthers>>
    BY <1>7 DEF ScanPut
  <2>5. QED
    BY <2>1, <2>2, <2>3, <2>4
<1>8. CASE ScanDeferred
  BY <1>8 DEF ScanDeferred
<1>9. ASSUME NEW o \in Objs, ScanShiftDeferred(o) PROVE Base'
  BY <1>9 DEF ScanShiftDeferred
<1>10. CASE ScanDeferredDone
  BY <1>10 DEF ScanDeferredDone
<1>11. CASE ScanPopDeferred
  <2>1. spc = "dshifted" /\ sobj \in Objs /\ MsgOf(sobj) \in Msgs
    BY <1>11 DEF ScanPopDeferred
  <2>2. \/ deferred' = [deferred EXCEPT ![MsgOf(sobj)] = NoObj] /\ spc' = "dput" /\ sobj' = sobj
        \/ deferred' = deferred /\ spc' = "idle" /\ sobj' = NoObj
    BY <1>11, Zenon DEF ScanPopDeferred
  <2>3. UNCHANGED <<dpq, queueVars, flightVars, readyVars, fate, scanOthers>>
    BY <1>11 DEF ScanPopDeferred
  <2>4. CASE deferred' = [deferred EXCEPT ![MsgOf(sobj)] = NoObj] /\ spc' = "dput" /\ sobj' = sobj
    BY <2>4, <2>1, <2>3
  <2>5. CASE deferred' = deferred /\ spc' = "idle" /\ sobj' = NoObj
    BY <2>5, <2>1, <2>3
  <2>6. QED
    BY <2>2, <2>4, <2>5
<1>12. CASE ScanPutDeferred
  <2>1. sobj \in Objs
    BY <1>12 DEF ScanPutDeferred
  <2>2. memory' \in [Objs -> Nat] /\ backend' \in [Msgs -> Nat] /\ fate' \in [Msgs -> Fates]
    BY <1>12, <2>1, <1>0 DEF ScanPutDeferred
  <2>3. spc' = "deferred" /\ sobj' = NoObj
    BY <1>12 DEF ScanPutDeferred
  <2>4. UNCHANGED <<decodes, flightVars, deferVars, readyVars, scanOthers>>
    BY <1>12 DEF ScanPutDeferred
  <2>5. QED
    BY <2>1, <2>2, <2>3, <2>4
<1> HIDE DEF Base
<1>13. QED
  BY <1>1, <1>2, <1>3, <1>4, <1>5, <1>6, <1>7, <1>8, <1>9, <1>10, <1>11, <1>12 DEF Scan

(* The handlers keep the types.                                           *)
LEMMA AdminType == ASSUME Base, Admin PROVE Base'
<1> USE ObjsFacts, BoundsAssumption, CommandsAssumption, SetsAssumption
    DEF Base, TypeOK, HandsFull, IndexedIsQueued,
      vars, queueVars, flightVars, deferVars, clientVars, readyVars, topicVars,
      pumpVars, ioVars, scanVars, adminVars, pumpOthers, ioOthers, scanOthers,
      adminOthers, topicOthers, pumpRest, ioRest, cmdRest, scanRest, adminRest,
      ClientStates, PumpStates, IoStates, ScanStates, EmptyStates, ExitStates,
      IndexStates, Fates, CommandNames
<1>1. ASSUME NEW b \in BOOLEAN, SetPaused(b) PROVE Base'
  BY <1>1 DEF SetPaused
<1>2. CASE PauseClients
  <2>1. token' \in [Clients -> BOOLEAN]
    BY <1>2, Zenon DEF PauseClients
  <2>2. pausing' \in BOOLEAN
    BY <1>2 DEF PauseClients
  <2>3. UNCHANGED <<paused, epc, xpc, xmode, kicked, quiet, count, queueVars, flightVars, deferVars, topicVars, fate, adminOthers>>
    BY <1>2 DEF PauseClients
  <2>4. QED
    BY <2>1, <2>2, <2>3
<1>3. CASE EmptyInFlight
  BY <1>3 DEF EmptyInFlight
<1>4. CASE EmptyDeferred
  BY <1>4 DEF EmptyDeferred
<1>5. CASE EmptyClients
  BY <1>5 DEF EmptyClients
<1>6. CASE EmptyMemory
  BY <1>6 DEF EmptyMemory
<1>7. CASE EmptyBackend
  BY <1>7 DEF EmptyBackend
<1>8. ASSUME NEW mode \in {"close", "delete"}, Exit(mode) PROVE Base'
  BY <1>8 DEF Exit
<1>9. CASE ExitClients
  BY <1>9 DEF ExitClients
<1>10. ASSUME NEW o \in Objs, FlushMemory(o) PROVE Base'
  BY <1>10 DEF FlushMemory, Written, Added
<1>11. CASE FlushMemoryDone
  BY <1>11 DEF FlushMemoryDone
<1>12. CASE FlushInFlight
  BY <1>12 DEF FlushInFlight, Written, Added
<1>13. CASE FlushDeferred
  BY <1>13 DEF FlushDeferred, Written, Added
<1> HIDE DEF Base
<1>14. QED
  BY <1>1, <1>2, <1>3, <1>4, <1>5, <1>6, <1>7, <1>8, <1>9, <1>10, <1>11, <1>12, <1>13 DEF Admin

-----------------------------------------------------------------------------
(* Every step keeps the types.                                             *)
LEMMA BaseStep == ASSUME Base, [Next]_vars PROVE Base'
<1>1. CASE UNCHANGED vars
  BY <1>1 DEF Base, TypeOK, HandsFull, IndexedIsQueued, vars, queueVars,
     flightVars, deferVars, clientVars, readyVars, topicVars, pumpVars, ioVars,
     scanVars, adminVars
<1>2. ASSUME NEW c \in Clients, Pump(c) PROVE Base'
  BY <1>2, PumpType
<1>3. ASSUME NEW c \in Clients, Io(c) PROVE Base'
  BY <1>3, IoType
<1>4. CASE Topic
  BY <1>4, TopicType
<1>5. CASE Scan
  BY <1>5, ScanType
<1>6. CASE Admin
  BY <1>6, AdminType
<1>7. QED
  BY <1>1, <1>2, <1>3, <1>4, <1>5, <1>6 DEF Next

(* NewChannel() starts with everything empty.                              *)
LEMMA BaseInit == Init => Base
<1> SUFFICES ASSUME Init PROVE Base
  OBVIOUS
<1> USE DEF Init
<1>1. TypeOK
  <2>1. token \in [Clients -> BOOLEAN]
    BY Zenon
  <2>2. known \in [Clients -> SUBSET Msgs]
    OBVIOUS
  <2>3. {paused, deleter, pausing, quiet} \subseteq BOOLEAN
    BY Zenon
  <2>4. /\ memory \in [Objs -> Nat] /\ backend \in [Msgs -> Nat]
        /\ inFlight \in [Msgs -> Objs \cup {NoObj}]
        /\ deferred \in [Msgs -> Objs \cup {NoObj}]
        /\ pq \in [Objs -> Nat] /\ dpq \in [Objs -> Nat]
        /\ idx \in [Objs -> IndexStates] /\ owner \in [Objs -> Clients \cup {NoClient}]
        /\ decodes \in [Msgs -> 0..MaxDecodes] /\ fate \in [Msgs -> Fates]
        /\ returns \in 0..MaxReturns
    BY BoundsAssumption DEF IndexStates, Fates
  <2>5. /\ clients \subseteq Clients /\ cstate \in [Clients -> ClientStates]
        /\ rdy \in [Clients -> 0..MaxRdyCount] /\ count \in [Clients -> Int]
    BY BoundsAssumption DEF ClientStates
  <2>6. /\ tpc \in {"idle", "deferPQ", "exited"} /\ tobj \in Objs \cup {NoObj}
        /\ ppc \in [Clients -> PumpStates] /\ pobj \in [Clients -> Objs \cup {NoObj}]
        /\ iopc \in [Clients -> IoStates] /\ ioobj \in [Clients -> Objs \cup {NoObj}]
        /\ iokind \in [Clients -> CommandNames \ {"CLS"}]
        /\ spc \in ScanStates /\ sobj \in Objs \cup {NoObj}
        /\ epc \in EmptyStates /\ xpc \in ExitStates
        /\ xmode \in {"none", "close", "delete"} /\ kicked \subseteq Clients
    BY DEF PumpStates, IoStates, ScanStates, EmptyStates, ExitStates, CommandNames
  <2>7. QED
    BY <2>1, <2>2, <2>3, <2>4, <2>5, <2>6, Zenon DEF TypeOK
<1>2. HandsFull /\ IndexedIsQueued
  BY DEF HandsFull, IndexedIsQueued
<1>3. QED
  BY <1>1, <1>2 DEF Base

(* The counts in the queues never become negative, no client's ready count *)
(* exceeds the maximum, every goroutine that acts on a message has one and *)
(* an index into the in-flight queue belongs to something in that queue,   *)
(* whatever the goroutines' interleaving.                                  *)
THEOREM NsqChannelBase == Spec => []Base
<1>1. Init => Base
  BY BaseInit
<1>2. Base /\ [Next]_vars => Base'
  BY BaseStep
<1>3. QED
  BY <1>1, <1>2, PTL DEF Spec

(* Corollary: type correctness.                                            *)
THEOREM NsqChannelTypes == Spec => []TypeOK
<1>1. Base => TypeOK
  BY DEF Base
<1>2. QED
  BY <1>1, NsqChannelBase, PTL
=============================================================================
