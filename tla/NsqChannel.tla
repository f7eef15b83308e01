----------------------------- MODULE NsqChannel -----------------------------
(***************************************************************************)
(* One nsqd channel with its consumers.  The state is that of Channel and  *)
(* of the clientV2 values subscribed to it; the actors are the goroutines  *)
(* that share it:                                                          *)
(*   - the topic's message pump, which puts messages into the channel;     *)
(*   - for every client a message pump, which takes messages and sends     *)
(*     them, and an IO loop, which executes the client's commands;         *)
(*   - a queue scan worker, which requeues what timed out;                 *)
(*   - HTTP handlers that pause, empty, delete or close the channel.       *)
(* A step is one critical section or one atomic operation of one actor.    *)
(*                                                                         *)
(* A message object <<m, g>> is the g-th *Message allocated for message m: *)
(* reading a record back from the backend allocates a new one.  Queues are *)
(* bags, for the channel promises no order.  Time is abstracted: whatever  *)
(* is in a priority queue may be found expired.                            *)
(***************************************************************************)
EXTENDS Integers, FiniteSets, Functions

CONSTANTS
  Msgs,                 \* message IDs
  Clients,              \* client connections
  NoObj, NoClient,      \* nil *Message, and the clientID of a fresh message
  MemQueueSize,         \* capacity of memoryMsgChan (0: no memory queue)
  MaxChannelConsumers,  \* 0: unlimited
  MaxRdyCount,          \* largest count RDY accepts
  MaxDecodes,           \* bound: how often one message is read from disk
  MaxReturns,           \* bound: how many REQ and TOUCH commands there are
  Commands,             \* the commands clients use: see CommandNames
  Ephemeral,            \* is this an #ephemeral channel?
  EphemeralTopic,       \* is its topic #ephemeral?
  Deferring,            \* may messages be published with a delay?
  Sampling,             \* does some client ask for a sample rate?
  SendFails,            \* may a write to a connection fail?
  BackendFails,         \* may a write to the backend fail?
  CorruptRecords,       \* may a record of the backend fail to decode?
  Emptying,             \* may the channel be emptied?
  Pausing,              \* may the channel be paused and unpaused?
  ExitModes             \* which of "close" and "delete" may happen

CommandNames == {"FIN", "REQ", "DEFER", "TOUCH", "CLS"}
Objs == Msgs \X (0..MaxDecodes)
MsgOf(o) == o[1]

ASSUME SetsAssumption ==
  /\ IsFiniteSet(Msgs) /\ IsFiniteSet(Clients)
  /\ NoClient \notin Clients /\ NoObj \notin Objs
ASSUME BoundsAssumption ==
  /\ MemQueueSize \in Nat /\ MaxChannelConsumers \in Nat
  /\ MaxRdyCount \in Nat /\ MaxDecodes \in Nat
  /\ MaxReturns \in Nat
ASSUME CommandsAssumption == Commands \subseteq CommandNames
ASSUME ExitModesAssumption == ExitModes \subseteq {"close", "delete"}
ASSUME FlagsAssumption ==
  {Ephemeral, EphemeralTopic, Deferring, Sampling, SendFails, BackendFails,
   CorruptRecords, Emptying, Pausing} \subseteq BOOLEAN

VARIABLES
  \* the channel
  memory,     \* memoryMsgChan: how often each object is in it
  backend,    \* records in the backend queue, per message
  inFlight,   \* inFlightMessages
  pq, idx,    \* inFlightPQ, and what each object's index field says
  owner,      \* msg.clientID
  deferred,   \* deferredMessages
  dpq,        \* deferredPQ
  paused,
  clients,    \* the IDs in c.clients
  deleter,    \* has the last client of an ephemeral channel left?
  \* the clients
  cstate, rdy, count, token,
  known,      \* the message IDs a client has been sent
  \* the goroutines
  tpc, tobj,          \* topic pump
  ppc, pobj,          \* client message pumps
  iopc, iokind, ioobj, \* client IO loops
  spc, sobj,          \* queue scan worker
  pausing,            \* doPause between its store and its notifications
  epc,                \* Empty(): holds c.Lock unless "idle"
  xpc, xmode,         \* exit(): holds exitMutex unless "open" or "closed"
  kicked,             \* the clients whose connection exit() has closed
  \* history
  returns,    \* REQ and TOUCH commands so far
  decodes,    \* objects allocated so far for each message
  fate,       \* what became of each message
  quiet       \* exit(false) began with every client gone

queueVars  == <<memory, backend, decodes>>
flightVars == <<inFlight, pq, idx, owner>>
deferVars  == <<deferred, dpq>>
clientVars == <<clients, deleter, cstate, rdy, known>>
readyVars  == <<count, token>>
topicVars  == <<tpc, tobj>>
pumpVars   == <<ppc, pobj>>
ioVars     == <<iopc, iokind, ioobj, returns>>
scanVars   == <<spc, sobj>>
adminVars  == <<paused, pausing, epc, xpc, xmode, kicked, quiet>>
vars == <<queueVars, flightVars, deferVars, clientVars, readyVars, topicVars,
          pumpVars, ioVars, scanVars, adminVars, fate>>

(* What the steps of an actor never change.                                *)
pumpOthers  == <<deferVars, topicVars, ioVars, scanVars, adminVars>>
ioOthers    == <<topicVars, pumpVars, scanVars, adminVars>>
scanOthers  == <<clientVars, topicVars, pumpVars, ioVars, adminVars>>
adminOthers == <<clientVars, pumpVars, ioVars, scanVars>>
topicOthers == <<flightVars, clientVars, readyVars, pumpVars, ioVars, scanVars,
                 adminVars>>
(* ... and what most of them leave alone.                                  *)
pumpRest  == <<queueVars, flightVars, clientVars, fate, pumpOthers>>
ioRest    == <<returns, queueVars, flightVars, deferVars, fate, ioOthers>>
cmdRest   == <<returns, clientVars, readyVars, queueVars, ioOthers>>
scanRest  == <<queueVars, deferVars, readyVars, fate, scanOthers>>
adminRest == <<flightVars, deferVars, readyVars, topicVars, adminOthers>>

ClientStates == {"init", "subscribed", "closing", "exiting", "gone"}
PumpStates == {"nosub", "check", "idle", "ready", "push", "add", "count",
               "send", "exited"}
IoStates == {"idle", "subcheck", "remove", "put", "defer", "deferPQ", "touch",
             "touchPQ", "count", "notify"}
ScanStates == {"idle", "inflight", "shifted", "timedout", "notify", "put",
               "between", "deferred", "dshifted", "dput"}
EmptyStates == {"idle", "deferred", "clients", "memory", "backend"}
ExitStates == {"open", "clients", "empty", "emptying", "flushMemory", "flushInFlight",
               "flushDeferred", "closed"}
IndexStates == {"none", "zero", "at", "stale"}
Fates == {"unpublished", "live", "finished", "emptied", "sampled", "dropped",
          "refused"}

Init ==
  /\ memory = [o \in Objs |-> 0] /\ backend = [m \in Msgs |-> 0]
  /\ inFlight = [m \in Msgs |-> NoObj] /\ deferred = [m \in Msgs |-> NoObj]
  /\ pq = [o \in Objs |-> 0] /\ dpq = [o \in Objs |-> 0]
  /\ idx = [o \in Objs |-> "zero"] /\ owner = [o \in Objs |-> NoClient]
  /\ paused = FALSE /\ clients = {} /\ deleter = FALSE
  /\ cstate = [c \in Clients |-> "init"] /\ known = [c \in Clients |-> {}]
  /\ rdy = [c \in Clients |-> 0] /\ count = [c \in Clients |-> 0]
  /\ token = [c \in Clients |-> FALSE]
  /\ tpc = "idle" /\ tobj = NoObj /\ spc = "idle" /\ sobj = NoObj
  /\ ppc = [c \in Clients |-> "nosub"] /\ pobj = [c \in Clients |-> NoObj]
  /\ iopc = [c \in Clients |-> "idle"] /\ iokind = [c \in Clients |-> "FIN"]
  /\ ioobj = [c \in Clients |-> NoObj]
  /\ pausing = FALSE /\ epc = "idle" /\ xpc = "open" /\ quiet = FALSE
  /\ xmode = "none" /\ kicked = {}
  /\ decodes = [m \in Msgs |-> 0] /\ returns = 0
  /\ fate = [m \in Msgs |-> "unpublished"]

Exiting == xpc # "open"
MemoryLen == FoldFunction(+, 0, memory)

-----------------------------------------------------------------------------
(* put(): the non-blocking send to memoryMsgChan, else a backend write.    *)
(* The backend of an ephemeral channel accepts a record and forgets it.    *)
PutOk(o) ==
  LET m == MsgOf(o)  full == MemoryLen >= MemQueueSize IN
  \/ /\ ~full
     /\ memory' = [memory EXCEPT ![o] = @ + 1]
     /\ fate' = [fate EXCEPT ![m] = "live"]
     /\ UNCHANGED backend
  \/ /\ full /\ ~Ephemeral /\ xpc # "closed"
     /\ backend' = [backend EXCEPT ![m] = @ + 1]
     /\ fate' = [fate EXCEPT ![m] = "live"]
     /\ UNCHANGED memory
  \/ /\ full /\ Ephemeral
     /\ fate' = [fate EXCEPT ![m] = "dropped"]
     /\ UNCHANGED <<memory, backend>>

(* put() returns the backend's error; the message is in no queue.          *)
PutFails(o) ==
  /\ MemoryLen >= MemQueueSize /\ ~Ephemeral
  /\ BackendFails \/ xpc = "closed"
  /\ fate' = [fate EXCEPT ![MsgOf(o)] = "dropped"]
  /\ UNCHANGED <<memory, backend>>

(* Every operation of the heap may move other entries, and a moved entry   *)
(* has its index written: an object that is still in the heap although its *)
(* index says otherwise (it was in it twice) may get a valid index again.  *)
SetPQ(q, i) ==
  /\ pq' = q
  /\ \E F \in SUBSET {o \in Objs : q[o] > 0 /\ i[o] = "none"} :
        idx' = [o \in Objs |-> IF o \in F THEN "at" ELSE i[o]]

(* addToInFlightPQ(msg)                                                    *)
AddToInFlightPQ(o) ==
  SetPQ([pq EXCEPT ![o] = @ + 1], [idx EXCEPT ![o] = "at"])

(* Mutated: the test for index -1 is missing.                              *)
RemoveUnchecked(o) ==
  SetPQ([pq EXCEPT ![o] = @ - 1], [idx EXCEPT ![o] = "none"])

(* removeFromInFlightPQ(msg): trusts msg.index unless it is -1.  A zero or *)
(* stale index takes out whatever is there.  An index out of range panics, *)
(* which ends the process: the model just has no next step for it.         *)
RemoveFromInFlightPQ(o) ==
  \/ idx[o] = "none" /\ UNCHANGED <<pq, idx>>
  \/ /\ idx[o] = "at"
     /\ SetPQ([pq EXCEPT ![o] = @ - 1], [idx EXCEPT ![o] = "none"])
  \/ /\ idx[o] \in {"zero", "stale"}
     /\ \E v \in Objs :
           /\ pq[v] > 0
           /\ SetPQ([pq EXCEPT ![v] = @ - 1], [idx EXCEPT ![v] = "none"])

(* tryUpdateReadyState(): ReadyStateChan has room for one token.           *)
TryUpdateReadyState(c) == token' = [token EXCEPT ![c] = TRUE]

-----------------------------------------------------------------------------
(* The topic's message pump.                                               *)

(* PutMessage, under c.RLock: refused once the channel is exiting.         *)
PutMessage(m) ==
  /\ tpc = "idle" /\ fate[m] = "unpublished" /\ epc = "idle"
  /\ \/ ~Exiting /\ (PutOk(<<m, 0>>) \/ PutFails(<<m, 0>>))
     \/ /\ Exiting
        /\ fate' = [fate EXCEPT ![m] = "refused"]
        /\ UNCHANGED <<memory, backend>>
  /\ UNCHANGED <<decodes, deferVars, topicVars, topicOthers>>

(* PutMessageDeferred takes no lock and does not ask whether the channel   *)
(* is exiting: pushDeferredMessage, then addToDeferredPQ.                  *)
PutMessageDeferred(m) ==
  /\ Deferring
  /\ tpc = "idle" /\ fate[m] = "unpublished"
  /\ deferred' = [deferred EXCEPT ![m] = <<m, 0>>]
  /\ tpc' = "deferPQ" /\ tobj' = <<m, 0>>
  /\ fate' = [fate EXCEPT ![m] = "live"]
  /\ UNCHANGED <<dpq, queueVars, topicOthers>>

TopicAddToDeferredPQ ==
  /\ tpc = "deferPQ"
  /\ dpq' = [dpq EXCEPT ![tobj] = @ + 1]
  /\ tpc' = "idle" /\ tobj' = NoObj
  /\ UNCHANGED <<deferred, queueVars, fate, topicOthers>>

-----------------------------------------------------------------------------
(* The message pump of client c.                                           *)

(* Mutated: > instead of >= against the ready count.                       *)
IsReadyOneMore(c) == ~paused /\ count[c] <= rdy[c] /\ rdy[c] > 0

(* IsReadyForMessages()                                                    *)
IsReadyForMessages(c) == ~paused /\ count[c] < rdy[c] /\ rdy[c] > 0

(* case subChannel = <-subEventChan.  The select may prefer it to ExitChan *)
(* when the connection has already ended; without a ready count nothing    *)
(* would come of it.                                                       *)
PumpSub(c) ==
  /\ ppc[c] = "nosub"
  /\ \/ cstate[c] \in {"subscribed", "closing"}
     \/ cstate[c] \in {"exiting", "gone"} /\ rdy[c] > 0
  /\ ppc' = [ppc EXCEPT ![c] = "check"]
  /\ UNCHANGED <<pobj, readyVars, pumpRest>>

(* Top of the loop: which channels the select will listen on.  A client    *)
(* that is not ready has its buffer flushed, which may fail.               *)
PumpCheck(c) ==
  /\ ppc[c] = "check"
  /\ \/ IsReadyForMessages(c) /\ ppc' = [ppc EXCEPT ![c] = "ready"]
     \/ ~IsReadyForMessages(c) /\ ppc' = [ppc EXCEPT ![c] = "idle"]
     \/ /\ ~IsReadyForMessages(c) /\ SendFails
        /\ ppc' = [ppc EXCEPT ![c] = "exited"]
  /\ UNCHANGED <<pobj, readyVars, pumpRest>>

(* case <-client.ReadyStateChan                                            *)
PumpReadyState(c) ==
  /\ ppc[c] \in {"idle", "ready"} /\ token[c]
  /\ token' = [token EXCEPT ![c] = FALSE]
  /\ ppc' = [ppc EXCEPT ![c] = "check"]
  /\ UNCHANGED <<count, pobj, pumpRest>>

(* case <-heartbeatChan and case <-flusherChan; a failed write ends it.    *)
PumpTick(c) ==
  /\ ppc[c] \in {"idle", "ready"}
  /\ \E pc \in {"check"} \cup (IF SendFails THEN {"exited"} ELSE {}) :
        ppc' = [ppc EXCEPT ![c] = pc]
  /\ UNCHANGED <<pobj, readyVars, pumpRest>>

(* What the pump does with an object it took: drop it because of the       *)
(* client's sample rate, or count the attempt and go on.                   *)
Taken(c, o) ==
  \/ /\ ppc' = [ppc EXCEPT ![c] = "push"]
     /\ pobj' = [pobj EXCEPT ![c] = o]
     /\ UNCHANGED fate
  \/ /\ Sampling
     /\ ppc' = [ppc EXCEPT ![c] = "check"]
     /\ fate' = [fate EXCEPT ![MsgOf(o)] = "sampled"]
     /\ UNCHANGED pobj

(* case msg := <-memoryMsgChan                                             *)
PumpTakeMemory(c, o) ==
  /\ ppc[c] = "ready" /\ memory[o] > 0
  /\ memory' = [memory EXCEPT ![o] = @ - 1]
  /\ Taken(c, o)
  /\ UNCHANGED <<backend, decodes, flightVars, clientVars, readyVars,
                 pumpOthers>>

(* decodeMessage returns an error: it is logged, and the message is gone.  *)
Undecodable(c, m) ==
  /\ CorruptRecords
  /\ ppc' = [ppc EXCEPT ![c] = "check"]
  /\ fate' = [fate EXCEPT ![m] = "dropped"]
  /\ UNCHANGED pobj

(* case b := <-backendMsgChan, and decodeMessage allocates an object (not  *)
(* for a record that is sampled away, but that message is gone anyway).    *)
PumpTakeBackend(c, m) ==
  /\ ppc[c] = "ready" /\ backend[m] > 0 /\ xpc # "closed"
  /\ decodes[m] < MaxDecodes
  /\ backend' = [backend EXCEPT ![m] = @ - 1]
  /\ decodes' = [decodes EXCEPT ![m] = @ + 1]
  /\ Taken(c, <<m, decodes[m] + 1>>) \/ Undecodable(c, m)
  /\ UNCHANGED <<memory, flightVars, clientVars, readyVars, pumpOthers>>

(* StartInFlightTimeout: pushInFlightMessage; on "ID already in flight"    *)
(* the pump goes on without an entry in the priority queue.                *)
PumpPush(c) ==
  LET o == pobj[c]  m == MsgOf(o) IN
  /\ ppc[c] = "push"
  /\ owner' = [owner EXCEPT ![o] = c]
  /\ \/ /\ inFlight[m] = NoObj
        /\ inFlight' = [inFlight EXCEPT ![m] = o]
        /\ ppc' = [ppc EXCEPT ![c] = "add"]
     \/ /\ inFlight[m] # NoObj
        /\ ppc' = [ppc EXCEPT ![c] = "count"]
        /\ UNCHANGED inFlight
  /\ UNCHANGED <<pq, idx, pobj, queueVars, clientVars, readyVars, fate,
                 pumpOthers>>

(* StartInFlightTimeout: addToInFlightPQ                                   *)
PumpAdd(c) ==
  /\ ppc[c] = "add"
  /\ AddToInFlightPQ(pobj[c])
  /\ ppc' = [ppc EXCEPT ![c] = "count"]
  /\ UNCHANGED <<inFlight, owner, pobj, queueVars, clientVars, readyVars,
                 fate, pumpOthers>>

(* SendingMessage()                                                        *)
PumpCount(c) ==
  /\ ppc[c] = "count"
  /\ count' = [count EXCEPT ![c] = @ + 1]
  /\ ppc' = [ppc EXCEPT ![c] = "send"]
  /\ UNCHANGED <<token, pobj, pumpRest>>

(* SendMessage(): once written the client knows the message's ID.          *)
PumpSend(c) ==
  /\ ppc[c] = "send"
  /\ \/ /\ known' = [known EXCEPT ![c] = @ \cup {MsgOf(pobj[c])}]
        /\ ppc' = [ppc EXCEPT ![c] = "check"]
     \/ /\ SendFails \/ cstate[c] \in {"exiting", "gone"}
        /\ ppc' = [ppc EXCEPT ![c] = "exited"]
        /\ UNCHANGED known
  /\ pobj' = [pobj EXCEPT ![c] = NoObj]
  /\ UNCHANGED <<clients, deleter, cstate, rdy, queueVars, flightVars,
                 readyVars, fate, pumpOthers>>

(* case <-client.ExitChan                                                  *)
PumpExit(c) ==
  /\ ppc[c] \in {"nosub", "idle", "ready"} /\ cstate[c] \in {"exiting", "gone"}
  /\ ppc' = [ppc EXCEPT ![c] = "exited"]
  /\ UNCHANGED <<pobj, readyVars, pumpRest>>

-----------------------------------------------------------------------------
(* The IO loop of client c: one command at a time.                         *)

(* SUB: AddClient, under c.Lock.  Over the limit the connection is closed. *)
Sub(c) ==
  /\ iopc[c] = "idle" /\ cstate[c] = "init" /\ epc = "idle"
  /\ \/ /\ MaxChannelConsumers = 0 \/ Cardinality(clients) < MaxChannelConsumers
        /\ clients' = clients \cup {c}
        /\ iopc' = [iopc EXCEPT ![c] = "subcheck"]
        /\ UNCHANGED cstate
     \/ /\ MaxChannelConsumers # 0 /\ Cardinality(clients) >= MaxChannelConsumers
        /\ cstate' = [cstate EXCEPT ![c] = "exiting"]
        /\ UNCHANGED <<clients, iopc>>
  /\ UNCHANGED <<deleter, rdy, known, iokind, ioobj, readyVars, ioRest>>

(* Mutated: SUB does not look whether the channel is exiting.              *)
SubUnchecked(c) ==
  /\ iopc[c] = "subcheck"
  /\ iopc' = [iopc EXCEPT ![c] = "idle"]
  /\ cstate' = [cstate EXCEPT ![c] = "subscribed"]
  /\ UNCHANGED <<clients, deleter, rdy, known, iokind, ioobj, readyVars,
                 ioRest>>

(* SUB: an ephemeral channel that is exiting is left again (RemoveClient), *)
(* and so is any channel of an ephemeral topic that is exiting; the client *)
(* retries with the next channel of that name.  The topic is not part of   *)
(* this module: an ephemeral one may be found exiting at any moment.       *)
SubCheck(c) ==
  /\ iopc[c] = "subcheck"
  /\ iopc' = [iopc EXCEPT ![c] = "idle"]
  /\ \/ /\ ~(Ephemeral /\ Exiting)
        /\ cstate' = [cstate EXCEPT ![c] = "subscribed"]
        /\ UNCHANGED <<clients, deleter>>
     \/ /\ (Ephemeral /\ Exiting) \/ EphemeralTopic
        /\ epc = "idle"
        /\ clients' = clients \ {c}
        /\ deleter' = (deleter \/ (Ephemeral /\ clients' = {}))
        /\ cstate' = [cstate EXCEPT ![c] = "gone"]
  /\ UNCHANGED <<rdy, known, iokind, ioobj, readyVars, ioRest>>

(* SetReadyCount(n): the swap; a changed count is followed by a token.     *)
SetReadyCount(c, n) ==
  /\ rdy' = [rdy EXCEPT ![c] = n]
  /\ iopc' = [iopc EXCEPT ![c] = IF rdy[c] # n THEN "notify" ELSE "idle"]

(* RDY n, ignored after CLS.                                               *)
Rdy(c, n) ==
  /\ iopc[c] = "idle" /\ cstate[c] = "subscribed"
  /\ SetReadyCount(c, n)
  /\ UNCHANGED <<clients, deleter, cstate, known, iokind, ioobj, readyVars,
                 ioRest>>

(* CLS: StartClose()                                                       *)
Cls(c) ==
  /\ "CLS" \in Commands
  /\ iopc[c] = "idle" /\ cstate[c] = "subscribed"
  /\ SetReadyCount(c, 0)
  /\ cstate' = [cstate EXCEPT ![c] = "closing"]
  /\ UNCHANGED <<clients, deleter, known, iokind, ioobj, readyVars, ioRest>>

(* Mutated: popInFlightMessage leaves the message in the map.              *)
IoPopKeeps(c, kind, m) ==
  /\ iopc[c] = "idle" /\ cstate[c] \in {"subscribed", "closing"}
  /\ m \in known[c]
  /\ inFlight[m] # NoObj /\ owner[inFlight[m]] = c
  /\ ioobj' = [ioobj EXCEPT ![c] = inFlight[m]]
  /\ iokind' = [iokind EXCEPT ![c] = kind]
  /\ iopc' = [iopc EXCEPT ![c] = "remove"]
  /\ kind = "FIN" \/ returns < MaxReturns
  /\ returns' = IF kind = "FIN" THEN returns ELSE returns + 1
  /\ UNCHANGED <<fate, flightVars, queueVars, deferVars, clientVars,
                 readyVars, ioOthers>>

(* FIN, REQ 0, REQ with a delay and TOUCH all begin with                   *)
(* popInFlightMessage; when it fails the client gets an error and nothing  *)
(* changes.                                                                *)
IoPop(c, kind, m) ==
  /\ iopc[c] = "idle" /\ cstate[c] \in {"subscribed", "closing"}
  /\ m \in known[c]
  /\ inFlight[m] # NoObj /\ owner[inFlight[m]] = c
  /\ inFlight' = [inFlight EXCEPT ![m] = NoObj]
  /\ ioobj' = [ioobj EXCEPT ![c] = inFlight[m]]
  /\ iokind' = [iokind EXCEPT ![c] = kind]
  /\ iopc' = [iopc EXCEPT ![c] = "remove"]
  /\ kind = "FIN" \/ returns < MaxReturns
  /\ returns' = IF kind = "FIN" THEN returns ELSE returns + 1
  /\ fate' = [fate EXCEPT ![m] = IF kind = "FIN" THEN "finished" ELSE @]
  /\ UNCHANGED <<pq, idx, owner, queueVars, deferVars, clientVars, readyVars,
                 ioOthers>>

(* ... then removeFromInFlightPQ.                                          *)
AfterRemove == [FIN |-> "count", REQ |-> "put", DEFER |-> "defer", TOUCH |-> "touch"]
IoRemove(c) ==
  /\ iopc[c] = "remove"
  /\ RemoveFromInFlightPQ(ioobj[c])
  /\ iopc' = [iopc EXCEPT ![c] = AfterRemove[iokind[c]]]
  /\ UNCHANGED <<inFlight, owner, iokind, ioobj, deferVars, fate, cmdRest>>

(* The handler returns to the loop, or goes on without the message.        *)
IoDrop(c, pc) ==
  /\ iopc' = [iopc EXCEPT ![c] = pc]
  /\ ioobj' = [ioobj EXCEPT ![c] = NoObj]
  /\ iokind' = [iokind EXCEPT ![c] = "FIN"]

(* RequeueMessage with no delay, under exitMutex.RLock: dropped when the   *)
(* channel is exiting.  An error skips RequeuedMessage().                  *)
IoRequeue(c) ==
  /\ iopc[c] = "put" /\ xpc \in {"open", "closed"}
  /\ \/ ~Exiting /\ PutOk(ioobj[c]) /\ IoDrop(c, "count")
     \/ ~Exiting /\ PutFails(ioobj[c]) /\ IoDrop(c, "idle")
     \/ /\ Exiting /\ IoDrop(c, "idle")
        /\ fate' = [fate EXCEPT ![MsgOf(ioobj[c])] = "refused"]
        /\ UNCHANGED <<memory, backend>>
  /\ UNCHANGED <<returns, decodes, flightVars, deferVars, clientVars,
                 readyVars, ioOthers>>

(* StartDeferredTimeout: pushDeferredMessage ...                           *)
IoDefer(c) ==
  LET o == ioobj[c]  m == MsgOf(o) IN
  /\ iopc[c] = "defer"
  /\ \/ /\ deferred[m] = NoObj
        /\ deferred' = [deferred EXCEPT ![m] = o]
        /\ iopc' = [iopc EXCEPT ![c] = "deferPQ"]
        /\ UNCHANGED <<iokind, ioobj, fate>>
     \/ /\ deferred[m] # NoObj
        /\ IoDrop(c, "idle")
        /\ fate' = [fate EXCEPT ![m] = "dropped"]
        /\ UNCHANGED deferred
  /\ UNCHANGED <<dpq, flightVars, cmdRest>>

(* ... then addToDeferredPQ.                                               *)
IoDeferPQ(c) ==
  /\ iopc[c] = "deferPQ"
  /\ dpq' = [dpq EXCEPT ![ioobj[c]] = @ + 1]
  /\ IoDrop(c, "count")
  /\ UNCHANGED <<deferred, flightVars, fate, cmdRest>>

(* TouchMessage: pushInFlightMessage ...                                   *)
IoTouch(c) ==
  LET o == ioobj[c]  m == MsgOf(o) IN
  /\ iopc[c] = "touch"
  /\ \/ /\ inFlight[m] = NoObj
        /\ inFlight' = [inFlight EXCEPT ![m] = o]
        /\ iopc' = [iopc EXCEPT ![c] = "touchPQ"]
        /\ UNCHANGED <<iokind, ioobj, fate>>
     \/ /\ inFlight[m] # NoObj
        /\ IoDrop(c, "idle")
        /\ fate' = [fate EXCEPT ![m] = "dropped"]
        /\ UNCHANGED inFlight
  /\ UNCHANGED <<pq, idx, owner, deferVars, cmdRest>>

(* Mutated: TouchMessage does not put the message into the queue again.    *)
IoTouchNoPQ(c) ==
  /\ iopc[c] = "touchPQ"
  /\ IoDrop(c, "idle")
  /\ UNCHANGED <<clientVars, readyVars, ioRest>>

(* ... then addToInFlightPQ.                                               *)
IoTouchPQ(c) ==
  /\ iopc[c] = "touchPQ"
  /\ AddToInFlightPQ(ioobj[c])
  /\ IoDrop(c, "idle")
  /\ UNCHANGED <<inFlight, owner, deferVars, fate, cmdRest>>

(* FinishedMessage() and RequeuedMessage(): the counter ...                *)
IoCount(c) ==
  /\ iopc[c] = "count"
  /\ count' = [count EXCEPT ![c] = @ - 1]
  /\ IoDrop(c, "notify")
  /\ UNCHANGED <<token, clientVars, ioRest>>

(* ... then tryUpdateReadyState, also for SetReadyCount.                   *)
IoNotify(c) ==
  /\ iopc[c] = "notify"
  /\ TryUpdateReadyState(c)
  /\ iopc' = [iopc EXCEPT ![c] = "idle"]
  /\ UNCHANGED <<count, iokind, ioobj, clientVars, ioRest>>

(* The connection ends: a read fails, a fatal error, or client.Close() in  *)
(* the channel's exit(); ExitChan is closed ...                            *)
IoExit(c) ==
  /\ iopc[c] = "idle" /\ cstate[c] \in {"init", "subscribed", "closing"}
  /\ cstate' = [cstate EXCEPT ![c] = "exiting"]
  /\ UNCHANGED <<clients, deleter, rdy, known, queueVars, flightVars,
                 readyVars, pumpVars, fate, pumpOthers>>

(* ... then RemoveClient, under c.Lock.                                    *)
IoRemoveClient(c) ==
  /\ cstate[c] = "exiting" /\ epc = "idle"
  /\ cstate' = [cstate EXCEPT ![c] = "gone"]
  /\ clients' = clients \ {c}
  /\ deleter' = (deleter \/ (Ephemeral /\ c \in clients /\ clients' = {}))
  /\ UNCHANGED <<rdy, known, queueVars, flightVars, readyVars, pumpVars,
                 fate, pumpOthers>>

-----------------------------------------------------------------------------
(* The queue scan worker; "between" and "idle" hold no lock, every other   *)
(* state holds exitMutex.RLock.                                            *)

(* processInFlightQueue: nothing to do when exiting.                       *)
ScanInFlight ==
  /\ spc = "idle" /\ xpc = "open"
  /\ spc' = "inflight"
  /\ UNCHANGED <<sobj, flightVars, scanRest>>

(* Mutated: Pop does not set the index of what it removes to -1.           *)
ScanShiftKeepsIndex(o) ==
  /\ spc = "inflight" /\ pq[o] > 0
  /\ SetPQ([pq EXCEPT ![o] = @ - 1], [idx EXCEPT ![o] = "stale"])
  /\ spc' = "shifted" /\ sobj' = o
  /\ UNCHANGED <<inFlight, owner, scanRest>>

(* PeekAndShift finds an expired entry ...                                 *)
ScanShift(o) ==
  /\ spc = "inflight" /\ pq[o] > 0
  /\ SetPQ([pq EXCEPT ![o] = @ - 1], [idx EXCEPT ![o] = "none"])
  /\ spc' = "shifted" /\ sobj' = o
  /\ UNCHANGED <<inFlight, owner, scanRest>>

(* ... or none.                                                            *)
ScanInFlightDone ==
  /\ spc = "inflight"
  /\ spc' = "between"
  /\ UNCHANGED <<sobj, flightVars, scanRest>>

(* Mutated: the error of popInFlightMessage is ignored.                    *)
ScanPopIgnoresError ==
  /\ spc = "shifted"
  /\ inFlight' = [inFlight EXCEPT ![MsgOf(sobj)] = NoObj]
  /\ spc' = "timedout"
  /\ UNCHANGED <<sobj, pq, idx, owner, scanRest>>

(* Mutated: an expired entry is dropped, the message stays in the map.     *)
ScanPopNothing ==
  /\ spc = "shifted"
  /\ spc' = "between" /\ sobj' = NoObj
  /\ UNCHANGED <<flightVars, scanRest>>

(* popInFlightMessage(msg.clientID, msg.ID); an error ends the scan.       *)
ScanPop ==
  LET m == MsgOf(sobj)
      found == inFlight[m] # NoObj /\ owner[inFlight[m]] = owner[sobj] IN
  /\ spc = "shifted"
  /\ \/ /\ found
        /\ inFlight' = [inFlight EXCEPT ![m] = NoObj]
        /\ spc' = "timedout" /\ UNCHANGED sobj
     \/ /\ ~found
        /\ spc' = "between" /\ sobj' = NoObj
        /\ UNCHANGED inFlight
  /\ UNCHANGED <<pq, idx, owner, scanRest>>

(* Mutated: TimedOutMessage() is not called.                               *)
ScanTimedOutSilent ==
  /\ spc = "timedout" /\ epc = "idle"
  /\ spc' = "put"
  /\ UNCHANGED <<count, token, sobj, queueVars, flightVars, deferVars, fate,
                 scanOthers>>

(* client.TimedOutMessage() of a client that is still subscribed.          *)
ScanTimedOut ==
  LET c == owner[sobj] IN
  /\ spc = "timedout" /\ epc = "idle"
  /\ \/ /\ c \in clients
        /\ count' = [count EXCEPT ![c] = @ - 1]
        /\ spc' = "notify"
     \/ c \notin clients /\ spc' = "put" /\ UNCHANGED count
  /\ UNCHANGED <<token, sobj, queueVars, flightVars, deferVars, fate,
                 scanOthers>>

ScanNotify ==
  /\ spc = "notify"
  /\ TryUpdateReadyState(owner[sobj])
  /\ spc' = "put"
  /\ UNCHANGED <<count, sobj, queueVars, flightVars, deferVars, fate,
                 scanOthers>>

(* c.put(msg), its error ignored.                                          *)
ScanPut ==
  /\ spc = "put"
  /\ PutOk(sobj) \/ PutFails(sobj)
  /\ spc' = "inflight" /\ sobj' = NoObj
  /\ UNCHANGED <<decodes, flightVars, deferVars, readyVars, scanOthers>>

(* Mutated: the worker only looks at the in-flight queue.                  *)
ScanDeferredSkipped ==
  /\ spc = "between" /\ xpc \in {"open", "closed"}
  /\ spc' = "idle"
  /\ UNCHANGED <<sobj, flightVars, scanRest>>

(* processDeferredQueue                                                    *)
ScanDeferred ==
  /\ spc = "between" /\ xpc \in {"open", "closed"}
  /\ spc' = IF Exiting THEN "idle" ELSE "deferred"
  /\ UNCHANGED <<sobj, flightVars, scanRest>>

ScanShiftDeferred(o) ==
  /\ spc = "deferred" /\ dpq[o] > 0
  /\ dpq' = [dpq EXCEPT ![o] = @ - 1]
  /\ spc' = "dshifted" /\ sobj' = o
  /\ UNCHANGED <<deferred, queueVars, flightVars, readyVars, fate, scanOthers>>

ScanDeferredDone ==
  /\ spc = "deferred"
  /\ spc' = "idle"
  /\ UNCHANGED <<sobj, flightVars, scanRest>>

(* Mutated: popDeferredMessage leaves the item in the map.                 *)
ScanPopDeferredKeeps ==
  /\ spc = "dshifted"
  /\ spc' = "dput"
  /\ UNCHANGED <<sobj, flightVars, scanRest>>

ScanPopDeferred ==
  LET m == MsgOf(sobj) IN
  /\ spc = "dshifted"
  /\ \/ /\ deferred[m] # NoObj
        /\ deferred' = [deferred EXCEPT ![m] = NoObj]
        /\ spc' = "dput" /\ UNCHANGED sobj
     \/ /\ deferred[m] = NoObj
        /\ spc' = "idle" /\ sobj' = NoObj
        /\ UNCHANGED deferred
  /\ UNCHANGED <<dpq, queueVars, flightVars, readyVars, fate, scanOthers>>

ScanPutDeferred ==
  /\ spc = "dput"
  /\ PutOk(sobj) \/ PutFails(sobj)
  /\ spc' = "deferred" /\ sobj' = NoObj
  /\ UNCHANGED <<decodes, flightVars, deferVars, readyVars, scanOthers>>

-----------------------------------------------------------------------------
(* doPause(): the flag ...                                                 *)
SetPaused(b) ==
  /\ Pausing /\ ~pausing
  /\ paused' = b /\ pausing' = TRUE
  /\ UNCHANGED <<epc, xpc, xmode, kicked, quiet, queueVars, fate, adminRest>>

(* Mutated: doPause does not wake the clients' pumps.                      *)
PauseClientsSilent ==
  /\ pausing /\ epc = "idle"
  /\ pausing' = FALSE
  /\ UNCHANGED <<token, paused, epc, xpc, xmode, kicked, quiet, count,
                 queueVars, flightVars, deferVars, topicVars, fate,
                 adminOthers>>

(* ... then Pause() or UnPause() of every client, under c.RLock.           *)
PauseClients ==
  /\ pausing /\ epc = "idle"
  /\ token' = [c \in Clients |-> token[c] \/ c \in clients]
  /\ pausing' = FALSE
  /\ UNCHANGED <<paused, epc, xpc, xmode, kicked, quiet, count, queueVars,
                 flightVars, deferVars, topicVars, fate, adminOthers>>

(* Empty(), under c.Lock, called by a handler or by exit(true): initPQ     *)
(* replaces the in-flight map and queue, the objects keep their index ...  *)
EmptyInFlight ==
  /\ epc = "idle"
  /\ \/ Emptying /\ UNCHANGED xpc
     \/ xpc = "empty" /\ xpc' = "emptying"
  /\ inFlight' = [m \in Msgs |-> NoObj]
  /\ pq' = [o \in Objs |-> 0]
  /\ idx' = [o \in Objs |-> IF pq[o] > 0 THEN "stale" ELSE idx[o]]
  /\ fate' = [m \in Msgs |-> IF inFlight[m] # NoObj THEN "emptied" ELSE fate[m]]
  /\ epc' = "deferred"
  /\ UNCHANGED <<owner, paused, pausing, xmode, kicked, quiet, queueVars,
                 deferVars, readyVars, topicVars, adminOthers>>

(* ... then the deferred ones ...                                          *)
EmptyDeferred ==
  /\ epc = "deferred"
  /\ deferred' = [m \in Msgs |-> NoObj]
  /\ dpq' = [o \in Objs |-> 0]
  /\ fate' = [m \in Msgs |-> IF deferred[m] # NoObj THEN "emptied" ELSE fate[m]]
  /\ epc' = "clients"
  /\ UNCHANGED <<paused, pausing, xpc, xmode, kicked, quiet, queueVars,
                 flightVars, readyVars, topicVars, adminOthers>>

(* ... client.Empty() of every client ...                                  *)
EmptyClients ==
  /\ epc = "clients"
  /\ count' = [c \in Clients |-> IF c \in clients THEN 0 ELSE count[c]]
  /\ token' = [c \in Clients |-> token[c] \/ c \in clients]
  /\ epc' = "memory"
  /\ UNCHANGED <<paused, pausing, xpc, xmode, kicked, quiet, queueVars,
                 flightVars, deferVars, topicVars, fate, adminOthers>>

(* ... drains memoryMsgChan ...                                            *)
EmptyMemory ==
  /\ epc = "memory"
  /\ memory' = [o \in Objs |-> 0]
  /\ fate' = [m \in Msgs |-> IF \E o \in Objs : MsgOf(o) = m /\ memory[o] > 0
                             THEN "emptied" ELSE fate[m]]
  /\ epc' = "backend"
  /\ UNCHANGED <<backend, decodes, paused, pausing, xpc, xmode, kicked,
                 quiet, adminRest>>

(* ... and empties the backend, unless it is closed and refuses; exit(true) *)
(* then deletes it.                                                         *)
EmptyBackend ==
  /\ epc = "backend"
  /\ \/ /\ xpc # "closed"
        /\ backend' = [m \in Msgs |-> 0]
        /\ fate' = [m \in Msgs |-> IF backend[m] > 0 THEN "emptied" ELSE fate[m]]
     \/ xpc = "closed" /\ UNCHANGED <<backend, fate>>
  /\ epc' = "idle"
  /\ xpc' = IF xpc = "emptying" THEN "closed" ELSE xpc
  /\ UNCHANGED <<memory, decodes, paused, pausing, xmode, kicked, quiet,
                 adminRest>>

-----------------------------------------------------------------------------
(* No client is left and no goroutine is in the middle of something.       *)
Quiescent ==
  /\ \A c \in Clients : cstate[c] = "gone" /\ ppc[c] = "exited"
  /\ epc = "idle"

(* exit(deleted): exitMutex.Lock and the flag.  Close() is only called     *)
(* once the topic's message pump has ended.                                *)
Exit(mode) ==
  /\ \/ mode \in ExitModes
     \/ deleter /\ mode = "delete"
  /\ xpc = "open" /\ spc \in {"idle", "between"}
  /\ mode = "close" => tpc = "idle"
  /\ tpc' = IF mode = "close" THEN "exited" ELSE tpc
  /\ xpc' = "clients" /\ xmode' = mode
  /\ quiet' = (mode = "close" /\ Quiescent)
  /\ UNCHANGED <<tobj, paused, pausing, epc, kicked, queueVars, flightVars,
                 deferVars, readyVars, fate, adminOthers>>

(* ... then client.Close() of every client, under c.RLock.                 *)
ExitClients ==
  /\ xpc = "clients" /\ epc = "idle"
  /\ kicked' = clients
  /\ xpc' = IF xmode = "delete" THEN "empty" ELSE "flushMemory"
  /\ UNCHANGED <<paused, pausing, epc, xmode, quiet, queueVars, fate,
                 adminRest>>

(* Which of the records flush() writes do reach the backend.               *)
Written(S) == IF Ephemeral THEN {{}} ELSE IF BackendFails THEN SUBSET S ELSE {S}
Added(W) == [m \in Msgs |-> backend[m] + (IF m \in W THEN 1 ELSE 0)]

(* flush(): one message of the memory queue ...                            *)
FlushMemory(o) ==
  /\ xpc = "flushMemory" /\ memory[o] > 0
  /\ memory' = [memory EXCEPT ![o] = @ - 1]
  /\ \E W \in Written({MsgOf(o)}) :
        /\ backend' = Added(W)
        /\ fate' = [fate EXCEPT ![MsgOf(o)] = IF W = {} THEN "dropped" ELSE @]
  /\ UNCHANGED <<decodes, deferVars, topicVars, topicOthers>>

FlushMemoryDone ==
  /\ xpc = "flushMemory" /\ \A o \in Objs : memory[o] = 0
  /\ xpc' = "flushInFlight"
  /\ UNCHANGED <<paused, pausing, epc, xmode, kicked, quiet, queueVars, fate,
                 adminRest>>

(* Mutated: flush() skips what is in flight.                               *)
FlushInFlightSkipped ==
  /\ xpc = "flushInFlight"
  /\ xpc' = "flushDeferred"
  /\ UNCHANGED <<backend, memory, decodes, paused, pausing, epc, xmode,
                 kicked, quiet, fate, adminRest>>

(* ... then what is in flight, which stays in the map ...                  *)
FlushInFlight ==
  /\ xpc = "flushInFlight"
  /\ \E W \in Written({m \in Msgs : inFlight[m] # NoObj}) : backend' = Added(W)
  /\ xpc' = "flushDeferred"
  /\ UNCHANGED <<memory, decodes, paused, pausing, epc, xmode, kicked, quiet,
                 fate, adminRest>>

(* ... and what is deferred; then backend.Close().                         *)
FlushDeferred ==
  /\ xpc = "flushDeferred"
  /\ \E W \in Written({m \in Msgs : deferred[m] # NoObj}) : backend' = Added(W)
  /\ xpc' = "closed"
  /\ UNCHANGED <<memory, decodes, paused, pausing, epc, xmode, kicked, quiet,
                 fate, adminRest>>

-----------------------------------------------------------------------------
Topic == (\E m \in Msgs : PutMessage(m) \/ PutMessageDeferred(m)) \/ TopicAddToDeferredPQ

Pump(c) ==
  \/ PumpSub(c) \/ PumpCheck(c) \/ PumpReadyState(c) \/ PumpTick(c)
  \/ \E o \in Objs : PumpTakeMemory(c, o)
  \/ \E m \in Msgs : PumpTakeBackend(c, m)
  \/ PumpPush(c) \/ PumpAdd(c) \/ PumpCount(c) \/ PumpSend(c) \/ PumpExit(c)

Io(c) ==
  \/ Sub(c) \/ SubCheck(c) \/ Cls(c)
  \/ \E n \in 0..MaxRdyCount : Rdy(c, n)
  \/ \E m \in Msgs, kind \in Commands \ {"CLS"} : IoPop(c, kind, m)
  \/ IoRemove(c) \/ IoRequeue(c) \/ IoDefer(c) \/ IoDeferPQ(c) \/ IoTouch(c)
  \/ IoTouchPQ(c) \/ IoCount(c) \/ IoNotify(c) \/ IoExit(c) \/ IoRemoveClient(c)

Scan ==
  \/ ScanInFlight \/ (\E o \in Objs : ScanShift(o)) \/ ScanInFlightDone
  \/ ScanPop \/ ScanTimedOut \/ ScanNotify \/ ScanPut \/ ScanDeferred
  \/ (\E o \in Objs : ScanShiftDeferred(o)) \/ ScanDeferredDone
  \/ ScanPopDeferred \/ ScanPutDeferred

Admin ==
  \/ \E b \in BOOLEAN : SetPaused(b)
  \/ PauseClients \/ EmptyInFlight \/ EmptyDeferred \/ EmptyClients
  \/ EmptyMemory \/ EmptyBackend \/ (\E mode \in {"close", "delete"} : Exit(mode))
  \/ ExitClients \/ (\E o \in Objs : FlushMemory(o)) \/ FlushMemoryDone \/ FlushInFlight
  \/ FlushDeferred

Next == Topic \/ Scan \/ Admin \/ \E c \in Clients : Pump(c) \/ Io(c)

Spec == Init /\ [][Next]_vars

-----------------------------------------------------------------------------
(* What each variable holds.  No queue ever contains an object a negative  *)
(* number of times: nothing is removed from where it is not, although      *)
(* removeFromInFlightPQ removes by an index.                               *)
TypeOK ==
  /\ memory \in [Objs -> Nat] /\ backend \in [Msgs -> Nat]
  /\ inFlight \in [Msgs -> Objs \cup {NoObj}]
  /\ deferred \in [Msgs -> Objs \cup {NoObj}]
  /\ pq \in [Objs -> Nat] /\ dpq \in [Objs -> Nat]
  /\ idx \in [Objs -> IndexStates] /\ owner \in [Objs -> Clients \cup {NoClient}]
  /\ paused \in BOOLEAN /\ clients \subseteq Clients /\ deleter \in BOOLEAN
  /\ cstate \in [Clients -> ClientStates] /\ rdy \in [Clients -> 0..MaxRdyCount]
  /\ count \in [Clients -> Int] /\ token \in [Clients -> BOOLEAN]
  /\ known \in [Clients -> SUBSET Msgs]
  /\ tpc \in {"idle", "deferPQ", "exited"} /\ tobj \in Objs \cup {NoObj}
  /\ ppc \in [Clients -> PumpStates] /\ pobj \in [Clients -> Objs \cup {NoObj}]
  /\ iopc \in [Clients -> IoStates] /\ iokind \in [Clients -> CommandNames \ {"CLS"}]
  /\ ioobj \in [Clients -> Objs \cup {NoObj}]
  /\ spc \in ScanStates /\ sobj \in Objs \cup {NoObj}
  /\ pausing \in BOOLEAN /\ epc \in EmptyStates /\ xpc \in ExitStates
  /\ xmode \in {"none", "close", "delete"} /\ kicked \subseteq Clients
  /\ quiet \in BOOLEAN
  /\ decodes \in [Msgs -> 0..MaxDecodes] /\ returns \in 0..MaxReturns
  /\ fate \in [Msgs -> Fates]

(* Which goroutines have message m in hand: it has left one collection and *)
(* is on its way into another.                                             *)
PumpHas(c, m) == ppc[c] = "push" /\ MsgOf(pobj[c]) = m
IoHas(c, m) ==
  /\ iopc[c] \in {"remove", "put", "defer", "touch"} /\ iokind[c] # "FIN"
  /\ MsgOf(ioobj[c]) = m
ScanHas(m) == spc \in {"timedout", "notify", "put", "dput"} /\ MsgOf(sobj) = m
InMemory(m) == \E o \in Objs : memory[o] > 0 /\ MsgOf(o) = m

Places == ({"memory", "backend", "inFlight", "deferred", "scan"} \X {NoClient})
            \cup ({"pump", "io"} \X Clients)
At(m, p) ==
  \/ p[1] = "memory" /\ InMemory(m)
  \/ p[1] = "backend" /\ backend[m] > 0
  \/ p[1] = "inFlight" /\ inFlight[m] # NoObj
  \/ p[1] = "deferred" /\ deferred[m] # NoObj
  \/ p[1] = "scan" /\ ScanHas(m)
  \/ p[1] = "pump" /\ PumpHas(p[2], m)
  \/ p[1] = "io" /\ IoHas(p[2], m)

(* Until a closing channel flushes, a message that was accepted and not    *)
(* finished, emptied, sampled away or dropped is in exactly one place, and *)
(* any other is nowhere: timeouts, requeues, touches and deliveries that   *)
(* race for a message neither lose nor duplicate it.                       *)
Flushing == xpc \in {"flushMemory", "flushInFlight", "flushDeferred", "closed"}
ExactlyOnePlace ==
  ~Flushing =>
    \A m \in Msgs :
      /\ \A p, q \in {r \in Places : At(m, r)} : p = q
      /\ fate[m] = "live" <=> \E p \in Places : At(m, p)
      /\ backend[m] <= 1
      /\ \A o, u \in Objs : /\ memory[o] <= 1
                            /\ memory[o] > 0 /\ memory[u] > 0 /\ MsgOf(o) = MsgOf(u) => o = u

(* removeFromInFlightPQ finds its message at the message's index, or the   *)
(* index is -1 because "this item has already been popped off the pqueue": *)
(* it neither removes another message's entry nor runs out of range.       *)
RemovesOwnEntry ==
  \A c \in Clients : iopc[c] = "remove" => idx[ioobj[c]] \in {"none", "at"}

(* A goroutine that has put object o into a map and not yet into its queue. *)
Enqueuing(o) ==
  \E c \in Clients : \/ ppc[c] = "add" /\ pobj[c] = o
                     \/ iopc[c] \in {"touchPQ", "deferPQ"} /\ ioobj[c] = o
(* Every in-flight and every deferred message will be found by the queue   *)
(* scan: its object is in the priority queue, or on its way into it, or in *)
(* the scan worker's hands.                                                *)
TimeoutCovered ==
  \A m \in Msgs :
    /\ LET o == inFlight[m] IN
       o # NoObj => pq[o] > 0 \/ Enqueuing(o) \/ (spc = "shifted" /\ sobj = o)
    /\ LET o == deferred[m] IN
       o # NoObj => \/ dpq[o] > 0 \/ Enqueuing(o) \/ (tpc = "deferPQ" /\ tobj = o)
                    \/ spc = "dshifted" /\ sobj = o

(* The messages in flight to client c, and by how much InFlightCount lags. *)
InFlightTo(c) == {m \in Msgs : inFlight[m] # NoObj /\ owner[inFlight[m]] = c}
Lag(c) ==
  (IF iopc[c] \in {"remove", "put", "defer", "deferPQ", "touch", "count"} THEN 1 ELSE 0)
  + (IF spc = "timedout" /\ owner[sobj] = c THEN 1 ELSE 0)
  - (IF ppc[c] \in {"add", "count"} THEN 1 ELSE 0)
(* InFlightCount is the number of messages in flight to the client, up to  *)
(* the steps that are under way (tryUpdateReadyState: "the atomic integer  *)
(* operations guarantee correctness of the value").                        *)
CountExact == \A c \in clients : count[c] = Cardinality(InFlightTo(c)) + Lag(c)

(* A client never has more messages in flight than the largest RDY.        *)
RdyRespected == \A c \in clients : Cardinality(InFlightTo(c)) <= MaxRdyCount

(* tryUpdateReadyState may drop its token "because in the cases where you  *)
(* cannot the message pump loop would have iterated anyway": a pump that   *)
(* sleeps although its client is ready has a token waiting or coming.      *)
NoLostWakeup ==
  \A c \in clients :
    ppc[c] = "idle" /\ IsReadyForMessages(c) =>
      \/ token[c] \/ iopc[c] = "notify" \/ pausing
      \/ spc = "notify" /\ owner[sobj] = c

(* SUB must "avoid adding a client to an ephemeral channel which has       *)
(* started exiting": one that got in nevertheless has its connection       *)
(* closed, for exit() raises the flag before it looks at the clients and   *)
(* SUB looks at the flag after it has become one of them.                  *)
NoOrphanSubscriber ==
  Ephemeral /\ xpc \notin {"open", "clients"} =>
    \A c \in Clients : cstate[c] \in {"subscribed", "closing"} => c \in kicked

(* A channel closed after its clients are gone has every message it still  *)
(* owes in its backend.                                                    *)
QuietCloseKeepsAll ==
  xpc = "closed" /\ quiet /\ ~Ephemeral /\ ~BackendFails =>
    \A m \in Msgs : fate[m] = "live" => backend[m] > 0

-----------------------------------------------------------------------------
(* The scan worker and the goroutines in the middle of an operation are    *)
(* eventually scheduled.  An expired entry cannot be passed over for ever: *)
(* its priority is fixed while those of later entries grow.                *)
Fairness ==
  /\ WF_vars(Scan) /\ WF_vars(TopicAddToDeferredPQ)
  /\ \A o \in Objs : SF_vars(ScanShift(o)) /\ SF_vars(ScanShiftDeferred(o))
  /\ \A c \in Clients : WF_vars(PumpAdd(c)) /\ WF_vars(IoDeferPQ(c))
FairSpec == Spec /\ Fairness

(* A message in flight to a client that has disconnected is requeued: the  *)
(* client's unanswered messages are not stuck with it.                     *)
GoneClientReturns ==
  \A c \in Clients, m \in Msgs :
    (cstate[c] = "gone" /\ m \in InFlightTo(c)) ~> (m \notin InFlightTo(c))

(* A deferred message is put back into the queue.                          *)
DeferredReturns == \A m \in Msgs : (deferred[m] # NoObj) ~> (deferred[m] = NoObj)
=============================================================================
