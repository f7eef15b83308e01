------------------------------ MODULE NsqTopic ------------------------------
(***************************************************************************)
(* One topic of nsqd: src/nsq-master/nsqd/topic.go.                        *)
(*                                                                         *)
(* Publishers put messages into the topic's memory queue, or into its      *)
(* backend when the memory queue is full.  The goroutine messagePump takes *)
(* them out and gives each one to every channel of `chans', its private    *)
(* copy of channelMap.  GetChannel and DeleteExistingChannel change        *)
(* channelMap under the topic's lock and then tell the pump, which may     *)
(* meanwhile be working with an old copy; doPause stores a flag and then   *)
(* tells the pump; exit closes or deletes the topic while all of that is   *)
(* going on.                                                               *)
(*                                                                         *)
(* A channel is represented by what the topic sees of it: whether it has   *)
(* been told to exit and which messages it accepted (NsqChannel models     *)
(* what it then does with them).  The write side of the topic's lock is    *)
(* only ever held inside one action; its read side is held by a publisher  *)
(* from its exit check to its last put.                                    *)
(***************************************************************************)
EXTENDS Naturals, Sequences, FiniteSets, SequencesExt

CONSTANTS
  NMsgs,          \* messages 1..NMsgs are published, in this order (bound)
  Names,          \* channel names
  MaxChans,       \* channel objects 1..MaxChans may be created (bound)
  Publishers,     \* goroutines that publish (PUB, MPUB, DPUB)
  Callers,        \* goroutines that call the topic's other operations
  MaxCalls,       \* how many such calls are made (bound)
  Calls,          \* which of them: subset of {"get", "delete", "pause", "empty"}
  MemQueueSize,   \* options.go: MemQueueSize
  BackendFails,   \* TRUE when a backend write may fail or a read be corrupt
  ExitModes       \* subset of {"close", "delete"}: how the topic may exit

ASSUME TopicAssumption ==
  /\ NMsgs \in Nat /\ MaxChans \in Nat /\ MaxCalls \in Nat
  /\ MemQueueSize \in Nat /\ BackendFails \in BOOLEAN
  /\ Calls \subseteq {"get", "delete", "pause", "empty"}
  /\ ExitModes \subseteq {"close", "delete"}

Ids     == 1..NMsgs
Chans   == 1..MaxChans
NoChan  == 0
Message == [id : Ids, deferred : BOOLEAN]
NoMsg   == [id |-> 0, deferred |-> FALSE]

VARIABLES
  ephemeral,      \* the name ends in #ephemeral
  channelMap,     \* [Names -> Chans \cup {NoChan}]
  made,           \* how many channel objects were created
  gone,           \* channels whose exitFlag is set
  memoryMsgChan,  \* the memory queue, a sequence of messages
  backend,        \* the backend queue, a sequence of ids: no more is encoded
  paused,
  messageCount,
  startChan,      \* Start()'s token: "unsent", "sent", "taken"
  ppc,            \* messagePump: "prestart", "snap", "arm", "select", "deliver", "exited"
  chans,          \* the pump's copy of the channel map
  armed,          \* the pump's local memoryMsgChan and backendChan are not nil
  msg,            \* the message in the pump's hands
  todo,           \* channels of `chans' its loop has still to serve
  pub,            \* [Publishers -> [pc, batch, i]]: PutMessages
  call,           \* [Callers -> [pc, chan, last]]: the other operations
  ncalls,
  xpc,            \* exit(): "none", "flagged", "waiting", "range", "flush", "done"
  xmode,          \* "close" or "delete"
  due,            \* channels the unlocked range over channelMap has still to close
  deleter         \* the ephemeral topic's deleter goroutine was started

VARIABLES         \* history, for the properties
  next,           \* the next message to be published
  accepted,       \* messages put without an error
  dpub,           \* messages published with a deferral
  spilled,        \* messages that were written to the backend
  known,          \* channels whose creating GetChannel has returned
  ready,          \* [Ids -> SUBSET Chans]: `known' when the message was published
  now, later,     \* [Chans -> SUBSET Ids]: accepted at once, accepted deferred
  delivered,      \* messages the pump has offered to all of `chans'
  thrown          \* messages emptied, undecodable, or refused by a backend after acceptance

queueVars == <<memoryMsgChan, backend>>
mapVars   == <<channelMap, made, gone>>
pumpVars  == <<ppc, chans, armed, msg, todo>>
callVars  == <<call, ncalls>>
exitVars  == <<xpc, xmode, due, deleter>>
pubHist   == <<next, accepted, dpub, spilled, ready>>
pumpHist  == <<now, later, delivered>>
vars == <<ephemeral, mapVars, queueVars, paused, messageCount, startChan, pumpVars,
          pub, callVars, exitVars, pubHist, known, pumpHist, thrown>>

Idle   == [pc |-> "idle", chan |-> NoChan, last |-> FALSE]
Silent == [pc |-> "idle", batch |-> <<>>, i |-> 0]

InMap      == {channelMap[n] : n \in Names} \ {NoChan}
Exiting    == xpc # "none"
ExitChan   == xpc \notin {"none", "flagged"}                 \* exitChan is closed
ReadLocked == \E p \in Publishers : pub[p].pc = "putting"    \* someone holds the RLock

\* NewTopic; GetTopic has yet to call Start().
Init ==
  /\ ephemeral \in BOOLEAN
  /\ channelMap = [n \in Names |-> NoChan] /\ made = 0 /\ gone = {}
  /\ memoryMsgChan = <<>> /\ backend = <<>>
  /\ paused = FALSE /\ messageCount = 0 /\ startChan = "unsent"
  /\ ppc = "prestart" /\ chans = {} /\ armed = FALSE /\ msg = NoMsg /\ todo = {}
  /\ pub = [p \in Publishers |-> Silent]
  /\ call = [c \in Callers |-> Idle] /\ ncalls = 0
  /\ xpc = "none" /\ xmode = "none" /\ due = {} /\ deleter = FALSE
  /\ next = 1 /\ accepted = {} /\ dpub = {} /\ spilled = {} /\ known = {}
  /\ ready = [m \in Ids |-> {}]
  /\ now = [o \in Chans |-> {}] /\ later = [o \in Chans |-> {}]
  /\ delivered = {} /\ thrown = {}

-----------------------------------------------------------------------------
(* Publishing: PutMessage, PutMessages, put.                               *)

\* PUB puts one message, DPUB one deferred message, MPUB k of them.  The read
\* lock is taken and exitFlag read; an exiting topic refuses the whole batch.
PutMessages(p, k, d) ==
  /\ pub[p].pc = "idle"
  /\ next + k - 1 \in Ids
  /\ next' = next + k
  /\ ~ Exiting
  /\ pub' = [pub EXCEPT ![p] =
               [pc |-> "putting", i |-> 0,
                batch |-> [j \in 1..k |-> [id |-> next + j - 1, deferred |-> d]]]]
  /\ ready' = [m \in Ids |-> IF m \in next..(next + k - 1) THEN known ELSE ready[m]]
  /\ dpub' = IF d THEN dpub \cup {next} ELSE dpub
  /\ UNCHANGED <<ephemeral, mapVars, queueVars, paused, messageCount, startChan, pumpVars,
                 callVars, exitVars, accepted, spilled, known, pumpHist, thrown>>

PutMessagesExiting(p) ==
  /\ pub[p].pc = "idle"
  /\ next \in Ids
  /\ Exiting
  /\ next' = next + 1
  /\ UNCHANGED <<ephemeral, mapVars, queueVars, paused, messageCount, startChan, pumpVars, pub,
                 callVars, exitVars, accepted, dpub, spilled, ready, known, pumpHist, thrown>>

\* The counter is raised and the lock released after the last put, or after the
\* put that failed, with the number of messages put so far.
Counted(p, n) ==
  /\ pub' = [pub EXCEPT ![p] = Silent]
  /\ messageCount' = messageCount + n

PutNext(p) ==
  LET b == pub[p] IN
  IF b.i + 1 = Len(b.batch)
    THEN Counted(p, Len(b.batch))
    ELSE pub' = [pub EXCEPT ![p].i = b.i + 1] /\ UNCHANGED messageCount

PutUnchanged == UNCHANGED <<ephemeral, mapVars, paused, startChan, pumpVars, callVars,
                            exitVars, next, dpub, ready, known, pumpHist>>

\* Mutant: one message more than the queue holds.
PutMemoryOneMore(p) ==
  LET m == pub[p].batch[pub[p].i + 1] IN
  /\ pub[p].pc = "putting"
  /\ Len(memoryMsgChan) <= MemQueueSize
  /\ memoryMsgChan' = Append(memoryMsgChan, m)
  /\ accepted' = accepted \cup {m.id}
  /\ PutNext(p)
  /\ UNCHANGED <<backend, spilled, thrown>> /\ PutUnchanged

\* Mutant: the backend is written although the memory queue took the message.
PutMemoryBoth(p) ==
  LET m == pub[p].batch[pub[p].i + 1] IN
  /\ pub[p].pc = "putting"
  /\ Len(memoryMsgChan) < MemQueueSize
  /\ memoryMsgChan' = Append(memoryMsgChan, m)
  /\ backend' = Append(backend, m.id)
  /\ accepted' = accepted \cup {m.id}
  /\ PutNext(p)
  /\ UNCHANGED <<spilled, thrown>> /\ PutUnchanged

PutMemory(p) ==
  LET m == pub[p].batch[pub[p].i + 1] IN
  /\ pub[p].pc = "putting"
  /\ Len(memoryMsgChan) < MemQueueSize
  /\ memoryMsgChan' = Append(memoryMsgChan, m)
  /\ accepted' = accepted \cup {m.id}
  /\ PutNext(p)
  /\ UNCHANGED <<backend, spilled, thrown>> /\ PutUnchanged

\* The memory queue is full: the message is encoded, without its deferral, and
\* written to the backend.  An ephemeral topic's backend takes it and forgets it.
PutBackend(p) ==
  LET m == pub[p].batch[pub[p].i + 1] IN
  /\ pub[p].pc = "putting"
  /\ Len(memoryMsgChan) >= MemQueueSize
  /\ ephemeral \/ xpc # "done"
  /\ backend' = IF ephemeral THEN backend ELSE Append(backend, m.id)
  /\ thrown' = IF ephemeral THEN thrown \cup {m.id} ELSE thrown
  /\ accepted' = accepted \cup {m.id}
  /\ spilled' = spilled \cup {m.id}
  /\ PutNext(p)
  /\ UNCHANGED memoryMsgChan /\ PutUnchanged

\* Mutant: a failed batch is counted in full.
PutFailsCountsAll(p) ==
  /\ pub[p].pc = "putting"
  /\ Len(memoryMsgChan) >= MemQueueSize
  /\ ~ ephemeral
  /\ BackendFails \/ xpc = "done"
  /\ Counted(p, Len(pub[p].batch))
  /\ UNCHANGED <<queueVars, accepted, spilled, thrown>> /\ PutUnchanged

\* The backend refuses: the disk fails, or exit() has closed the queue.
PutFails(p) ==
  /\ pub[p].pc = "putting"
  /\ Len(memoryMsgChan) >= MemQueueSize
  /\ ~ ephemeral
  /\ BackendFails \/ xpc = "done"
  /\ Counted(p, pub[p].i)
  /\ UNCHANGED <<queueVars, accepted, spilled, thrown>> /\ PutUnchanged

-----------------------------------------------------------------------------
(* The channel map: GetChannel, DeleteExistingChannel.                     *)

\* What a call leaves alone when it only moves itself along.
CallUnchanged == UNCHANGED <<ephemeral, queueVars, messageCount, startChan, pub,
                             xpc, xmode, due, pubHist, pumpHist, thrown>>

Begin(c, op) == call[c].pc = "idle" /\ op \in Calls /\ ncalls < MaxCalls /\ ncalls' = ncalls + 1

\* Mutant: the pump is not told of the new channel.
GetChannelSilent(c, n) ==
  /\ Begin(c, "get")
  /\ ~ ReadLocked
  /\ channelMap[n] = NoChan /\ made < MaxChans
  /\ made' = made + 1
  /\ channelMap' = [channelMap EXCEPT ![n] = made + 1]
  /\ known' = known \cup {made + 1}
  /\ UNCHANGED <<call, gone, paused, pumpVars, deleter>> /\ CallUnchanged

\* GetChannel creates the channel under the lock, then waits at its select.  (A
\* channel that exists is returned at once, and nothing changes.)
GetChannel(c, n) ==
  /\ Begin(c, "get")
  /\ ~ ReadLocked
  /\ channelMap[n] = NoChan /\ made < MaxChans
  /\ made' = made + 1
  /\ channelMap' = [channelMap EXCEPT ![n] = made + 1]
  /\ call' = [call EXCEPT ![c] = [pc |-> "created", chan |-> made + 1, last |-> FALSE]]
  /\ UNCHANGED <<gone, paused, pumpVars, known, deleter>> /\ CallUnchanged

\* DeleteExistingChannel takes the channel out of the map under the lock ...
RemoveChannel(c, n) ==
  LET left == InMap \ {channelMap[n]} IN
  /\ Begin(c, "delete")
  /\ ~ ReadLocked
  /\ channelMap[n] # NoChan
  /\ channelMap' = [channelMap EXCEPT ![n] = NoChan]
  /\ call' = [call EXCEPT ![c] = [pc |-> "removed", chan |-> channelMap[n], last |-> left = {}]]
  /\ UNCHANGED <<made, gone, paused, pumpVars, known, deleter>> /\ CallUnchanged

\* Mutant: the pump is not told of the deletion.
DeleteChannelSilent(c) ==
  /\ call[c].pc = "removed"
  /\ gone' = gone \cup {call[c].chan}
  /\ call' = [call EXCEPT ![c] = Idle]
  /\ UNCHANGED <<ncalls, channelMap, made, paused, pumpVars, known, deleter>> /\ CallUnchanged

\* ... deletes it, which empties it and makes it refuse messages ...
DeleteChannel(c) ==
  /\ call[c].pc = "removed"
  /\ gone' = gone \cup {call[c].chan}
  /\ call' = [call EXCEPT ![c].pc = "deleted"]
  /\ UNCHANGED <<ncalls, channelMap, made, paused, pumpVars, known, deleter>> /\ CallUnchanged

\* ... and waits at its own select.  Both selects end here, and the last channel
\* of an ephemeral topic takes the topic with it.
Return(c) ==
  /\ call' = [call EXCEPT ![c] = Idle]
  /\ known' = IF call[c].pc = "created" THEN known \cup {call[c].chan} ELSE known
  /\ deleter' = (deleter \/ (ephemeral /\ call[c].pc = "deleted" /\ call[c].last))
  /\ UNCHANGED <<ncalls, mapVars, paused>> /\ CallUnchanged

\* Mutant: the update is received but the map is not copied again.
UpdatePumpStale(c) ==
  /\ call[c].pc \in {"created", "deleted"}
  /\ ppc \in {"prestart", "select"}
  /\ ppc' = IF ppc = "select" THEN "arm" ELSE ppc
  /\ UNCHANGED <<chans, armed, msg, todo>>
  /\ Return(c)

\* The pump receives from channelUpdateChan; before Start() it ignores the news.
UpdatePump(c) ==
  /\ call[c].pc \in {"created", "deleted"}
  /\ ppc \in {"prestart", "select"}
  /\ ppc' = IF ppc = "select" THEN "snap" ELSE ppc
  /\ UNCHANGED <<chans, armed, msg, todo>>
  /\ Return(c)

\* doPause stores the flag, then waits for the pump to take the news.
DoPause(c, pause) ==
  /\ Begin(c, "pause")
  /\ paused' = pause
  /\ call' = [call EXCEPT ![c] = [Idle EXCEPT !.pc = "pausing"]]
  /\ UNCHANGED <<mapVars, pumpVars, known, deleter>> /\ CallUnchanged

\* Mutant: the pump takes the news and leaves its queues as they were.
PausePumpIgnored(c) ==
  /\ call[c].pc = "pausing"
  /\ ppc \in {"prestart", "select"}
  /\ UNCHANGED pumpVars
  /\ Return(c)

PausePump(c) ==
  /\ call[c].pc = "pausing"
  /\ ppc \in {"prestart", "select"}
  /\ ppc' = IF ppc = "select" THEN "arm" ELSE ppc
  /\ UNCHANGED <<chans, armed, msg, todo>>
  /\ Return(c)

\* Mutant: doPause has no case for exitChan.
GiveUpNotPausing(c) ==
  /\ call[c].pc \in {"created", "deleted"}
  /\ ExitChan
  /\ UNCHANGED pumpVars
  /\ Return(c)

\* The other case of the three selects: exitChan is closed.
GiveUp(c) ==
  /\ call[c].pc \in {"created", "deleted", "pausing"}
  /\ ExitChan
  /\ UNCHANGED pumpVars
  /\ Return(c)

EmptyUnchanged == UNCHANGED <<ephemeral, mapVars, paused, messageCount, startChan, pumpVars, pub,
                              exitVars, pubHist, known, pumpHist>>

\* Empty, called by the HTTP interface, drains the memory queue one by one ...
EmptyBegin(c) ==
  /\ Begin(c, "empty")
  /\ call' = [call EXCEPT ![c] = [Idle EXCEPT !.pc = "emptying"]]
  /\ UNCHANGED <<queueVars, thrown>> /\ EmptyUnchanged

EmptyOne(c) ==
  /\ call[c].pc = "emptying" /\ memoryMsgChan # <<>>
  /\ memoryMsgChan' = Tail(memoryMsgChan)
  /\ thrown' = thrown \cup {Head(memoryMsgChan).id}
  /\ UNCHANGED <<callVars, backend>> /\ EmptyUnchanged

\* ... and then the backend (which refuses once it is closed).
EmptyEnd(c) ==
  /\ call[c].pc = "emptying" /\ memoryMsgChan = <<>>
  /\ IF xpc = "done" THEN UNCHANGED <<backend, thrown>>
                     ELSE backend' = <<>> /\ thrown' = thrown \cup ToSet(backend)
  /\ call' = [call EXCEPT ![c] = Idle]
  /\ UNCHANGED <<ncalls, memoryMsgChan>> /\ EmptyUnchanged

-----------------------------------------------------------------------------
(* messagePump.                                                            *)

PumpUnchanged == UNCHANGED <<ephemeral, mapVars, paused, messageCount, pub, callVars,
                             exitVars, pubHist, known>>

\* GetTopic calls Start() once the channels nsqlookupd knows of are created.
Start ==
  /\ startChan = "unsent"
  /\ startChan' = "sent"
  /\ UNCHANGED <<pumpVars, queueVars, pumpHist, thrown>> /\ PumpUnchanged

PumpStart ==
  /\ ppc = "prestart" /\ startChan = "sent"
  /\ startChan' = "taken" /\ ppc' = "snap"
  /\ UNCHANGED <<chans, armed, msg, todo, queueVars, pumpHist, thrown>> /\ PumpUnchanged

\* The map is copied under the read lock, after the update was received ...
PumpSnap ==
  /\ ppc = "snap"
  /\ chans' = InMap
  /\ ppc' = "arm"
  /\ UNCHANGED <<armed, msg, todo, startChan, queueVars, pumpHist, thrown>> /\ PumpUnchanged

\* ... and only then is paused read and the queues' cases switched on or off.
PumpArm ==
  /\ ppc = "arm"
  /\ armed' = (chans # {} /\ ~ paused)
  /\ ppc' = "select"
  /\ UNCHANGED <<chans, msg, todo, startChan, queueVars, pumpHist, thrown>> /\ PumpUnchanged

Take(m) == msg' = m /\ todo' = chans /\ ppc' = "deliver"

PumpMemory ==
  /\ ppc = "select" /\ armed /\ memoryMsgChan # <<>>
  /\ memoryMsgChan' = Tail(memoryMsgChan)
  /\ Take(Head(memoryMsgChan))
  /\ UNCHANGED <<backend, chans, armed, startChan, pumpHist, thrown>> /\ PumpUnchanged

\* decodeMessage gives back a message without a deferral.
PumpBackend ==
  /\ ppc = "select" /\ armed /\ backend # <<>>
  /\ backend' = Tail(backend)
  /\ Take([id |-> Head(backend), deferred |-> FALSE])
  /\ UNCHANGED <<memoryMsgChan, chans, armed, startChan, pumpHist, thrown>> /\ PumpUnchanged

PumpCorrupt ==
  /\ ppc = "select" /\ armed /\ backend # <<>> /\ BackendFails
  /\ backend' = Tail(backend)
  /\ thrown' = thrown \cup {Head(backend)}
  /\ UNCHANGED <<pumpVars, memoryMsgChan, startChan, pumpHist>> /\ PumpUnchanged

\* Mutant: the copies for the other channels lose the deferral.
CopyForgets(m, first) ==
  IF first THEN m ELSE [id |-> m.id, deferred |-> FALSE]

\* The first channel gets the message itself, the others a copy of it.
Copy(m, first) ==
  IF first THEN m ELSE [id |-> m.id, deferred |-> m.deferred]

\* One turn of the loop.  PutMessage refuses when the channel is exiting, which
\* the pump only logs; PutMessageDeferred does not ask.
Deliver(o) ==
  LET m == Copy(msg, todo = chans) IN
  /\ ppc = "deliver" /\ o \in todo
  /\ todo' = todo \ {o}
  /\ IF m.deferred
       THEN later' = [later EXCEPT ![o] = @ \cup {m.id}] /\ UNCHANGED now
       ELSE /\ now' = IF o \in gone THEN now ELSE [now EXCEPT ![o] = @ \cup {m.id}]
            /\ UNCHANGED later
  /\ IF todo = {o}
       THEN ppc' = "select" /\ msg' = NoMsg /\ delivered' = delivered \cup {m.id}
       ELSE UNCHANGED <<ppc, msg, delivered>>
  /\ UNCHANGED <<chans, armed, queueVars, startChan, thrown>> /\ PumpUnchanged

PumpExit ==
  /\ ppc \in {"prestart", "select"} /\ ExitChan
  /\ ppc' = "exited"
  /\ UNCHANGED <<chans, armed, msg, todo, queueVars, startChan, pumpHist, thrown>> /\ PumpUnchanged

-----------------------------------------------------------------------------
(* Exit: Close, Delete, exit, flush.                                       *)

ExitUnchanged == UNCHANGED <<ephemeral, paused, messageCount, startChan, pumpVars, pub, callVars,
                             next, accepted, dpub, ready, known, pumpHist, deleter>>

\* The compare-and-swap: only one exit goes on.
ExitFlag(mode) ==
  /\ xpc = "none"
  /\ mode \in ExitModes \/ (mode = "delete" /\ deleter)
  /\ xpc' = "flagged" /\ xmode' = mode
  /\ UNCHANGED <<due, mapVars, queueVars, spilled, thrown>> /\ ExitUnchanged

CloseExitChan ==
  /\ xpc = "flagged"
  /\ xpc' = "waiting"
  /\ UNCHANGED <<xmode, due, mapVars, queueVars, spilled, thrown>> /\ ExitUnchanged

\* Mutant: the lock is not taken.
DeleteChannelsUnlocked ==
  /\ xpc = "waiting" /\ ppc = "exited" /\ xmode = "delete"
  /\ gone' = gone \cup InMap
  /\ channelMap' = [n \in Names |-> NoChan]
  /\ xpc' = "flush"
  /\ UNCHANGED <<xmode, due, made, queueVars, spilled, thrown>> /\ ExitUnchanged

\* Delete: under the lock every channel leaves the map and is deleted.
DeleteChannels ==
  /\ xpc = "waiting" /\ ppc = "exited" /\ xmode = "delete"
  /\ ~ ReadLocked
  /\ gone' = gone \cup InMap
  /\ channelMap' = [n \in Names |-> NoChan]
  /\ xpc' = "flush"
  /\ UNCHANGED <<xmode, due, made, queueVars, spilled, thrown>> /\ ExitUnchanged

\* Empty, and the backend's files are deleted.
DeleteQueues ==
  /\ xpc = "flush" /\ xmode = "delete"
  /\ memoryMsgChan' = <<>> /\ backend' = <<>>
  /\ thrown' = thrown \cup ToSet(backend) \cup {m.id : m \in ToSet(memoryMsgChan)}
  /\ xpc' = "done"
  /\ UNCHANGED <<xmode, due, mapVars, spilled>> /\ ExitUnchanged

\* Close: the range over channelMap, without the lock.  It closes what was in the
\* map when it began and is still there, and whatever of the rest it happens on.
RangeBegin ==
  /\ xpc = "waiting" /\ ppc = "exited" /\ xmode = "close"
  /\ xpc' = "range" /\ due' = InMap
  /\ UNCHANGED <<xmode, mapVars, queueVars, spilled, thrown>> /\ ExitUnchanged

RangeClose(n) ==
  /\ xpc = "range"
  /\ channelMap[n] \notin gone \cup {NoChan}
  /\ gone' = gone \cup {channelMap[n]}
  /\ due' = due \ {channelMap[n]}
  /\ UNCHANGED <<xpc, xmode, channelMap, made, queueVars, spilled, thrown>> /\ ExitUnchanged

RangeEnd ==
  /\ xpc = "range"
  /\ due \cap InMap \subseteq gone
  /\ xpc' = "flush" /\ due' = {}
  /\ UNCHANGED <<xmode, mapVars, queueVars, spilled, thrown>> /\ ExitUnchanged

\* flush writes the memory queue to the backend; a failed write is only logged.
FlushOne(ok) ==
  LET m == Head(memoryMsgChan).id IN
  /\ xpc = "flush" /\ xmode = "close" /\ memoryMsgChan # <<>>
  /\ ok \/ BackendFails \/ ephemeral
  /\ ok => ~ ephemeral
  /\ memoryMsgChan' = Tail(memoryMsgChan)
  /\ backend' = IF ok THEN Append(backend, m) ELSE backend
  /\ spilled' = spilled \cup {m}
  /\ thrown' = IF ok THEN thrown ELSE thrown \cup {m}
  /\ UNCHANGED <<xpc, xmode, due, mapVars>> /\ ExitUnchanged

FlushEnd ==
  /\ xpc = "flush" /\ xmode = "close" /\ memoryMsgChan = <<>>
  /\ xpc' = "done"
  /\ UNCHANGED <<xmode, due, mapVars, queueVars, spilled, thrown>> /\ ExitUnchanged

-----------------------------------------------------------------------------
Publish(p) ==
  \/ \E k \in 1..2 : PutMessages(p, k, FALSE)
  \/ PutMessages(p, 1, TRUE)
  \/ PutMessagesExiting(p)

Put(p) == PutMemory(p) \/ PutBackend(p) \/ PutFails(p)

NewCall(c) ==
  \/ \E n \in Names : GetChannel(c, n) \/ RemoveChannel(c, n)
  \/ \E pause \in BOOLEAN : DoPause(c, pause)
  \/ EmptyBegin(c)

Continue(c) ==
  \/ DeleteChannel(c) \/ UpdatePump(c) \/ PausePump(c) \/ GiveUp(c)
  \/ EmptyOne(c) \/ EmptyEnd(c)

MessagePump ==
  \/ PumpStart \/ PumpSnap \/ PumpArm \/ PumpMemory \/ PumpBackend \/ PumpCorrupt
  \/ \E o \in Chans : Deliver(o)
  \/ PumpExit

Exit ==
  \/ CloseExitChan \/ DeleteChannels \/ DeleteQueues
  \/ RangeBegin \/ (\E n \in Names : RangeClose(n)) \/ RangeEnd
  \/ (\E ok \in BOOLEAN : FlushOne(ok)) \/ FlushEnd

\* Nothing is left to do: every call has returned and the pump waits or is gone.
Quiet ==
  /\ \A p \in Publishers : pub[p].pc = "idle"
  /\ \A c \in Callers : call[c].pc = "idle"
  /\ xpc \in {"none", "done"}
  /\ ppc \in {"select", "exited"}
  /\ UNCHANGED vars

Next ==
  \/ \E p \in Publishers : Publish(p) \/ Put(p)
  \/ \E c \in Callers : NewCall(c) \/ Continue(c)
  \/ Start \/ MessagePump
  \/ (\E mode \in {"close", "delete"} : ExitFlag(mode)) \/ Exit
  \/ Quiet

Spec == Init /\ [][Next]_vars

\* Goroutines that can run do run: the pump, a call that has begun, an exit that
\* has begun, and GetTopic on its way to Start().  Nobody has to call anything.
FairSpec ==
  /\ Spec
  /\ WF_vars(Start) /\ WF_vars(MessagePump) /\ WF_vars(Exit)
  /\ \A p \in Publishers : WF_vars(Put(p))
  /\ \A c \in Callers : WF_vars(Continue(c))

-----------------------------------------------------------------------------
(* Properties.                                                             *)

\* Every variable has its type: the queues hold what put gave them, and the
\* counters stay inside their bounds.
TypeOK ==
  /\ ephemeral \in BOOLEAN /\ paused \in BOOLEAN /\ armed \in BOOLEAN /\ deleter \in BOOLEAN
  /\ channelMap \in [Names -> Chans \cup {NoChan}] /\ made \in 0..MaxChans
  /\ gone \subseteq 1..made /\ chans \subseteq 1..made /\ todo \subseteq chans
  /\ due \subseteq 1..made /\ known \subseteq 1..made
  /\ memoryMsgChan \in Seq(Message) /\ Len(memoryMsgChan) <= MemQueueSize
  /\ backend \in Seq(Ids)
  /\ messageCount \in Nat /\ startChan \in {"unsent", "sent", "taken"}
  /\ ppc \in {"prestart", "snap", "arm", "select", "deliver", "exited"}
  /\ msg \in Message \cup {NoMsg}
  /\ pub \in [Publishers -> [pc : {"idle", "putting"}, batch : Seq(Message), i : Nat]]
  /\ \A p \in Publishers : pub[p].pc = "putting" => pub[p].i < Len(pub[p].batch)
  /\ call \in [Callers -> [pc : {"idle", "created", "removed", "deleted", "pausing", "emptying"},
                           chan : Chans \cup {NoChan}, last : BOOLEAN]]
  /\ ncalls \in 0..MaxCalls
  /\ xpc \in {"none", "flagged", "waiting", "range", "flush", "done"}
  /\ xmode \in {"none", "close", "delete"}
  /\ next \in 1..(NMsgs + 1)
  /\ accepted \subseteq Ids /\ dpub \subseteq Ids /\ spilled \subseteq Ids
  /\ delivered \subseteq Ids /\ thrown \subseteq Ids
  /\ ready \in [Ids -> SUBSET Chans]
  /\ now \in [Chans -> SUBSET Ids] /\ later \in [Chans -> SUBSET Ids]

\* The pump's private copy of the channel map is out of date only while a call
\* that is going to tell it has not returned: a channel it does not serve yet has
\* its GetChannel at the select, and a channel it still serves although it left
\* the map has its DeleteExistingChannel before or at the select.
PumpSeesMap ==
  ppc \in {"arm", "select", "deliver"} /\ ~ ExitChan =>
    /\ \A o \in InMap \ chans : \E c \in Callers : call[c].pc = "created" /\ call[c].chan = o
    /\ \A o \in chans \ InMap :
         \E c \in Callers : call[c].pc \in {"removed", "deleted"} /\ call[c].chan = o

\* A message published after GetChannel had created a channel and returned is
\* given to that channel, unless the channel is being deleted or closed.
NoMissedChannel ==
  \A m \in delivered : \A o \in ready[m] :
    m \in now[o] \cup later[o] \/ o \in gone \/ o \notin InMap

\* A message that no channel accepted although the pump offered it was offered
\* while DeleteExistingChannel was on its way, or while the topic was exiting:
\* once a deletion has returned, messages wait in the topic for a channel.
LostOnlyUnderDelete ==
  [][\A m \in delivered' \ delivered :
       \/ \E o \in Chans : m \in now'[o] \cup later'[o]
       \/ \E c \in Callers : call[c].pc \in {"removed", "deleted"}
       \/ ExitChan]_vars

\* A deferred message is put into a channel for immediate delivery only if it
\* went through the backend, which does not keep the deferral; whatever the
\* number of channels, all of them see the message the same way.
DeferralKept ==
  \A o \in Chans :
    /\ now[o] \cap dpub \subseteq spilled
    /\ later[o] \subseteq dpub
    /\ \A q \in Chans : now[o] \cap later[q] = {}

\* messageCount is the number of messages accepted, also when a batch failed half
\* way through, whenever no batch is under way.
CountIsAccepted ==
  ~ ReadLocked => messageCount = Cardinality(accepted)

\* Every accepted message is in exactly one place: the memory queue, the backend,
\* the pump's hands, offered to the channels, or thrown away.
Accounted ==
  \A m \in accepted :
    Cardinality({i \in DOMAIN memoryMsgChan : memoryMsgChan[i].id = m})
    + Cardinality({i \in DOMAIN backend : backend[i] = m})
    + Cardinality({m} \cap ({msg.id} \cup delivered)) + Cardinality({m} \cap thrown) = 1

\* After Delete no message is left in the topic, whoever was publishing.
DeleteLeavesNothing ==
  xpc = "done" /\ xmode = "delete" => memoryMsgChan = <<>> /\ backend = <<>>

\* GetChannel, DeleteExistingChannel, doPause and Empty return: their selects
\* wait for the pump or for exitChan, never for ever.
CallsReturn == \A c \in Callers : call[c].pc # "idle" ~> call[c].pc = "idle"

\* A queued message is taken from the topic unless the topic is paused, has no
\* channel or exits: no update or pause leaves the pump asleep.
Drains ==
  \A m \in Ids :
    (m \in ToSet(backend) \cup {x.id : x \in ToSet(memoryMsgChan)})
      ~> \/ m \notin ToSet(backend) \cup {x.id : x \in ToSet(memoryMsgChan)}
         \/ paused \/ InMap = {} \/ Exiting
=============================================================================
