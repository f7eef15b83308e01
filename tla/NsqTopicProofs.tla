--------------------------- MODULE NsqTopicProofs ---------------------------
(***************************************************************************)
(* What one topic of nsqd guarantees for every number of messages,         *)
(* publishers, callers and channels and every queue size.                  *)
(*                                                                         *)
(* The inductive invariant has one part for each thing the topic shares:   *)
(* the channel map with the pump's copy of it, the batches that are being  *)
(* put, the place of every message, its deferral, the offer that is being  *)
(* made to the channels, the counter, and the exit.                        *)
(***************************************************************************)
EXTENDS NsqTopic, FiniteSetTheorems, TLAPS

(* The channel map, and what the pump and the callers know of it.          *)
Pumping == ppc \in {"arm", "select", "deliver"}

ChansInv ==
  /\ \A n \in Names : channelMap[n] <= made
  /\ \A j, n \in Names : channelMap[j] = channelMap[n] => j = n \/ channelMap[n] = NoChan
  /\ \A c \in Callers :
       /\ call[c].pc \in {"created", "removed", "deleted"} => call[c].chan \in 1..made
       /\ call[c].pc \in {"removed", "deleted"} => call[c].chan \notin InMap
  /\ \A m \in Ids : ready[m] \subseteq 1..made
  /\ ~ExitChan => gone \cap InMap = {}

ServesInv ==
  /\ Pumping => \A m \in Ids : ready[m] \cap InMap \subseteq chans
  /\ Pumping /\ ~Exiting => known \cap InMap \subseteq chans

(* The batches: what has been put is accepted, what has not is not.        *)
Putting(p) == pub[p].pc = "putting"

BatchInv ==
  /\ \A p \in Publishers : Putting(p) =>
       \A j \in DOMAIN pub[p].batch :
         /\ pub[p].batch[j].id = pub[p].batch[1].id + j - 1
         /\ pub[p].batch[j].id < next
         /\ pub[p].batch[j].deferred <=> pub[p].batch[j].id \in dpub
         /\ pub[p].batch[j].id \in accepted <=> j <= pub[p].i
  /\ \A p, q \in Publishers : Putting(p) /\ Putting(q) /\ p # q =>
       \A j \in DOMAIN pub[p].batch, k \in DOMAIN pub[q].batch :
         pub[p].batch[j].id # pub[q].batch[k].id
  /\ \A m \in accepted \cup dpub : m < next

(* Every message is in at most one place, and in one if it is accepted.    *)
HasId(q, m)  == \E j \in DOMAIN q : q[j].id = m
Has(s, m)    == \E j \in DOMAIN s : s[j] = m
UniqueIds(q) == \A j, k \in DOMAIN q : q[j].id = q[k].id => j = k
Unique(s)    == \A j, k \in DOMAIN s : s[j] = s[k] => j = k

InMemory(m)  == HasId(memoryMsgChan, m)
InBackend(m) == Has(backend, m)

PlaceInv ==
  /\ UniqueIds(memoryMsgChan) /\ Unique(backend)
  /\ \A m \in Ids :
       /\ InMemory(m) => ~InBackend(m) /\ m # msg.id /\ m \notin delivered /\ m \notin thrown
       /\ InBackend(m) => m # msg.id /\ m \notin delivered /\ m \notin thrown
       /\ m = msg.id => m \notin delivered /\ m \notin thrown
       /\ m \in delivered => m \notin thrown
       /\ m \in accepted <=>
            InMemory(m) \/ InBackend(m) \/ m = msg.id \/ m \in delivered \/ m \in thrown
  /\ ppc = "deliver" => msg \in Message
  /\ ppc # "deliver" => msg = NoMsg /\ todo = {}

(* The deferral is lost in the backend, and nowhere else.                  *)
Kept(q) == \A j \in DOMAIN q : q[j].deferred <=> q[j].id \in dpub

DeferInv ==
  /\ Kept(memoryMsgChan)
  /\ \A m \in Ids : InBackend(m) => m \in spilled
  /\ msg.deferred => msg.id \in dpub
  /\ msg.id \in dpub => msg.deferred \/ msg.id \in spilled
  /\ \A o \in Chans : now[o] \cup later[o] \subseteq delivered \cup {msg.id}
  /\ \A o \in Chans : /\ msg.deferred => msg.id \notin now[o]
                      /\ ~msg.deferred => msg.id \notin later[o]
  /\ DeferralKept

(* The pump has offered its message to every channel it is not going to    *)
(* serve any more.                                                         *)
Served(m, o) == m \in now[o] \cup later[o] \/ o \in gone \/ o \notin InMap

OfferInv ==
  /\ NoMissedChannel
  /\ ppc = "deliver" => \A o \in ready[msg.id] : o \in todo \/ Served(msg.id, o)

(* The messages of the batches that have not been counted yet.             *)
UnderWay == {m \in Ids : \E p \in Publishers :
               Putting(p) /\ \E j \in 1..pub[p].i : pub[p].batch[j].id = m}

CountInv == messageCount = Cardinality(accepted \ UnderWay)

ExitInv ==
  /\ xpc = "range" => xmode = "close"
  /\ xpc \in {"flush", "done"} /\ xmode = "delete" => ~ReadLocked
  /\ DeleteLeavesNothing

IInv == /\ TypeOK /\ ChansInv /\ PumpSeesMap /\ ServesInv /\ BatchInv /\ PlaceInv
        /\ DeferInv /\ OfferInv /\ CountInv /\ ExitInv

-----------------------------------------------------------------------------
(* What is left alone, variable by variable.                               *)

PutKeeps ==
  UNCHANGED <<ephemeral, channelMap, made, gone, paused, startChan, ppc, chans, armed, msg, todo,
              call, ncalls, xpc, xmode, due, deleter, next, dpub, ready, known, now, later, delivered>>

LEMMA PutFrame ==
  PutUnchanged => PutKeeps
BY DEF PutUnchanged, mapVars, pumpVars, callVars, exitVars, pumpHist, PutKeeps

CallKeeps ==
  UNCHANGED <<ephemeral, memoryMsgChan, backend, messageCount, startChan, pub, xpc, xmode, due,
              next, accepted, dpub, spilled, ready, now, later, delivered, thrown>>

LEMMA CallFrame ==
  CallUnchanged => CallKeeps
BY DEF CallUnchanged, queueVars, pubHist, pumpHist, CallKeeps

EmptyKeeps ==
  UNCHANGED <<ephemeral, channelMap, made, gone, paused, messageCount, startChan, ppc, chans, armed,
              msg, todo, pub, xpc, xmode, due, deleter, next, accepted, dpub, spilled, ready, known,
              now, later, delivered>>

LEMMA EmptyFrame ==
  EmptyUnchanged => EmptyKeeps
BY DEF EmptyUnchanged, mapVars, pumpVars, exitVars, pubHist, pumpHist, EmptyKeeps

PumpKeeps ==
  UNCHANGED <<ephemeral, channelMap, made, gone, paused, messageCount, pub, call, ncalls, xpc, xmode,
              due, deleter, next, accepted, dpub, spilled, ready, known>>

LEMMA PumpFrame ==
  PumpUnchanged => PumpKeeps
BY DEF PumpUnchanged, mapVars, callVars, exitVars, pubHist, PumpKeeps

ExitKeeps ==
  UNCHANGED <<ephemeral, paused, messageCount, startChan, ppc, chans, armed, msg, todo, pub, call,
              ncalls, next, accepted, dpub, ready, known, now, later, delivered, deleter>>

LEMMA ExitFrame ==
  ExitUnchanged => ExitKeeps
BY DEF ExitUnchanged, pumpVars, callVars, pumpHist, ExitKeeps

AllKept ==
  UNCHANGED <<ephemeral, channelMap, made, gone, memoryMsgChan, backend, paused, messageCount, startChan,
              ppc, chans, armed, msg, todo, pub, call, ncalls, xpc, xmode, due, deleter, next, accepted,
              dpub, spilled, ready, known, now, later, delivered, thrown>>

LEMMA StutterFrame ==
  UNCHANGED vars => AllKept
BY DEF vars, mapVars, queueVars, pumpVars, callVars, exitVars, pubHist, pumpHist, AllKept

LEMMA PublishCases ==
  ASSUME NEW p \in Publishers, Publish(p)
  PROVE  \/ \E k \in 1..2, d \in BOOLEAN : PutMessages(p, k, d) /\ (d => k = 1)
         \/ PutMessagesExiting(p)
<1>1. 1 \in 1..2 /\ TRUE \in BOOLEAN /\ FALSE \in BOOLEAN
  OBVIOUS
<1>2. QED
  BY <1>1 DEF Publish

-----------------------------------------------------------------------------
(* Types.                                                                  *)

LEMMA InMapFacts ==
  ASSUME TypeOK
  PROVE  /\ InMap \subseteq Chans
         /\ \A o : o \in InMap <=> o # NoChan /\ \E n \in Names : channelMap[n] = o
         /\ Chans \subseteq Nat /\ NoChan \notin Chans /\ NoChan = 0
         /\ MaxChans \in Nat /\ made \in Nat /\ NMsgs \in Nat /\ Ids \subseteq Nat /\ 0 \notin Ids
BY TopicAssumption DEF TypeOK, InMap, NoChan, Chans, Ids

LEMMA PutMessagesType ==
  ASSUME TypeOK, NEW p \in Publishers, NEW k \in 1..2, NEW d \in BOOLEAN, PutMessages(p, k, d)
  PROVE  TypeOK'
<1> DEFINE b == [j \in 1..k |-> [id |-> next + j - 1, deferred |-> d]]
<1>1. next \in Nat /\ NMsgs \in Nat /\ next + k - 1 <= NMsgs /\ next >= 1 /\ next + k \in 1..(NMsgs + 1)
      /\ next \in Ids
  BY TopicAssumption DEF TypeOK, PutMessages, Ids
<1>2. b \in [1..k -> Message] /\ k \in Nat
  BY <1>1 DEF Message, Ids
<1>3. b \in Seq(Message) /\ Len(b) = k
  BY <1>2
<1>4. pub' = [pub EXCEPT ![p] = [pc |-> "putting", i |-> 0, batch |-> b]] /\ next' = next + k
      /\ ready' = [m \in Ids |-> IF m \in next..(next + k - 1) THEN known ELSE ready[m]]
      /\ dpub' = IF d THEN dpub \cup {next} ELSE dpub
  BY DEF PutMessages
<1> HIDE DEF b
<1>5. pub' \in [Publishers -> [pc : {"idle", "putting"}, batch : Seq(Message), i : Nat]]
      /\ \A q \in Publishers : pub'[q].pc = "putting" => pub'[q].i < Len(pub'[q].batch)
  BY <1>2, <1>3, <1>4 DEF TypeOK
<1>6. known \subseteq Chans
  BY TopicAssumption DEF TypeOK, Chans
<1>7. ready' \in [Ids -> SUBSET Chans] /\ dpub' \subseteq Ids
  BY <1>1, <1>4, <1>6 DEF TypeOK
<1>8. UNCHANGED <<ephemeral, channelMap, made, gone, memoryMsgChan, backend, paused, messageCount,
                  startChan, ppc, chans, armed, msg, todo, call, ncalls, xpc, xmode, due, deleter,
                  accepted, spilled, known, now, later, delivered, thrown>>
  BY DEF PutMessages, mapVars, queueVars, pumpVars, callVars, exitVars, pumpHist
<1>9. next' \in 1..(NMsgs + 1)
  BY <1>1, <1>4
<1>10. QED
  BY <1>5, <1>7, <1>8, <1>9 DEF TypeOK

(* What a put does to the publisher and to the counter.                    *)
LEMMA PutNextType ==
  ASSUME TypeOK, NEW p \in Publishers, pub[p].pc = "putting", PutNext(p) \/ Counted(p, pub[p].i)
  PROVE  /\ messageCount' \in Nat
         /\ pub' \in [Publishers -> [pc : {"idle", "putting"}, batch : Seq(Message), i : Nat]]
         /\ \A q \in Publishers : pub'[q].pc = "putting" => pub'[q].i < Len(pub'[q].batch)
         /\ pub[p].batch[pub[p].i + 1] \in Message
<1>1. pub[p].batch \in Seq(Message) /\ pub[p].i \in Nat /\ pub[p].i < Len(pub[p].batch) /\ messageCount \in Nat
  BY DEF TypeOK
<1>2. Len(pub[p].batch) \in Nat /\ pub[p].i + 1 \in 1..Len(pub[p].batch)
  BY <1>1
<1>3. pub[p].batch[pub[p].i + 1] \in Message
  BY <1>1, <1>2
<1>4. Silent \in [pc : {"idle", "putting"}, batch : Seq(Message), i : Nat] /\ Silent.pc = "idle"
  BY DEF Silent
<1>5. CASE pub' = [pub EXCEPT ![p] = Silent] /\ messageCount' \in {messageCount + pub[p].i, messageCount + Len(pub[p].batch)}
  <2>1. messageCount' \in Nat
    BY <1>1, <1>2, <1>5
  <2>2. pub' \in [Publishers -> [pc : {"idle", "putting"}, batch : Seq(Message), i : Nat]]
    BY <1>4, <1>5 DEF TypeOK
  <2>3. \A q \in Publishers : pub'[q].pc = "putting" => pub'[q].i < Len(pub'[q].batch)
    BY <1>4, <1>5 DEF TypeOK
  <2>4. QED
    BY <1>3, <2>1, <2>2, <2>3
<1>6. CASE /\ pub[p].i + 1 # Len(pub[p].batch) /\ pub' = [pub EXCEPT ![p].i = pub[p].i + 1]
           /\ messageCount' = messageCount
  <2>1. pub[p].i + 1 < Len(pub[p].batch)
    BY <1>1, <1>2, <1>6
  <2>2. pub \in [Publishers -> [pc : {"idle", "putting"}, batch : Seq(Message), i : Nat]]
        /\ \A q \in Publishers : pub[q].pc = "putting" => pub[q].i < Len(pub[q].batch)
    BY DEF TypeOK
  <2>3. [pub[p] EXCEPT !.i = pub[p].i + 1] \in [pc : {"idle", "putting"}, batch : Seq(Message), i : Nat]
    <3>1. pub[p].i + 1 \in Nat /\ pub[p] \in [pc : {"idle", "putting"}, batch : Seq(Message), i : Nat]
      BY <1>1, <2>2
    <3>2. QED
      BY ONLY <3>1
  <2>4. pub' = [pub EXCEPT ![p] = [pub[p] EXCEPT !.i = pub[p].i + 1]]
    BY <1>6
  <2>5. pub' \in [Publishers -> [pc : {"idle", "putting"}, batch : Seq(Message), i : Nat]]
    BY ONLY <2>2, <2>3, <2>4
  <2>6. \A q \in Publishers : pub'[q].pc = "putting" => pub'[q].i < Len(pub'[q].batch)
    BY ONLY <2>1, <2>2, <2>4
  <2>7. QED
    BY <1>1, <1>3, <1>6, <2>5, <2>6
<1>7. QED
  BY <1>5, <1>6 DEF PutNext, Counted

(* A put writes the two queues, the counter, its publisher and three of the *)
(* histories: with their types kept, every type is.                        *)
LEMMA PutKeepsTypes ==
  ASSUME TypeOK, PutUnchanged, messageCount' \in Nat,
         pub' \in [Publishers -> [pc : {"idle", "putting"}, batch : Seq(Message), i : Nat]],
         \A q \in Publishers : pub'[q].pc = "putting" => pub'[q].i < Len(pub'[q].batch),
         memoryMsgChan' \in Seq(Message), Len(memoryMsgChan') <= MemQueueSize, backend' \in Seq(Ids),
         accepted' \subseteq Ids, spilled' \subseteq Ids, thrown' \subseteq Ids
  PROVE  TypeOK'
<1>1. UNCHANGED <<ephemeral, channelMap, made, gone, paused, startChan, ppc, chans, armed, msg, todo>>
  BY DEF PutUnchanged, mapVars, pumpVars
<1>2. UNCHANGED <<call, ncalls, xpc, xmode, due, deleter, next, dpub, ready, known, now, later, delivered>>
  BY DEF PutUnchanged, callVars, exitVars, pumpHist
<1>3. /\ ephemeral' \in BOOLEAN /\ paused' \in BOOLEAN /\ armed' \in BOOLEAN /\ deleter' \in BOOLEAN
      /\ channelMap' \in [Names -> Chans \cup {NoChan}] /\ made' \in 0..MaxChans
      /\ gone' \subseteq 1..made' /\ chans' \subseteq 1..made' /\ todo' \subseteq chans'
      /\ due' \subseteq 1..made' /\ known' \subseteq 1..made'
  BY <1>1, <1>2 DEF TypeOK
<1>4. /\ startChan' \in {"unsent", "sent", "taken"}
      /\ ppc' \in {"prestart", "snap", "arm", "select", "deliver", "exited"}
      /\ msg' \in Message \cup {NoMsg}
      /\ call' \in [Callers -> [pc : {"idle", "created", "removed", "deleted", "pausing", "emptying"},
                               chan : Chans \cup {NoChan}, last : BOOLEAN]]
      /\ ncalls' \in 0..MaxCalls
      /\ xpc' \in {"none", "flagged", "waiting", "range", "flush", "done"}
      /\ xmode' \in {"none", "close", "delete"}
  BY <1>1, <1>2 DEF TypeOK
<1>5. /\ next' \in 1..(NMsgs + 1) /\ dpub' \subseteq Ids /\ delivered' \subseteq Ids
      /\ ready' \in [Ids -> SUBSET Chans]
      /\ now' \in [Chans -> SUBSET Ids] /\ later' \in [Chans -> SUBSET Ids]
  BY <1>2 DEF TypeOK
<1>6. QED
  BY <1>3, <1>4, <1>5, Zenon DEF TypeOK

LEMMA PutType ==
  ASSUME TypeOK, NEW p \in Publishers, Put(p)
  PROVE  TypeOK'
<1>0. /\ messageCount' \in Nat
      /\ pub' \in [Publishers -> [pc : {"idle", "putting"}, batch : Seq(Message), i : Nat]]
      /\ \A q \in Publishers : pub'[q].pc = "putting" => pub'[q].i < Len(pub'[q].batch)
  <2>1. pub[p].pc = "putting" /\ (PutNext(p) \/ Counted(p, pub[p].i))
    BY DEF Put, PutMemory, PutBackend, PutFails
  <2>2. QED
    BY <2>1, PutNextType
<1>1. CASE PutMemory(p)
  <2>1. pub[p].pc = "putting" /\ PutNext(p) /\ Len(memoryMsgChan) < MemQueueSize /\ MemQueueSize \in Nat
    BY <1>1, TopicAssumption DEF PutMemory
  <2>2. memoryMsgChan' = Append(memoryMsgChan, pub[p].batch[pub[p].i + 1])
        /\ accepted' = accepted \cup {pub[p].batch[pub[p].i + 1].id}
    BY <1>1 DEF PutMemory
  <2>3. pub[p].batch[pub[p].i + 1] \in Message
    BY <2>1, PutNextType
  <2>4. memoryMsgChan' \in Seq(Message) /\ Len(memoryMsgChan') <= MemQueueSize /\ accepted' \subseteq Ids
    BY <2>1, <2>2, <2>3 DEF TypeOK, Message
  <2>5. UNCHANGED <<backend, spilled, thrown>> /\ PutUnchanged
    BY <1>1 DEF PutMemory
  <2>6. backend' \in Seq(Ids) /\ spilled' \subseteq Ids /\ thrown' \subseteq Ids
    BY <2>5 DEF TypeOK
  <2>7. QED
    BY <1>0, <2>4, <2>5, <2>6, PutKeepsTypes
<1>2. CASE PutBackend(p)
  <2>1. pub[p].pc = "putting" /\ PutNext(p)
    BY <1>2 DEF PutBackend
  <2>2. pub[p].batch[pub[p].i + 1].id \in Ids
    BY <2>1, PutNextType DEF Message
  <2>3. backend' \in Seq(Ids) /\ accepted' \subseteq Ids /\ spilled' \subseteq Ids /\ thrown' \subseteq Ids
    BY <1>2, <2>2 DEF TypeOK, PutBackend
  <2>4. UNCHANGED memoryMsgChan /\ PutUnchanged
    BY <1>2 DEF PutBackend
  <2>5. memoryMsgChan' \in Seq(Message) /\ Len(memoryMsgChan') <= MemQueueSize
    BY <2>4 DEF TypeOK
  <2>6. QED
    BY <1>0, <2>3, <2>4, <2>5, PutKeepsTypes
<1>3. CASE PutFails(p)
  <2>1. UNCHANGED <<memoryMsgChan, backend, accepted, spilled, thrown>> /\ PutUnchanged
    BY <1>3 DEF PutFails, queueVars
  <2>2. /\ memoryMsgChan' \in Seq(Message) /\ Len(memoryMsgChan') <= MemQueueSize /\ backend' \in Seq(Ids)
        /\ accepted' \subseteq Ids /\ spilled' \subseteq Ids /\ thrown' \subseteq Ids
    BY <2>1 DEF TypeOK
  <2>3. QED
    BY <1>0, <2>1, <2>2, PutKeepsTypes
<1>4. QED
  BY <1>1, <1>2, <1>3 DEF Put

CallType == [pc : {"idle", "created", "removed", "deleted", "pausing", "emptying"},
             chan : Chans \cup {NoChan}, last : BOOLEAN]

LEMMA CallTypes ==
  ASSUME TypeOK, ChansInv, NEW c \in Callers, NewCall(c) \/ Continue(c)
  PROVE  TypeOK'
<1> USE DEF CallUnchanged, EmptyUnchanged, mapVars, pumpVars, callVars, exitVars, pubHist, pumpHist, queueVars
<1>1. Idle \in CallType /\ \A x \in {"pausing", "emptying"} : [Idle EXCEPT !.pc = x] \in CallType
  BY DEF Idle, CallType
<1>2. call \in [Callers -> CallType] /\ ncalls \in Nat /\ MaxCalls \in Nat /\ made \in Nat /\ MaxChans \in Nat
  BY TopicAssumption DEF TypeOK, CallType
<1>3. CASE \E n \in Names : GetChannel(c, n)
  <2>1. PICK n \in Names : GetChannel(c, n)
    BY <1>3
  <2>2. made + 1 \in Chans /\ 1..made \subseteq 1..made' /\ made' \in 0..MaxChans
    BY <1>2, <2>1 DEF GetChannel, Chans
  <2>3. call' \in [Callers -> CallType] /\ ncalls' \in 0..MaxCalls
    BY <1>2, <2>1, <2>2 DEF GetChannel, Begin, CallType, NoChan
  <2>4. channelMap' \in [Names -> Chans \cup {NoChan}]
    BY <2>1, <2>2 DEF TypeOK, GetChannel
  <2>5. QED
    BY <2>1, <2>2, <2>3, <2>4 DEF TypeOK, GetChannel, CallType
<1>4. CASE \E n \in Names : RemoveChannel(c, n)
  <2>1. PICK n \in Names : RemoveChannel(c, n)
    BY <1>4
  <2>2. channelMap[n] \in Chans
    BY <2>1 DEF TypeOK, RemoveChannel
  <2>3. call' \in [Callers -> CallType] /\ ncalls' \in 0..MaxCalls
    BY <1>2, <2>1, <2>2 DEF RemoveChannel, Begin, CallType
  <2>4. channelMap' \in [Names -> Chans \cup {NoChan}]
    BY <2>1, <2>2 DEF TypeOK, RemoveChannel
  <2>5. QED
    BY <2>1, <2>3, <2>4 DEF TypeOK, RemoveChannel, CallType
<1>5. CASE \E pause \in BOOLEAN : DoPause(c, pause)
  <2>1. call' \in [Callers -> CallType] /\ ncalls' \in 0..MaxCalls
    BY <1>1, <1>2, <1>5 DEF DoPause, Begin
  <2>2. QED
    BY <1>5, <2>1 DEF TypeOK, DoPause, CallType
<1>6. CASE EmptyBegin(c)
  <2>1. call' \in [Callers -> CallType] /\ ncalls' \in 0..MaxCalls
    BY <1>1, <1>2, <1>6 DEF EmptyBegin, Begin
  <2>2. QED
    BY <1>6, <2>1 DEF TypeOK, EmptyBegin, CallType
<1>7. CASE DeleteChannel(c)
  <2>1. call' \in [Callers -> CallType]
    BY <1>2, <1>7 DEF DeleteChannel, CallType
  <2>2. gone' \subseteq 1..made
    BY <1>7 DEF DeleteChannel, ChansInv, TypeOK
  <2>3. QED
    BY <1>7, <2>1, <2>2 DEF TypeOK, DeleteChannel, CallType
<1>8. CASE UpdatePump(c) \/ PausePump(c) \/ GiveUp(c)
  <2>1. /\ Return(c) /\ call[c].pc \in {"created", "deleted", "pausing"}
        /\ UNCHANGED <<chans, armed, msg, todo>> /\ ppc' \in {ppc, "snap", "arm"}
    BY <1>8 DEF UpdatePump, PausePump, GiveUp
  <2>2. call' \in [Callers -> CallType]
    BY <1>1, <1>2, <2>1 DEF Return
  <2>3. known' \subseteq 1..made /\ deleter' \in BOOLEAN
    BY <1>2, <2>1 DEF Return, ChansInv, TypeOK
  <2>4. QED
    BY <2>1, <2>2, <2>3 DEF TypeOK, Return, CallType
<1>9. CASE EmptyOne(c)
  <2>1. Head(memoryMsgChan) \in Message /\ Tail(memoryMsgChan) \in Seq(Message)
        /\ Len(Tail(memoryMsgChan)) <= Len(memoryMsgChan)
    BY <1>9 DEF TypeOK, EmptyOne
  <2>2. memoryMsgChan' \in Seq(Message) /\ Len(memoryMsgChan') <= MemQueueSize /\ thrown' \subseteq Ids
    BY <1>9, <2>1, TopicAssumption DEF TypeOK, EmptyOne, Message
  <2>3. QED
    BY <1>9, <2>2 DEF TypeOK, EmptyOne
<1>10. CASE EmptyEnd(c)
  <2>1. call' \in [Callers -> CallType]
    BY <1>1, <1>2, <1>10 DEF EmptyEnd
  <2>2. backend' \in Seq(Ids) /\ thrown' \subseteq Ids
    <3>1. backend \in Seq(Ids) /\ <<>> \in Seq(Ids) /\ \A j \in DOMAIN backend : backend[j] \in Ids
      BY DEF TypeOK
    <3>2. ToSet(backend) \subseteq Ids
      BY <3>1 DEF ToSet
    <3>3. QED
      BY <1>10, <3>1, <3>2 DEF TypeOK, EmptyEnd
  <2>3. QED
    BY <1>10, <2>1, <2>2 DEF TypeOK, EmptyEnd, CallType
<1>11. QED
  BY <1>3, <1>4, <1>5, <1>6, <1>7, <1>8, <1>9, <1>10 DEF NewCall, Continue

(* A copy has all that the message has.                                    *)
LEMMA CopySame ==
  ASSUME NEW m \in Message, NEW first \in BOOLEAN
  PROVE  Copy(m, first) = m
BY DEF Copy, Message

LEMMA DeliverFacts ==
  ASSUME TypeOK, PlaceInv, NEW o \in Chans, Deliver(o)
  PROVE  /\ ppc = "deliver" /\ o \in todo /\ msg \in Message /\ msg.id \in Ids /\ msg.deferred \in BOOLEAN
         /\ todo' = todo \ {o}
         /\ msg.deferred => later' = [later EXCEPT ![o] = @ \cup {msg.id}] /\ now' = now
         /\ ~msg.deferred => later' = later /\
              now' = IF o \in gone THEN now ELSE [now EXCEPT ![o] = @ \cup {msg.id}]
         /\ \/ todo = {o} /\ ppc' = "select" /\ msg' = NoMsg /\ delivered' = delivered \cup {msg.id}
            \/ todo # {o} /\ UNCHANGED <<ppc, msg, delivered>>
         /\ UNCHANGED <<chans, armed, queueVars, startChan, thrown>> /\ PumpUnchanged
<1>1. ppc = "deliver" /\ msg \in Message
  BY DEF Deliver, PlaceInv
<1>2. Copy(msg, todo = chans) = msg
  BY <1>1, CopySame
<1>3. msg.id \in Ids /\ msg.deferred \in BOOLEAN
  BY <1>1 DEF Message
<1>4. QED
  BY <1>1, <1>2, <1>3 DEF Deliver

LEMMA PumpTypes ==
  ASSUME TypeOK, ChansInv, PlaceInv, Start \/ MessagePump
  PROVE  TypeOK'
<1> USE DEF pumpVars, queueVars, pumpHist
<1>1. CASE Start \/ PumpStart \/ PumpArm \/ PumpExit
  <2>1. UNCHANGED <<chans, msg, todo, memoryMsgChan, backend, now, later, delivered, thrown>> /\ PumpUnchanged
        /\ startChan' \in {startChan, "sent", "taken"} /\ ppc' \in {ppc, "snap", "select", "exited"}
        /\ armed' \in BOOLEAN
    BY <1>1 DEF Start, PumpStart, PumpArm, PumpExit, TypeOK
  <2>2. PumpKeeps
    BY <2>1, PumpFrame
  <2>3. QED
    BY <2>1, <2>2 DEF TypeOK, PumpKeeps
<1>2. CASE PumpSnap
  <2>1. InMap \subseteq 1..made
    BY InMapFacts DEF ChansInv, TypeOK, Chans
  <2>2. ppc' = "arm" /\ chans' = InMap /\ todo' = {} /\ PumpUnchanged
        /\ UNCHANGED <<armed, msg, startChan, memoryMsgChan, backend, now, later, delivered, thrown>>
    BY <1>2 DEF PumpSnap, PlaceInv
  <2>3. PumpKeeps
    BY <2>1, <2>2, PumpFrame
  <2>4. QED
    BY <2>1, <2>2, <2>3 DEF TypeOK, PumpKeeps
<1>4. CASE PumpMemory
  <2>1. Head(memoryMsgChan) \in Message /\ Tail(memoryMsgChan) \in Seq(Message)
        /\ Len(Tail(memoryMsgChan)) <= Len(memoryMsgChan)
    BY <1>4 DEF TypeOK, PumpMemory
  <2>2. memoryMsgChan' \in Seq(Message) /\ Len(memoryMsgChan') <= MemQueueSize /\ msg' \in Message
        /\ todo' = chans /\ ppc' = "deliver"
    BY <1>4, <2>1, TopicAssumption DEF TypeOK, PumpMemory, Take
  <2>3. UNCHANGED <<backend, chans, armed, startChan, now, later, delivered, thrown>> /\ PumpUnchanged
    BY <1>4 DEF PumpMemory
  <2>4. PumpKeeps
    BY <2>2, <2>3, PumpFrame
  <2>5. QED
    BY <2>2, <2>3, <2>4 DEF TypeOK, PumpKeeps
<1>5. CASE PumpBackend
  <2>1. Head(backend) \in Ids /\ Tail(backend) \in Seq(Ids)
    BY <1>5 DEF TypeOK, PumpBackend
  <2>2. backend' \in Seq(Ids) /\ msg' \in Message /\ todo' = chans /\ ppc' = "deliver"
    BY <1>5, <2>1 DEF TypeOK, PumpBackend, Take, Message
  <2>3. UNCHANGED <<memoryMsgChan, chans, armed, startChan, now, later, delivered, thrown>> /\ PumpUnchanged
    BY <1>5 DEF PumpBackend
  <2>4. PumpKeeps
    BY <2>2, <2>3, PumpFrame
  <2>5. QED
    BY <2>2, <2>3, <2>4 DEF TypeOK, PumpKeeps
<1>6. CASE PumpCorrupt
  <2>1. Head(backend) \in Ids /\ Tail(backend) \in Seq(Ids)
    BY <1>6 DEF TypeOK, PumpCorrupt
  <2>2. backend' \in Seq(Ids) /\ thrown' \subseteq Ids
    BY <1>6, <2>1 DEF TypeOK, PumpCorrupt
  <2>3. UNCHANGED <<ppc, chans, armed, msg, todo, memoryMsgChan, startChan, now, later, delivered>>
        /\ PumpUnchanged
    BY <1>6 DEF PumpCorrupt
  <2>4. PumpKeeps
    BY <2>2, <2>3, PumpFrame
  <2>5. QED
    BY <2>2, <2>3, <2>4 DEF TypeOK, PumpKeeps
<1>7. CASE \E o \in Chans : Deliver(o)
  <2>1. PICK o \in Chans : Deliver(o)
    BY <1>7
  <2>2. /\ msg.id \in Ids /\ todo' = todo \ {o}
        /\ later' = later \/ later' = [later EXCEPT ![o] = @ \cup {msg.id}]
        /\ now' = now \/ now' = [now EXCEPT ![o] = @ \cup {msg.id}]
        /\ delivered' = delivered \/ delivered' = delivered \cup {msg.id}
        /\ ppc' \in {"select", ppc} /\ msg' \in {NoMsg, msg}
        /\ PumpUnchanged
    BY <2>1, DeliverFacts
  <2>3. UNCHANGED <<chans, armed, memoryMsgChan, backend, startChan, thrown>>
    BY <2>1, DeliverFacts
  <2> DEFINE S == SUBSET Ids
  <2>a. now \in [Chans -> S] /\ later \in [Chans -> S] /\ \A x \in S : x \cup {msg.id} \in S
    BY <2>2 DEF TypeOK
  <2> HIDE DEF S
  <2>4. now' \in [Chans -> S]
    BY <2>2, <2>a
  <2>5. later' \in [Chans -> S]
    BY <2>2, <2>a
  <2>6. delivered' \subseteq Ids /\ todo' \subseteq chans /\ msg' \in Message \cup {NoMsg}
        /\ ppc' \in {"prestart", "snap", "arm", "select", "deliver", "exited"}
    BY <2>2 DEF TypeOK
  <2>7. PumpKeeps
    BY <2>2, PumpFrame
  <2>8. QED
    BY <2>3, <2>4, <2>5, <2>6, <2>7 DEF TypeOK, PumpKeeps, S
<1>8. QED
  BY <1>1, <1>2, <1>4, <1>5, <1>6, <1>7 DEF MessagePump

LEMMA ExitTypes ==
  ASSUME TypeOK, ChansInv, (\E mode \in {"close", "delete"} : ExitFlag(mode)) \/ Exit
  PROVE  TypeOK'
<1> USE DEF mapVars, queueVars
<1>1. CASE (\E mode \in {"close", "delete"} : ExitFlag(mode)) \/ CloseExitChan \/ FlushEnd
  <2>1. xpc' \in {"flagged", "waiting", "done"} /\ xmode' \in {xmode, "close", "delete"} /\ ExitUnchanged
        /\ UNCHANGED <<due, channelMap, made, gone, memoryMsgChan, backend, spilled, thrown>>
    BY <1>1 DEF ExitFlag, CloseExitChan, FlushEnd
  <2>2. ExitKeeps
    BY <2>1, ExitFrame
  <2>3. QED
    BY <2>1, <2>2 DEF TypeOK, ExitKeeps
<1>2. InMap \subseteq 1..made
  BY InMapFacts DEF ChansInv, TypeOK, Chans
<1>3. CASE DeleteChannels \/ RangeBegin \/ RangeEnd
  <2>1. /\ xpc' \in {"flush", "range"} /\ gone' \in {gone, gone \cup InMap} /\ due' \in {due, {}, InMap}
        /\ channelMap' = channelMap \/ channelMap' = [n \in Names |-> NoChan]
        /\ UNCHANGED <<xmode, made, memoryMsgChan, backend, spilled, thrown>> /\ ExitUnchanged
    BY <1>3 DEF DeleteChannels, RangeBegin, RangeEnd
  <2>2. gone' \subseteq 1..made /\ due' \subseteq 1..made /\ channelMap' \in [Names -> Chans \cup {NoChan}]
    BY <1>2, <2>1 DEF TypeOK
  <2>3. ExitKeeps
    BY <2>1, <2>2, ExitFrame
  <2>4. QED
    BY <2>1, <2>2, <2>3 DEF TypeOK, ExitKeeps
<1>4. CASE \E n \in Names : RangeClose(n)
  <2>1. PICK n \in Names : RangeClose(n)
    BY <1>4
  <2>2. channelMap[n] \in InMap
    BY <2>1 DEF RangeClose, InMap
  <2>3. gone' \subseteq 1..made /\ due' \subseteq 1..made
        /\ UNCHANGED <<xpc, xmode, channelMap, made, memoryMsgChan, backend, spilled, thrown>> /\ ExitUnchanged
    BY <1>2, <2>1, <2>2 DEF RangeClose, TypeOK
  <2>4. ExitKeeps
    BY <2>3, ExitFrame
  <2>5. QED
    BY <2>3, <2>4 DEF TypeOK, ExitKeeps
<1>5. CASE DeleteQueues
  <2>1. backend \in Seq(Ids) /\ memoryMsgChan \in Seq(Message) /\ \A m \in Message : m.id \in Ids
    BY DEF TypeOK, Message
  <2>2. /\ \A j \in DOMAIN backend : backend[j] \in Ids
        /\ \A j \in DOMAIN memoryMsgChan : memoryMsgChan[j] \in Message
    BY <2>1
  <2>3. ToSet(backend) \subseteq Ids /\ {m.id : m \in ToSet(memoryMsgChan)} \subseteq Ids
    BY <2>1, <2>2 DEF ToSet
  <2>4. thrown' \subseteq Ids /\ memoryMsgChan' = <<>> /\ backend' = <<>> /\ xpc' = "done"
        /\ UNCHANGED <<xmode, due, channelMap, made, gone, spilled>> /\ ExitUnchanged
    BY <1>5, <2>3 DEF DeleteQueues, TypeOK
  <2>5. <<>> \in Seq(Message) /\ <<>> \in Seq(Ids) /\ Len(<<>>) <= MemQueueSize
    BY TopicAssumption
  <2>6. ExitKeeps
    BY <2>4, <2>5, ExitFrame
  <2>7. QED
    BY <2>4, <2>5, <2>6 DEF TypeOK, ExitKeeps
<1>6. CASE \E ok \in BOOLEAN : FlushOne(ok)
  <2>1. PICK ok \in BOOLEAN : FlushOne(ok)
    BY <1>6
  <2>2. Head(memoryMsgChan) \in Message /\ Tail(memoryMsgChan) \in Seq(Message)
        /\ Len(Tail(memoryMsgChan)) <= Len(memoryMsgChan) /\ \A m \in Message : m.id \in Ids
    <3>1. memoryMsgChan \in Seq(Message) /\ memoryMsgChan # <<>>
      BY <2>1 DEF TypeOK, FlushOne
    <3>2. \A m \in Message : m.id \in Ids
      BY DEF Message
    <3>3. QED
      BY <3>1, <3>2
  <2>3. memoryMsgChan' \in Seq(Message) /\ Len(memoryMsgChan') <= MemQueueSize /\ backend' \in Seq(Ids)
        /\ spilled' \subseteq Ids /\ thrown' \subseteq Ids
    BY <2>1, <2>2, TopicAssumption DEF TypeOK, FlushOne
  <2>4. UNCHANGED <<xpc, xmode, due, channelMap, made, gone>> /\ ExitUnchanged
    BY <2>1 DEF FlushOne
  <2>5. ExitKeeps
    BY <2>3, <2>4, ExitFrame
  <2>6. QED
    BY <2>3, <2>4, <2>5 DEF TypeOK, ExitKeeps
<1>7. QED
  BY <1>1, <1>3, <1>4, <1>5, <1>6 DEF Exit

LEMMA TypeStep ==
  ASSUME IInv, [Next]_vars
  PROVE  TypeOK'
<1>1. TypeOK /\ ChansInv /\ PlaceInv
  BY DEF IInv
<1>2. CASE UNCHANGED vars
  <2>1. AllKept
    BY <1>2, StutterFrame
  <2>2. QED
    BY <1>1, <2>1 DEF TypeOK, AllKept
<1>3. CASE \E p \in Publishers : Publish(p)
  <2>1. PICK p \in Publishers : Publish(p)
    BY <1>3
  <2>2. CASE PutMessagesExiting(p)
    <3>1. next' \in 1..(NMsgs + 1)
      BY <1>1, <2>2, TopicAssumption DEF PutMessagesExiting, TypeOK, Ids
    <3>2. UNCHANGED <<ephemeral, channelMap, made, gone, memoryMsgChan, backend, paused, messageCount,
                  startChan, ppc, chans, armed, msg, todo, call, ncalls, xpc, xmode, due, deleter, pub,
                  accepted, dpub, ready, spilled, known, now, later, delivered, thrown>>
      BY <2>2 DEF PutMessagesExiting, mapVars, queueVars, pumpVars, callVars, exitVars, pumpHist
    <3>3. QED
      BY <1>1, <3>1, <3>2 DEF TypeOK
  <2>3. CASE \E k \in 1..2, d \in BOOLEAN : PutMessages(p, k, d)
    <3>1. PICK k \in 1..2, d \in BOOLEAN : PutMessages(p, k, d)
      BY <2>3
    <3>2. QED
      BY <1>1, <3>1, PutMessagesType
  <2>4. QED
    BY <2>1, <2>2, <2>3, PublishCases
<1>4. CASE \E p \in Publishers : Put(p)
  BY <1>1, <1>4, PutType
<1>5. CASE \E c \in Callers : NewCall(c) \/ Continue(c)
  BY <1>1, <1>5, CallTypes
<1>6. CASE Start \/ MessagePump
  BY <1>1, <1>6, PumpTypes
<1>7. CASE (\E mode \in {"close", "delete"} : ExitFlag(mode)) \/ Exit
  BY <1>1, <1>7, ExitTypes
<1>8. QED
  BY <1>2, <1>3, <1>4, <1>5, <1>6, <1>7 DEF Next, Quiet

-----------------------------------------------------------------------------
(* The channel map and the pump's copy of it.                              *)

MapInv == ChansInv /\ PumpSeesMap /\ ServesInv

MapKept == UNCHANGED <<channelMap, made, gone, call, ready, known, chans, xpc>> /\ (Pumping' => Pumping)

LEMMA MapStutter ==
  ASSUME MapInv, MapKept
  PROVE  MapInv'
<1>1. UNCHANGED <<channelMap, made, gone, call, ready, known, chans, xpc>> /\ (Pumping' => Pumping)
  BY DEF MapKept
<1>2. InMap' = InMap /\ ExitChan' = ExitChan /\ Exiting' = Exiting
  BY <1>1 DEF InMap, ExitChan, Exiting
<1>3. ChansInv'
  BY <1>1, <1>2 DEF MapInv, ChansInv
<1>4. PumpSeesMap'
  BY <1>1, <1>2 DEF MapInv, PumpSeesMap, Pumping
<1>5. ServesInv'
  BY <1>1, <1>2 DEF MapInv, ServesInv
<1>6. QED
  BY <1>3, <1>4, <1>5 DEF MapInv

(* A call that neither creates nor deletes a channel.                      *)
OtherCall(c) ==
  /\ call[c].pc \notin {"created", "removed", "deleted"}
  /\ \A d \in Callers \ {c} : call'[d] = call[d]
  /\ call'[c].pc \notin {"created", "removed", "deleted"}
  /\ UNCHANGED <<channelMap, made, gone, ready, known, chans, xpc>> /\ (Pumping' => Pumping)

LEMMA MapOtherCall ==
  ASSUME MapInv, NEW c \in Callers, OtherCall(c)
  PROVE  MapInv'
<1>1. /\ \A d \in Callers : call'[d] = call[d] \/ call'[d].pc \notin {"created", "removed", "deleted"}
      /\ \A d \in Callers : call'[d] = call[d] \/ call[d].pc \notin {"created", "removed", "deleted"}
      /\ UNCHANGED <<channelMap, made, gone, ready, known, chans, xpc>> /\ (Pumping' => Pumping)
  BY DEF OtherCall
<1>2. InMap' = InMap /\ ExitChan' = ExitChan /\ Exiting' = Exiting
  BY <1>1 DEF InMap, ExitChan, Exiting
<1>3. ChansInv'
  BY <1>1, <1>2 DEF MapInv, ChansInv
<1>4. PumpSeesMap'
  BY <1>1, <1>2 DEF MapInv, PumpSeesMap, Pumping
<1>5. ServesInv'
  BY <1>1, <1>2 DEF MapInv, ServesInv
<1>6. QED
  BY <1>3, <1>4, <1>5 DEF MapInv

(* The exit: once exitChan is closed the pump's copy no longer matters.    *)
MapExits == /\ UNCHANGED <<channelMap, made, call, ready, known, chans, ppc>> /\ Exiting'
            /\ ExitChan' \/ (gone' = gone /\ ~ExitChan)

LEMMA MapExit ==
  ASSUME MapInv, MapExits
  PROVE  MapInv'
<1>1. /\ UNCHANGED <<channelMap, made, call, ready, known, chans, ppc>> /\ Exiting'
      /\ ExitChan' \/ (gone' = gone /\ ~ExitChan)
  BY DEF MapExits
<1>2. InMap' = InMap /\ Pumping' = Pumping
  BY <1>1 DEF InMap, Pumping
<1>3. ChansInv'
  BY <1>1, <1>2 DEF MapInv, ChansInv
<1>4. PumpSeesMap'
  BY <1>1, <1>2 DEF MapInv, PumpSeesMap
<1>5. ServesInv'
  BY <1>1, <1>2 DEF MapInv, ServesInv
<1>6. QED
  BY <1>3, <1>4, <1>5 DEF MapInv

LEMMA MapPublish ==
  ASSUME TypeOK, MapInv, NEW p \in Publishers, Publish(p)
  PROVE  MapInv'
<1>1. CASE PutMessagesExiting(p)
  <2>1. MapKept
    BY <1>1 DEF PutMessagesExiting, MapKept, mapVars, pumpVars, callVars, exitVars, Pumping
  <2>2. QED
    BY <2>1, MapStutter
<1>2. CASE \E k \in 1..2, d \in BOOLEAN : PutMessages(p, k, d)
  <2>1. PICK k \in 1..2, d \in BOOLEAN : PutMessages(p, k, d)
    BY <1>2
  <2>2. UNCHANGED <<channelMap, made, gone, call, known, chans, ppc, xpc>> /\ ~Exiting
    BY <2>1 DEF PutMessages, mapVars, pumpVars, callVars, exitVars
  <2>3. \A m \in Ids : ready'[m] = known \/ ready'[m] = ready[m]
    BY <2>1 DEF PutMessages
  <2>4. known \subseteq 1..made
    BY DEF TypeOK
  <2>5. InMap' = InMap /\ Pumping' = Pumping /\ ExitChan' = ExitChan /\ Exiting' = Exiting
    BY <2>2 DEF InMap, Pumping, ExitChan, Exiting
  <2>6. ChansInv'
    BY <2>2, <2>3, <2>4, <2>5 DEF MapInv, ChansInv
  <2>7. PumpSeesMap'
    BY <2>2, <2>5 DEF MapInv, PumpSeesMap
  <2>8. ServesInv'
    BY <2>2, <2>3, <2>5 DEF MapInv, ServesInv
  <2>9. QED
    BY <2>6, <2>7, <2>8 DEF MapInv
<1>3. QED
  BY <1>1, <1>2, PublishCases

LEMMA MapPut ==
  ASSUME MapInv, NEW p \in Publishers, Put(p)
  PROVE  MapInv'
<1>1. PutUnchanged
  BY DEF Put, PutMemory, PutBackend, PutFails
<1>2. PutKeeps
  BY <1>1, PutFrame
<1>3. MapKept
  BY <1>2 DEF MapKept, PutKeeps, Pumping
<1>4. QED
  BY <1>3, MapStutter

LEMMA MapGet ==
  ASSUME TypeOK, MapInv, NEW c \in Callers, NEW n \in Names, GetChannel(c, n)
  PROVE  MapInv'
<1>1. /\ made' = made + 1 /\ made < MaxChans /\ channelMap[n] = NoChan
      /\ channelMap' = [channelMap EXCEPT ![n] = made + 1]
      /\ call' = [call EXCEPT ![c] = [pc |-> "created", chan |-> made + 1, last |-> FALSE]]
      /\ call[c].pc = "idle"
  BY DEF GetChannel, Begin
<1>2. UNCHANGED <<gone, ppc, chans, known, xpc, ready>>
  BY DEF GetChannel, CallUnchanged, pumpVars, pubHist
<1>3. /\ channelMap \in [Names -> Chans \cup {NoChan}] /\ made \in Nat /\ gone \subseteq 1..made
      /\ chans \subseteq 1..made /\ known \subseteq 1..made /\ NoChan = 0
      /\ \A o \in Chans \cup {NoChan} : o \in Nat
  BY InMapFacts DEF TypeOK
<1>4. channelMap'[n] = made + 1 /\ \A j \in Names \ {n} : channelMap'[j] = channelMap[j]
  BY <1>1, <1>3
<1>5. InMap' = InMap \cup {made + 1} /\ made + 1 \notin InMap /\ InMap \subseteq 1..made
  <2>1. \A j \in Names : channelMap[j] \in Nat /\ channelMap[j] <= made
    BY <1>3 DEF MapInv, ChansInv
  <2>2. QED
    BY <1>1, <1>3, <1>4, <2>1 DEF InMap
<1>6. call'[c].pc = "created" /\ call'[c].chan = made + 1 /\ \A d \in Callers \ {c} : call'[d] = call[d]
  BY <1>1 DEF TypeOK
<1>7. Pumping' = Pumping /\ ExitChan' = ExitChan /\ Exiting' = Exiting
  BY <1>2 DEF Pumping, ExitChan, Exiting
<1>8. ChansInv'
  <2>1. \A j \in Names : channelMap'[j] <= made'
    BY <1>1, <1>3, <1>4 DEF MapInv, ChansInv
  <2>2. \A i, j \in Names : channelMap'[i] = channelMap'[j] => i = j \/ channelMap'[j] = NoChan
    <3>1. \A j \in Names : channelMap[j] \in Nat /\ channelMap[j] <= made /\ channelMap[j] # made + 1
      BY <1>3 DEF MapInv, ChansInv
    <3>2. QED
      BY <1>4, <3>1 DEF MapInv, ChansInv
  <2>3. \A d \in Callers : call'[d].pc \in {"created", "removed", "deleted"} => call'[d].chan \in 1..made'
    BY <1>1, <1>3, <1>6 DEF MapInv, ChansInv
  <2>4. \A d \in Callers : call'[d].pc \in {"removed", "deleted"} => call'[d].chan \notin InMap'
    BY <1>3, <1>5, <1>6 DEF MapInv, ChansInv
  <2>5. \A m \in Ids : ready'[m] \subseteq 1..made'
    <3>1. 1..made \subseteq 1..made'
      BY <1>1, <1>3
    <3>2. QED
      BY <1>2, <3>1 DEF MapInv, ChansInv
  <2>6. ~ExitChan' => gone' \cap InMap' = {}
    BY <1>2, <1>3, <1>5, <1>7 DEF MapInv, ChansInv
  <2>7. QED
    BY <2>1, <2>2, <2>3, <2>4, <2>5, <2>6 DEF ChansInv
<1>9. PumpSeesMap'
  <2>1. SUFFICES ASSUME Pumping, ~ExitChan
                 PROVE  /\ \A o \in InMap' \ chans : \E d \in Callers : call'[d].pc = "created" /\ call'[d].chan = o
                        /\ \A o \in chans \ InMap' :
                             \E d \in Callers : call'[d].pc \in {"removed", "deleted"} /\ call'[d].chan = o
    BY <1>2, <1>7 DEF PumpSeesMap, Pumping
  <2>2. \A d \in Callers : call[d].pc # "idle" => call'[d] = call[d]
    BY <1>1, <1>6
  <2>3. PumpSeesMap
    BY DEF MapInv
  <2>4. QED
    BY <1>5, <1>6, <2>1, <2>2, <2>3 DEF PumpSeesMap, Pumping
<1>10. ServesInv'
  <2>1. ServesInv /\ \A m \in Ids : ready[m] \subseteq 1..made
    BY DEF MapInv, ChansInv
  <2>2. made + 1 \notin 1..made
    BY <1>3
  <2>3. QED
    BY <1>2, <1>3, <1>5, <1>7, <2>1, <2>2 DEF ServesInv
<1>11. QED
  BY <1>8, <1>9, <1>10 DEF MapInv

LEMMA MapRemove ==
  ASSUME TypeOK, MapInv, NEW c \in Callers, NEW n \in Names, RemoveChannel(c, n)
  PROVE  MapInv'
<1> DEFINE r == [pc |-> "removed", chan |-> channelMap[n], last |-> InMap \ {channelMap[n]} = {}]
<1>1. /\ channelMap[n] # NoChan /\ call[c].pc = "idle"
      /\ channelMap' = [channelMap EXCEPT ![n] = NoChan] /\ call' = [call EXCEPT ![c] = r]
  BY DEF RemoveChannel, Begin
<1>2. UNCHANGED <<made, gone, ppc, chans, known, xpc, ready>>
  BY DEF RemoveChannel, CallUnchanged, pumpVars, pubHist
<1>3. channelMap \in [Names -> Chans \cup {NoChan}] /\ made \in Nat /\ NoChan = 0
      /\ \A o \in Chans \cup {NoChan} : o \in Nat
  BY InMapFacts DEF TypeOK
<1>4. channelMap'[n] = NoChan /\ \A j \in Names \ {n} : channelMap'[j] = channelMap[j]
  BY <1>1, <1>3
<1>5. InMap' = InMap \ {channelMap[n]}
  <2>1. \A j \in Names \ {n} : channelMap[j] # channelMap[n]
    BY <1>1 DEF MapInv, ChansInv
  <2>2. QED
    BY <1>1, <1>4, <2>1 DEF InMap
<1>6. call'[c].pc = "removed" /\ call'[c].chan = channelMap[n] /\ \A d \in Callers \ {c} : call'[d] = call[d]
  BY <1>1 DEF TypeOK
<1> HIDE DEF r
<1>7. Pumping' = Pumping /\ ExitChan' = ExitChan /\ Exiting' = Exiting
  BY <1>2 DEF Pumping, ExitChan, Exiting
<1>8. ChansInv'
  <2>1. channelMap[n] \in 1..made
    BY <1>1, <1>3 DEF MapInv, ChansInv
  <2>2. \A j \in Names : channelMap'[j] <= made'
    BY <1>2, <1>3, <1>4 DEF MapInv, ChansInv
  <2>3. \A i, j \in Names : channelMap'[i] = channelMap'[j] => i = j \/ channelMap'[j] = NoChan
    BY <1>4 DEF MapInv, ChansInv
  <2>4. \A d \in Callers :
          /\ call'[d].pc \in {"created", "removed", "deleted"} => call'[d].chan \in 1..made'
          /\ call'[d].pc \in {"removed", "deleted"} => call'[d].chan \notin InMap'
    BY <1>2, <1>5, <1>6, <2>1 DEF MapInv, ChansInv
  <2>5. (\A m \in Ids : ready'[m] \subseteq 1..made') /\ (~ExitChan' => gone' \cap InMap' = {})
    BY <1>2, <1>5, <1>7 DEF MapInv, ChansInv
  <2>6. QED
    BY <2>2, <2>3, <2>4, <2>5 DEF ChansInv
<1>9. PumpSeesMap'
  <2>1. SUFFICES ASSUME Pumping, ~ExitChan
                 PROVE  /\ \A o \in InMap' \ chans : \E d \in Callers : call'[d].pc = "created" /\ call'[d].chan = o
                        /\ \A o \in chans \ InMap' :
                             \E d \in Callers : call'[d].pc \in {"removed", "deleted"} /\ call'[d].chan = o
    BY <1>2, <1>7 DEF PumpSeesMap, Pumping
  <2>2. \A d \in Callers : call[d].pc # "idle" => call'[d] = call[d]
    BY <1>1, <1>6
  <2>3. PumpSeesMap
    BY DEF MapInv
  <2>4. QED
    BY <1>5, <1>6, <2>1, <2>2, <2>3 DEF PumpSeesMap, Pumping
<1>10. ServesInv'
  BY <1>2, <1>5, <1>7 DEF MapInv, ServesInv
<1>11. QED
  BY <1>8, <1>9, <1>10 DEF MapInv

LEMMA MapDelete ==
  ASSUME TypeOK, MapInv, NEW c \in Callers, DeleteChannel(c)
  PROVE  MapInv'
<1>1. /\ call[c].pc = "removed" /\ gone' = gone \cup {call[c].chan}
      /\ call' = [call EXCEPT ![c].pc = "deleted"]
  BY DEF DeleteChannel
<1>2. UNCHANGED <<channelMap, made, ppc, chans, known, xpc, ready>>
  BY DEF DeleteChannel, CallUnchanged, pumpVars, pubHist
<1>3. /\ \A d \in Callers \ {c} : call'[d] = call[d]
      /\ call'[c].pc = "deleted" /\ call'[c].chan = call[c].chan
  BY <1>1 DEF TypeOK
<1>4. InMap' = InMap /\ Pumping' = Pumping /\ ExitChan' = ExitChan /\ Exiting' = Exiting
  BY <1>2 DEF InMap, Pumping, ExitChan, Exiting
<1>5. ChansInv'
  <2>1. call[c].chan \in 1..made /\ call[c].chan \notin InMap
    BY <1>1 DEF MapInv, ChansInv
  <2>2. QED
    BY <1>1, <1>2, <1>3, <1>4, <2>1 DEF MapInv, ChansInv
<1>6. PumpSeesMap'
  <2>1. \A d \in Callers : call[d].pc \in {"removed", "deleted"} =>
          call'[d].pc \in {"removed", "deleted"} /\ call'[d].chan = call[d].chan
    BY <1>1, <1>3
  <2>2. \A d \in Callers : call[d].pc = "created" => call'[d] = call[d]
    BY <1>1, <1>3
  <2>3. QED
    BY <1>2, <1>4, <2>1, <2>2 DEF MapInv, PumpSeesMap, Pumping
<1>7. ServesInv'
  BY <1>2, <1>4 DEF MapInv, ServesInv
<1>8. QED
  BY <1>5, <1>6, <1>7 DEF MapInv

(* The select of GetChannel or DeleteExistingChannel ends: the pump is     *)
(* about to copy the map, or exitChan is closed.                           *)
LEMMA MapReturn ==
  ASSUME TypeOK, MapInv, NEW c \in Callers, UpdatePump(c) \/ GiveUp(c)
  PROVE  MapInv'
<1>1. Return(c) /\ chans' = chans
  BY DEF UpdatePump, GiveUp, pumpVars
<1>2. /\ call' = [call EXCEPT ![c] = Idle] /\ UNCHANGED <<channelMap, made, gone, xpc, ready>>
      /\ known' = known \/ known' = known \cup {call[c].chan}
  BY <1>1 DEF Return, CallUnchanged, mapVars, pubHist
<1>3. ~Pumping' \/ (ExitChan /\ Pumping' = Pumping)
  BY DEF UpdatePump, GiveUp, Pumping, pumpVars
<1>4. InMap' = InMap /\ ExitChan' = ExitChan /\ Exiting' = Exiting /\ (ExitChan => Exiting)
  BY <1>2 DEF InMap, ExitChan, Exiting
<1>5. \A d \in Callers : call'[d] = call[d] \/ call'[d].pc = "idle"
  BY <1>2 DEF TypeOK, Idle
<1>6. ChansInv'
  BY <1>2, <1>4, <1>5 DEF MapInv, ChansInv
<1>7. PumpSeesMap'
  BY <1>3, <1>4 DEF PumpSeesMap, Pumping
<1>8. ServesInv'
  BY <1>1, <1>2, <1>3, <1>4 DEF MapInv, ServesInv
<1>9. QED
  BY <1>6, <1>7, <1>8 DEF MapInv

LEMMA MapCall ==
  ASSUME TypeOK, MapInv, NEW c \in Callers, NewCall(c) \/ Continue(c)
  PROVE  MapInv'
<1>1. call \in [Callers -> CallType]
  BY DEF TypeOK, CallType
<1>2. CASE \E pause \in BOOLEAN : DoPause(c, pause)
  <2>1. PICK pause \in BOOLEAN : DoPause(c, pause)
    BY <1>2
  <2>2. CallKeeps /\ UNCHANGED <<channelMap, made, gone, ppc, chans, known>>
    BY <2>1, CallFrame DEF DoPause, mapVars, pumpVars
  <2>3. call[c].pc = "idle" /\ call' = [call EXCEPT ![c] = [Idle EXCEPT !.pc = "pausing"]]
    BY <2>1 DEF DoPause, Begin
  <2>4. OtherCall(c)
    BY <1>1, <2>2, <2>3 DEF OtherCall, CallKeeps, Pumping, Idle
  <2>5. QED
    BY <2>4, MapOtherCall
<1>3. CASE PausePump(c)
  <2>1. Return(c) /\ call[c].pc = "pausing" /\ chans' = chans /\ (Pumping' => Pumping)
    BY <1>3 DEF PausePump, Pumping
  <2>2. CallKeeps /\ UNCHANGED <<channelMap, made, gone, known>> /\ call' = [call EXCEPT ![c] = Idle]
    BY <2>1, CallFrame DEF Return, mapVars
  <2>3. OtherCall(c)
    BY <1>1, <2>1, <2>2 DEF OtherCall, CallKeeps, Idle
  <2>4. QED
    BY <2>3, MapOtherCall
<1>4. CASE EmptyBegin(c) \/ EmptyEnd(c)
  <2>1. EmptyKeeps /\ call[c].pc \in {"idle", "emptying"}
        /\ \E r : call' = [call EXCEPT ![c] = r] /\ r.pc \in {"idle", "emptying"}
    BY <1>4, EmptyFrame DEF EmptyBegin, EmptyEnd, Begin, Idle
  <2>2. OtherCall(c)
    BY <1>1, <2>1 DEF OtherCall, EmptyKeeps, Pumping
  <2>3. QED
    BY <2>2, MapOtherCall
<1>5. CASE EmptyOne(c)
  <2>1. EmptyKeeps /\ call' = call
    BY <1>5, EmptyFrame DEF EmptyOne, callVars
  <2>2. MapKept
    BY <2>1 DEF MapKept, EmptyKeeps, Pumping
  <2>3. QED
    BY <2>2, MapStutter
<1>6. QED
  BY <1>2, <1>3, <1>4, <1>5, MapGet, MapRemove, MapDelete, MapReturn DEF NewCall, Continue

LEMMA MapPump ==
  ASSUME MapInv, Start \/ MessagePump
  PROVE  MapInv'
<1>1. PumpUnchanged
  BY DEF Start, MessagePump, PumpStart, PumpSnap, PumpArm, PumpMemory, PumpBackend, PumpCorrupt, Deliver, PumpExit
<1>2. PumpKeeps
  BY <1>1, PumpFrame
<1>3. CASE PumpSnap
  <2>1. chans' = InMap /\ ppc' = "arm" /\ UNCHANGED <<channelMap, made, gone, call, ready, known, xpc>>
    BY <1>2, <1>3 DEF PumpSnap, PumpKeeps
  <2>2. InMap' = InMap /\ ExitChan' = ExitChan
    BY <2>1 DEF InMap, ExitChan
  <2>3. ChansInv'
    BY <2>1, <2>2 DEF MapInv, ChansInv
  <2>4. PumpSeesMap' /\ ServesInv'
    BY <2>1, <2>2 DEF PumpSeesMap, ServesInv
  <2>5. QED
    BY <2>3, <2>4 DEF MapInv
<1>4. CASE ~PumpSnap
  <2>1. chans' = chans /\ (Pumping' => Pumping)
    BY <1>4 DEF Start, MessagePump, PumpStart, PumpArm, PumpMemory, PumpBackend, PumpCorrupt, Deliver, PumpExit,
         Take, pumpVars, Pumping
  <2>2. MapKept
    BY <1>2, <2>1 DEF MapKept, PumpKeeps
  <2>3. QED
    BY <2>2, MapStutter
<1>5. QED
  BY <1>3, <1>4

LEMMA MapExitStep ==
  ASSUME TypeOK, MapInv, (\E mode \in {"close", "delete"} : ExitFlag(mode)) \/ Exit
  PROVE  MapInv'
<1>1. ExitUnchanged
  BY DEF ExitFlag, Exit, CloseExitChan, DeleteChannels, DeleteQueues, RangeBegin, RangeClose, RangeEnd, FlushOne, FlushEnd
<1>2. ExitKeeps
  BY <1>1, ExitFrame
<1>3. CASE DeleteChannels
  <2>1. xpc' = "flush" /\ channelMap' = [n \in Names |-> NoChan] /\ UNCHANGED <<made, call, ready, known, chans, ppc>>
    BY <1>2, <1>3 DEF DeleteChannels, ExitKeeps
  <2>2. InMap' = {} /\ ExitChan' /\ Exiting' /\ \A n \in Names : channelMap'[n] = NoChan
    BY <2>1 DEF InMap, ExitChan, Exiting
  <2>3. NoChan <= made
    BY DEF NoChan, TypeOK
  <2>4. ChansInv'
    BY <2>1, <2>2, <2>3 DEF MapInv, ChansInv
  <2>5. PumpSeesMap' /\ ServesInv'
    BY <2>1, <2>2 DEF PumpSeesMap, ServesInv
  <2>6. QED
    BY <2>4, <2>5 DEF MapInv
<1>4. CASE ~DeleteChannels
  <2>1. channelMap' = channelMap /\ made' = made /\ Exiting' /\ (ExitChan' \/ (gone' = gone /\ ~ExitChan))
    BY <1>4 DEF ExitFlag, Exit, CloseExitChan, DeleteQueues, RangeBegin, RangeClose, RangeEnd, FlushOne, FlushEnd,
         mapVars, Exiting, ExitChan
  <2>2. MapExits
    BY <1>2, <2>1 DEF MapExits, ExitKeeps
  <2>3. QED
    BY <2>2, MapExit
<1>5. QED
  BY <1>3, <1>4

LEMMA MapStep ==
  ASSUME IInv, [Next]_vars
  PROVE  MapInv'
<1>1. TypeOK /\ MapInv
  BY DEF IInv, MapInv
<1>2. CASE UNCHANGED vars
  <2>1. AllKept
    BY <1>2, StutterFrame
  <2>2. MapKept
    BY <2>1 DEF AllKept, MapKept, Pumping
  <2>3. QED
    BY <1>1, <2>2, MapStutter
<1>3. CASE \E p \in Publishers : Publish(p) \/ Put(p)
  BY <1>1, <1>3, MapPublish, MapPut
<1>4. CASE \E c \in Callers : NewCall(c) \/ Continue(c)
  BY <1>1, <1>4, MapCall
<1>5. CASE Start \/ MessagePump
  BY <1>1, <1>5, MapPump
<1>6. CASE (\E mode \in {"close", "delete"} : ExitFlag(mode)) \/ Exit
  BY <1>1, <1>6, MapExitStep
<1>7. QED
  BY <1>2, <1>3, <1>4, <1>5, <1>6 DEF Next, Quiet

-----------------------------------------------------------------------------
(* The queues: what a put and a receive do to their contents.              *)

LEMMA PutIds ==
  ASSUME NEW q \in Seq(Message), NEW x \in Message
  PROVE  /\ \A m : HasId(Append(q, x), m) <=> HasId(q, m) \/ m = x.id
         /\ UniqueIds(q) /\ ~HasId(q, x.id) => UniqueIds(Append(q, x))
         /\ \A j \in DOMAIN Append(q, x) : Append(q, x)[j] = x \/ \E k \in DOMAIN q : Append(q, x)[j] = q[k]
<1>1. DOMAIN Append(q, x) = 1..(Len(q) + 1) /\ DOMAIN q = 1..Len(q) /\ Len(q) \in Nat
  OBVIOUS
<1>2. Append(q, x)[Len(q) + 1] = x /\ \A j \in 1..Len(q) : Append(q, x)[j] = q[j]
  OBVIOUS
<1> DEFINE r == Append(q, x)
<1> HIDE DEF r
<1>3. DOMAIN r = 1..(Len(q) + 1) /\ r[Len(q) + 1] = x /\ \A j \in 1..Len(q) : r[j] = q[j]
  BY <1>1, <1>2 DEF r
<1>4. \A j \in 1..(Len(q) + 1) : j = Len(q) + 1 \/ j \in 1..Len(q)
  BY <1>1
<1>5. \A j \in 1..Len(q) : j \in 1..(Len(q) + 1)
  BY <1>1
<1>6. Len(q) + 1 \in 1..(Len(q) + 1)
  BY <1>1
<1>7. \A m : HasId(r, m) <=> HasId(q, m) \/ m = x.id
  BY <1>1, <1>3, <1>4, <1>5, <1>6 DEF HasId
<1>8. UniqueIds(q) /\ ~HasId(q, x.id) => UniqueIds(r)
  BY <1>1, <1>3, <1>4 DEF HasId, UniqueIds
<1>9. \A j \in DOMAIN r : r[j] = x \/ \E k \in DOMAIN q : r[j] = q[k]
  BY <1>1, <1>3, <1>4
<1>10. QED
  BY <1>7, <1>8, <1>9 DEF r

LEMMA TakeIds ==
  ASSUME NEW q \in Seq(Message), q # <<>>, UniqueIds(q)
  PROVE  /\ \A m : HasId(Tail(q), m) <=> HasId(q, m) /\ m # Head(q).id
         /\ HasId(q, Head(q).id) /\ UniqueIds(Tail(q)) /\ Head(q) \in Message
         /\ \E k \in DOMAIN q : Head(q) = q[k]
         /\ \A j \in DOMAIN Tail(q) : \E k \in DOMAIN q : Tail(q)[j] = q[k]
<1>1. DOMAIN q = 1..Len(q) /\ Len(q) \in Nat /\ Len(q) >= 1 /\ Head(q) = q[1] /\ Head(q) \in Message
  OBVIOUS
<1>2. DOMAIN Tail(q) = 1..(Len(q) - 1) /\ \A j \in 1..(Len(q) - 1) : Tail(q)[j] = q[j + 1]
  BY <1>1
<1> DEFINE r == Tail(q)
<1> HIDE DEF r
<1>3. DOMAIN r = 1..(Len(q) - 1) /\ \A j \in 1..(Len(q) - 1) : r[j] = q[j + 1]
  BY <1>2 DEF r
<1>4. \A k \in 1..Len(q) : k = 1 \/ (k - 1 \in 1..(Len(q) - 1) /\ (k - 1) + 1 = k)
  BY <1>1
<1>5. \A j \in 1..(Len(q) - 1) : j + 1 \in 1..Len(q) /\ j + 1 # 1
  BY <1>1
<1>6. 1 \in 1..Len(q)
  BY <1>1
<1>7. UniqueIds(r)
  <2>1. SUFFICES ASSUME NEW j \in 1..(Len(q) - 1), NEW k \in 1..(Len(q) - 1), r[j].id = r[k].id PROVE j = k
    BY <1>3 DEF UniqueIds
  <2>2. j + 1 = k + 1
    BY <1>1, <1>3, <1>5, <2>1, SMTT(30) DEF UniqueIds
  <2>3. QED
    BY <1>1, <2>2
<1>8. ASSUME NEW m PROVE HasId(r, m) <=> HasId(q, m) /\ m # q[1].id
  <2>1. ASSUME HasId(r, m) PROVE HasId(q, m) /\ m # q[1].id
    BY <1>1, <1>3, <1>5, <1>6, <2>1 DEF HasId, UniqueIds
  <2>2. ASSUME HasId(q, m), m # q[1].id PROVE HasId(r, m)
    <3>1. PICK k \in 1..Len(q) : q[k].id = m
      BY <1>1, <2>2 DEF HasId
    <3>2. k - 1 \in 1..(Len(q) - 1) /\ r[k - 1] = q[k]
      BY <1>3, <1>4, <2>2, <3>1
    <3>3. QED
      BY <1>3, <3>1, <3>2 DEF HasId
  <2>3. QED
    BY <2>1, <2>2
<1>9. HasId(q, q[1].id) /\ \A j \in DOMAIN r : \E k \in DOMAIN q : r[j] = q[k]
  BY <1>1, <1>3, <1>5, <1>6 DEF HasId
<1>10. QED
  BY <1>1, <1>6, <1>7, <1>8, <1>9 DEF r

LEMMA PutElements ==
  ASSUME NEW q \in Seq(Ids), NEW x \in Ids
  PROVE  /\ \A m : Has(Append(q, x), m) <=> Has(q, m) \/ m = x
         /\ Unique(q) /\ ~Has(q, x) => Unique(Append(q, x))
<1>1. DOMAIN Append(q, x) = 1..(Len(q) + 1) /\ DOMAIN q = 1..Len(q) /\ Len(q) \in Nat
  OBVIOUS
<1>2. Append(q, x)[Len(q) + 1] = x /\ \A j \in 1..Len(q) : Append(q, x)[j] = q[j]
  OBVIOUS
<1> DEFINE r == Append(q, x)
<1> HIDE DEF r
<1>3. DOMAIN r = 1..(Len(q) + 1) /\ r[Len(q) + 1] = x /\ \A j \in 1..Len(q) : r[j] = q[j]
  BY <1>1, <1>2 DEF r
<1>4. \A j \in 1..(Len(q) + 1) : j = Len(q) + 1 \/ j \in 1..Len(q)
  BY <1>1
<1>5. \A j \in 1..Len(q) : j \in 1..(Len(q) + 1)
  BY <1>1
<1>6. Len(q) + 1 \in 1..(Len(q) + 1)
  BY <1>1
<1>7. \A m : Has(r, m) <=> Has(q, m) \/ m = x
  BY <1>1, <1>3, <1>4, <1>5, <1>6 DEF Has
<1>8. Unique(q) /\ ~Has(q, x) => Unique(r)
  BY <1>1, <1>3, <1>4 DEF Has, Unique
<1>9. QED
  BY <1>7, <1>8 DEF r

LEMMA TakeElements ==
  ASSUME NEW q \in Seq(Ids), q # <<>>, Unique(q)
  PROVE  /\ \A m : Has(Tail(q), m) <=> Has(q, m) /\ m # Head(q)
         /\ Has(q, Head(q)) /\ Unique(Tail(q)) /\ Head(q) \in Ids
<1>1. DOMAIN q = 1..Len(q) /\ Len(q) \in Nat /\ Len(q) >= 1 /\ Head(q) = q[1] /\ Head(q) \in Ids
  OBVIOUS
<1>2. DOMAIN Tail(q) = 1..(Len(q) - 1) /\ \A j \in 1..(Len(q) - 1) : Tail(q)[j] = q[j + 1]
  BY <1>1
<1> DEFINE r == Tail(q)
<1> HIDE DEF r
<1>3. DOMAIN r = 1..(Len(q) - 1) /\ \A j \in 1..(Len(q) - 1) : r[j] = q[j + 1]
  BY <1>2 DEF r
<1>4. \A k \in 1..Len(q) : k = 1 \/ (k - 1 \in 1..(Len(q) - 1) /\ (k - 1) + 1 = k)
  BY <1>1
<1>5. \A j \in 1..(Len(q) - 1) : j + 1 \in 1..Len(q) /\ j + 1 # 1
  BY <1>1
<1>6. 1 \in 1..Len(q)
  BY <1>1
<1>7. Unique(r)
  <2>1. SUFFICES ASSUME NEW j \in 1..(Len(q) - 1), NEW k \in 1..(Len(q) - 1), r[j] = r[k] PROVE j = k
    BY <1>3 DEF Unique
  <2>2. j + 1 = k + 1
    BY <1>1, <1>3, <1>5, <2>1 DEF Unique
  <2>3. QED
    BY <1>1, <2>2
<1>8. ASSUME NEW m PROVE Has(r, m) <=> Has(q, m) /\ m # q[1]
  <2>1. ASSUME Has(r, m) PROVE Has(q, m) /\ m # q[1]
    BY <1>1, <1>3, <1>5, <1>6, <2>1 DEF Has, Unique
  <2>2. ASSUME Has(q, m), m # q[1] PROVE Has(r, m)
    <3>1. PICK k \in 1..Len(q) : q[k] = m
      BY <1>1, <2>2 DEF Has
    <3>2. k - 1 \in 1..(Len(q) - 1) /\ r[k - 1] = q[k]
      BY <1>3, <1>4, <2>2, <3>1
    <3>3. QED
      BY <1>3, <3>1, <3>2 DEF Has
  <2>3. QED
    BY <2>1, <2>2
<1>9. Has(q, q[1])
  BY <1>1, <1>6 DEF Has
<1>10. QED
  BY <1>1, <1>7, <1>8, <1>9 DEF r

LEMMA EmptyQueue ==
  /\ \A m : ~HasId(<<>>, m) /\ ~Has(<<>>, m)
  /\ UniqueIds(<<>>) /\ Unique(<<>>)
BY DEF HasId, Has, UniqueIds, Unique

LEMMA QueueSets ==
  ASSUME TypeOK
  PROVE  /\ \A m : m \in ToSet(backend) <=> InBackend(m)
         /\ \A m : m \in {x.id : x \in ToSet(memoryMsgChan)} <=> InMemory(m)
BY DEF ToSet, InBackend, InMemory, Has, HasId

-----------------------------------------------------------------------------
(* The batches.                                                            *)

(* The message a publisher is about to put.                                *)
Turn(p) == pub[p].batch[pub[p].i + 1]

LEMMA TurnFacts ==
  ASSUME TypeOK, BatchInv, NEW p \in Publishers, Putting(p)
  PROVE  /\ pub[p].batch \in Seq(Message) /\ pub[p].i \in Nat /\ Len(pub[p].batch) \in Nat
         /\ DOMAIN pub[p].batch = 1..Len(pub[p].batch) /\ pub[p].i + 1 \in 1..Len(pub[p].batch)
         /\ Turn(p) \in Message /\ Turn(p).id \in Ids /\ Turn(p).id \notin accepted
         /\ Turn(p).deferred <=> Turn(p).id \in dpub
         /\ \A j \in DOMAIN pub[p].batch :
              /\ pub[p].batch[j] \in Message /\ pub[p].batch[j].id \in Ids
              /\ pub[p].batch[j].id = Turn(p).id <=> j = pub[p].i + 1
<1>1. /\ pub[p].batch \in Seq(Message) /\ pub[p].i \in Nat /\ pub[p].i < Len(pub[p].batch)
      /\ Ids \subseteq Nat /\ \A m \in Message : m.id \in Ids
  BY InMapFacts DEF TypeOK, Putting, Message
<1>2. Len(pub[p].batch) \in Nat /\ DOMAIN pub[p].batch = 1..Len(pub[p].batch)
      /\ pub[p].i + 1 \in 1..Len(pub[p].batch)
  BY <1>1
<1>3. \A j \in DOMAIN pub[p].batch : pub[p].batch[j] \in Message /\ pub[p].batch[j].id \in Ids
  BY <1>1
<1>4. Turn(p) \in Message /\ Turn(p).id \in Ids
  BY <1>2, <1>3 DEF Turn
<1>5. Turn(p).id \notin accepted /\ (Turn(p).deferred <=> Turn(p).id \in dpub)
  <2>1. ~(pub[p].i + 1 <= pub[p].i)
    BY <1>1
  <2>2. QED
    BY <1>2, <2>1 DEF BatchInv, Turn
<1>6. ASSUME NEW j \in DOMAIN pub[p].batch
      PROVE  pub[p].batch[j].id = Turn(p).id <=> j = pub[p].i + 1
  <2>1. /\ pub[p].batch[j].id = pub[p].batch[1].id + j - 1
        /\ Turn(p).id = pub[p].batch[1].id + (pub[p].i + 1) - 1
    BY <1>2, <1>6 DEF BatchInv, Turn
  <2>2. pub[p].batch[1].id \in Nat /\ j \in Nat /\ pub[p].i \in Nat
    <3>1. 1 \in DOMAIN pub[p].batch
      BY <1>1, <1>2
    <3>2. pub[p].batch[1].id \in Ids
      BY <1>3, <3>1
    <3>3. j \in Nat
      BY <1>2, <1>6
    <3>4. Ids \subseteq Nat
      BY <1>1
    <3>5. QED
      BY <1>1, <3>2, <3>3, <3>4
  <2>3. \A x, y, z \in Nat : x + y - 1 = x + (z + 1) - 1 <=> y = z + 1
    OBVIOUS
  <2>4. QED
    BY <2>1, <2>2, <2>3
<1>7. QED
  BY <1>1, <1>2, <1>3, <1>4, <1>5, <1>6

(* The publisher after its put: done, or at its next message.              *)
Finished(p) == pub' = [pub EXCEPT ![p] = Silent]
Advanced(p) == pub[p].i + 1 # Len(pub[p].batch) /\ pub' = [pub EXCEPT ![p].i = pub[p].i + 1]

LEMMA PutFacts ==
  ASSUME TypeOK, BatchInv, NEW p \in Publishers, Put(p)
  PROVE  /\ Putting(p) /\ PutKeeps
         /\ \/ /\ accepted' = accepted \cup {Turn(p).id}
               /\ \/ Finished(p) /\ pub[p].i + 1 = Len(pub[p].batch) /\ messageCount' = messageCount + (pub[p].i + 1)
                  \/ Advanced(p) /\ messageCount' = messageCount
               /\ \/ /\ memoryMsgChan' = Append(memoryMsgChan, Turn(p)) /\ UNCHANGED <<backend, spilled, thrown>>
                  \/ /\ backend' = Append(backend, Turn(p).id) /\ UNCHANGED <<memoryMsgChan, thrown>>
                     /\ spilled' = spilled \cup {Turn(p).id} /\ xpc # "done"
                  \/ /\ thrown' = thrown \cup {Turn(p).id} /\ UNCHANGED <<memoryMsgChan, backend>>
                     /\ spilled' = spilled \cup {Turn(p).id}
            \/ /\ accepted' = accepted /\ Finished(p) /\ messageCount' = messageCount + pub[p].i
               /\ UNCHANGED <<memoryMsgChan, backend, spilled, thrown>>
<1>1. Putting(p) /\ PutUnchanged
  BY DEF Put, PutMemory, PutBackend, PutFails, Putting
<1>2. PutKeeps
  BY <1>1, PutFrame
<1>3. ASSUME PutNext(p)
      PROVE \/ Finished(p) /\ pub[p].i + 1 = Len(pub[p].batch) /\ messageCount' = messageCount + (pub[p].i + 1)
            \/ Advanced(p) /\ messageCount' = messageCount
  BY <1>3 DEF PutNext, Counted, Finished, Advanced
<1>4. CASE PutMemory(p)
  <2>1. PutNext(p) /\ accepted' = accepted \cup {Turn(p).id}
        /\ memoryMsgChan' = Append(memoryMsgChan, Turn(p)) /\ UNCHANGED <<backend, spilled, thrown>>
    BY <1>4 DEF PutMemory, Turn
  <2>2. QED
    BY <1>1, <1>2, <1>3, <2>1
<1>5. CASE PutBackend(p)
  <2>1. PutNext(p) /\ accepted' = accepted \cup {Turn(p).id} /\ memoryMsgChan' = memoryMsgChan
        /\ spilled' = spilled \cup {Turn(p).id}
    BY <1>5 DEF PutBackend, Turn
  <2>2. \/ backend' = Append(backend, Turn(p).id) /\ thrown' = thrown /\ xpc # "done"
        \/ thrown' = thrown \cup {Turn(p).id} /\ backend' = backend
    BY <1>5 DEF PutBackend, Turn
  <2>3. QED
    BY <1>1, <1>2, <1>3, <2>1, <2>2
<1>6. CASE PutFails(p)
  BY <1>1, <1>2, <1>6 DEF PutFails, Counted, Finished, queueVars
<1>7. QED
  BY <1>4, <1>5, <1>6 DEF Put

LEMMA BatchStutter ==
  ASSUME BatchInv, UNCHANGED <<pub, next, dpub, accepted>>
  PROVE  BatchInv'
BY DEF BatchInv, Putting

LEMMA BatchPublish ==
  ASSUME TypeOK, BatchInv, NEW p \in Publishers, Publish(p)
  PROVE  BatchInv'
<1>1. next \in Nat /\ Ids \subseteq Nat
  BY InMapFacts DEF TypeOK
<1>2. CASE PutMessagesExiting(p)
  <2>1. next' = next + 1 /\ UNCHANGED <<pub, dpub, accepted>>
    BY <1>2 DEF PutMessagesExiting
  <2>2. \A m \in Ids : m < next => m < next'
    BY <1>1, <2>1
  <2>3. (\A m \in accepted \cup dpub : m \in Ids) /\
        \A q \in Publishers : Putting(q) => \A j \in DOMAIN pub[q].batch : pub[q].batch[j].id \in Ids
    BY TurnFacts DEF TypeOK
  <2>4. Putting(p)' = Putting(p) /\ \A q \in Publishers : Putting(q)' = Putting(q)
    BY <2>1 DEF Putting
  <2>5. QED
    BY <2>1, <2>2, <2>3, <2>4 DEF BatchInv
<1>3. CASE \E k \in 1..2, d \in BOOLEAN : PutMessages(p, k, d) /\ (d => k = 1)
  <2>1. PICK k \in 1..2, d \in BOOLEAN : PutMessages(p, k, d) /\ (d => k = 1)
    BY <1>3
  <2> DEFINE b == [j \in 1..k |-> [id |-> next + j - 1, deferred |-> d]]
  <2>2. /\ next' = next + k /\ dpub' = (IF d THEN dpub \cup {next} ELSE dpub) /\ accepted' = accepted
        /\ pub' = [pub EXCEPT ![p] = [pc |-> "putting", i |-> 0, batch |-> b]]
    BY <2>1 DEF PutMessages
  <2>3. DOMAIN b = 1..k /\ \A j \in 1..k : b[j].id = next + j - 1 /\ b[j].deferred = d
    OBVIOUS
  <2> HIDE DEF b
  <2>4. /\ pub'[p].pc = "putting" /\ pub'[p].i = 0 /\ pub'[p].batch = b
        /\ \A q \in Publishers \ {p} : pub'[q] = pub[q]
    BY <2>2 DEF TypeOK
  <2>5. (\A m \in accepted \cup dpub : m \in Nat /\ m < next) /\
        \A q \in Publishers : Putting(q) =>
           \A j \in DOMAIN pub[q].batch : pub[q].batch[j].id \in Nat /\ pub[q].batch[j].id < next
    BY <1>1, TurnFacts DEF TypeOK, BatchInv
  <2>6. \A m \in accepted' \cup dpub' : m < next'
    BY <1>1, <2>2, <2>5
  <2>7. \A j \in 1..k : /\ b[j].id = b[1].id + j - 1 /\ b[j].id < next' /\ b[j].id >= next /\ b[j].id \in Nat
                        /\ b[j].deferred <=> b[j].id \in dpub'
                        /\ b[j].id \notin accepted' /\ ~(j <= 0)
    <3>1. b[1].id = next /\ 1 \in 1..k
      BY <1>1, <2>3
    <3>2. ASSUME NEW j \in 1..k
          PROVE b[j].id = b[1].id + j - 1 /\ b[j].id < next' /\ b[j].id >= next /\ b[j].id \in Nat /\ ~(j <= 0)
      BY <1>1, <2>2, <2>3, <3>1
    <3>3. ASSUME NEW j \in 1..k PROVE b[j].deferred <=> b[j].id \in dpub'
      <4>1. CASE d
        <5>1. k = 1 /\ j = 1
          BY <2>1, <4>1
        <5>2. QED
          BY <2>2, <2>3, <3>1, <4>1, <5>1
      <4>2. CASE ~d
        BY <1>1, <2>2, <2>3, <2>5, <3>2, <4>2
      <4>3. QED
        BY <4>1, <4>2
    <3>4. ASSUME NEW j \in 1..k PROVE b[j].id \notin accepted'
      BY <1>1, <2>2, <2>5, <3>2
    <3>5. QED
      BY <3>2, <3>3, <3>4
  <2>8. ASSUME NEW q \in Publishers, pub'[q].pc = "putting", NEW j \in DOMAIN pub'[q].batch
        PROVE  /\ pub'[q].batch[j].id = pub'[q].batch[1].id + j - 1
               /\ pub'[q].batch[j].id < next'
               /\ pub'[q].batch[j].deferred <=> pub'[q].batch[j].id \in dpub'
               /\ pub'[q].batch[j].id \in accepted' <=> j <= pub'[q].i
    <3>1. CASE q = p
      BY <2>3, <2>4, <2>7, <2>8, <3>1
    <3>2. CASE q # p
      <4>1. pub'[q] = pub[q] /\ Putting(q)
        BY <2>4, <2>8, <3>2 DEF Putting
      <4>2. pub[q].batch[j].id \in Nat /\ pub[q].batch[j].id < next
        BY <2>5, <2>8, <4>1
      <4>3. pub[q].batch[j].id < next' /\ (pub[q].batch[j].id \in dpub' <=> pub[q].batch[j].id \in dpub)
        BY <1>1, <2>2, <4>2
      <4>4. QED
        BY <2>2, <2>8, <4>1, <4>3 DEF BatchInv
    <3>3. QED
      BY <3>1, <3>2
  <2>9. ASSUME NEW q \in Publishers, NEW r \in Publishers, q # r, pub'[q].pc = "putting", pub'[r].pc = "putting",
               NEW j \in DOMAIN pub'[q].batch, NEW l \in DOMAIN pub'[r].batch
        PROVE  pub'[q].batch[j].id # pub'[r].batch[l].id
    <3>1. CASE q = p
      <4>1. pub'[r] = pub[r] /\ Putting(r) /\ pub'[q].batch = b
        BY <2>4, <2>9, <3>1 DEF Putting
      <4>2. pub[r].batch[l].id \in Nat /\ pub[r].batch[l].id < next
        BY <2>5, <2>9, <4>1
      <4>3. b[j].id >= next /\ b[j].id \in Nat
        BY <2>3, <2>7, <2>9, <4>1
      <4>4. QED
        BY <1>1, <4>1, <4>2, <4>3
    <3>2. CASE r = p
      <4>1. pub'[q] = pub[q] /\ Putting(q) /\ pub'[r].batch = b
        BY <2>4, <2>9, <3>2 DEF Putting
      <4>2. pub[q].batch[j].id \in Nat /\ pub[q].batch[j].id < next
        BY <2>5, <2>9, <4>1
      <4>3. b[l].id >= next /\ b[l].id \in Nat
        BY <2>3, <2>7, <2>9, <4>1
      <4>4. QED
        BY <1>1, <4>1, <4>2, <4>3
    <3>3. CASE q # p /\ r # p
      <4>1. pub'[q] = pub[q] /\ Putting(q) /\ pub'[r] = pub[r] /\ Putting(r)
        BY <2>4, <2>9, <3>3 DEF Putting
      <4>2. QED
        BY <2>9, <4>1 DEF BatchInv
    <3>4. QED
      BY <3>1, <3>2, <3>3
  <2>10. QED
    BY <2>6, <2>8, <2>9 DEF BatchInv, Putting
<1>4. QED
  BY <1>2, <1>3, PublishCases

LEMMA BatchPut ==
  ASSUME TypeOK, BatchInv, NEW p \in Publishers, Put(p)
  PROVE  BatchInv'
<1>1. Putting(p) /\ next' = next /\ dpub' = dpub
  BY PutFacts DEF PutKeeps
<1>2. accepted' = accepted \cup {Turn(p).id} \/ (accepted' = accepted /\ Finished(p))
  BY PutFacts
<1>3. Finished(p) \/ Advanced(p)
  BY PutFacts
<1>4. \A q \in Publishers \ {p} : pub'[q] = pub[q]
  BY <1>3 DEF TypeOK, Finished, Advanced
<1>5. \/ pub'[p].pc = "idle"
      \/ pub'[p].batch = pub[p].batch /\ pub'[p].i = pub[p].i + 1 /\ accepted' = accepted \cup {Turn(p).id}
  BY <1>2, <1>3 DEF TypeOK, Finished, Advanced, Silent
<1>6. Turn(p).id < next
  BY <1>1, TurnFacts DEF BatchInv, Turn
<1>7. \A m \in accepted' \cup dpub' : m < next'
  BY <1>1, <1>2, <1>6 DEF BatchInv
<1>8. ASSUME NEW q \in Publishers, pub'[q].pc = "putting", NEW j \in DOMAIN pub'[q].batch
      PROVE  /\ pub'[q].batch[j].id = pub'[q].batch[1].id + j - 1
             /\ pub'[q].batch[j].id < next'
             /\ pub'[q].batch[j].deferred <=> pub'[q].batch[j].id \in dpub'
             /\ pub'[q].batch[j].id \in accepted' <=> j <= pub'[q].i
  <2>1. CASE q = p
    <3>1. pub'[q].batch = pub[p].batch /\ pub'[q].i = pub[p].i + 1 /\ accepted' = accepted \cup {Turn(p).id}
      BY <1>5, <1>8, <2>1
    <3>2. j \in DOMAIN pub[p].batch
      BY <1>8, <3>1
    <3>3. pub[p].batch[j].id = Turn(p).id <=> j = pub[p].i + 1
      BY <1>1, <3>2, TurnFacts
    <3>4. pub[p].i \in Nat /\ j \in Nat
      BY <1>1, <3>2, TurnFacts
    <3>5. j <= pub[p].i + 1 <=> j <= pub[p].i \/ j = pub[p].i + 1
      BY <3>4
    <3>6. pub[p].batch[j].id \in accepted <=> j <= pub[p].i
      BY <1>1, <3>2 DEF BatchInv
    <3>7. QED
      BY <1>1, <3>1, <3>2, <3>3, <3>5, <3>6 DEF BatchInv
  <2>2. CASE q # p
    <3>1. pub'[q] = pub[q] /\ Putting(q)
      BY <1>4, <1>8, <2>2 DEF Putting
    <3>2. pub[q].batch[j].id # Turn(p).id
      BY <1>1, <1>8, <2>2, <3>1, TurnFacts DEF BatchInv, Turn
    <3>3. QED
      BY <1>1, <1>2, <1>8, <3>1, <3>2 DEF BatchInv
  <2>3. QED
    BY <2>1, <2>2
<1>9. ASSUME NEW q \in Publishers, pub'[q].pc = "putting"
      PROVE  Putting(q) /\ pub'[q].batch = pub[q].batch
  BY <1>1, <1>4, <1>5, <1>9 DEF Putting
<1>10. QED
  BY <1>7, <1>8, <1>9 DEF BatchInv, Putting

LEMMA BatchStep ==
  ASSUME IInv, [Next]_vars
  PROVE  BatchInv'
<1>1. TypeOK /\ BatchInv
  BY DEF IInv
<1>2. CASE UNCHANGED vars
  BY <1>1, <1>2, StutterFrame, BatchStutter DEF AllKept
<1>3. CASE \E p \in Publishers : Publish(p) \/ Put(p)
  BY <1>1, <1>3, BatchPublish, BatchPut
<1>4. CASE \E c \in Callers : NewCall(c) \/ Continue(c)
  <2>1. CallUnchanged \/ EmptyUnchanged
    BY <1>4 DEF NewCall, Continue, GetChannel, RemoveChannel, DoPause, EmptyBegin, DeleteChannel, UpdatePump,
                PausePump, GiveUp, Return, EmptyOne, EmptyEnd
  <2>2. QED
    BY <1>1, <2>1, CallFrame, EmptyFrame, BatchStutter DEF CallKeeps, EmptyKeeps
<1>5. CASE Start \/ MessagePump
  <2>1. PumpUnchanged
    BY <1>5 DEF Start, MessagePump, PumpStart, PumpSnap, PumpArm, PumpMemory, PumpBackend, PumpCorrupt, Deliver,
                PumpExit
  <2>2. QED
    BY <1>1, <2>1, PumpFrame, BatchStutter DEF PumpKeeps
<1>6. CASE (\E mode \in {"close", "delete"} : ExitFlag(mode)) \/ Exit
  <2>1. ExitUnchanged
    BY <1>6 DEF ExitFlag, Exit, CloseExitChan, DeleteChannels, DeleteQueues, RangeBegin, RangeClose, RangeEnd,
                FlushOne, FlushEnd
  <2>2. QED
    BY <1>1, <2>1, ExitFrame, BatchStutter DEF ExitKeeps
<1>7. QED
  BY <1>2, <1>3, <1>4, <1>5, <1>6 DEF Next, Quiet

-----------------------------------------------------------------------------
(* The place of every message.                                             *)

LEMMA PlaceStutter ==
  ASSUME PlaceInv, UNCHANGED <<memoryMsgChan, backend, msg, todo, delivered, thrown, accepted>>,
         ppc' = "deliver" <=> ppc = "deliver"
  PROVE  PlaceInv'
BY DEF PlaceInv, InMemory, InBackend

LEMMA PlacePut ==
  ASSUME TypeOK, BatchInv, PlaceInv, NEW p \in Publishers, Put(p)
  PROVE  PlaceInv'
<1>1. UNCHANGED <<msg, todo, delivered, ppc>> /\ Putting(p)
  BY PutFacts DEF PutKeeps
<1>2. Turn(p) \in Message /\ Turn(p).id \in Ids /\ Turn(p).id \notin accepted
  BY <1>1, TurnFacts
<1>3. memoryMsgChan \in Seq(Message) /\ backend \in Seq(Ids)
  BY DEF TypeOK
<1>4. UniqueIds(memoryMsgChan) /\ Unique(backend)
  BY DEF PlaceInv
<1>5. LET m == Turn(p).id IN
      ~HasId(memoryMsgChan, m) /\ ~Has(backend, m) /\ m # msg.id /\ m \notin delivered /\ m \notin thrown
  BY <1>2 DEF PlaceInv, InMemory, InBackend
<1>6. CASE accepted' = accepted
  BY <1>1, <1>6, PutFacts, PlaceStutter, <1>2
<1>7. CASE accepted' = accepted \cup {Turn(p).id}
  <2>1. CASE memoryMsgChan' = Append(memoryMsgChan, Turn(p)) /\ UNCHANGED <<backend, thrown>>
    <3>1. /\ \A m : HasId(memoryMsgChan', m) <=> HasId(memoryMsgChan, m) \/ m = Turn(p).id
          /\ UniqueIds(memoryMsgChan')
      BY <1>2, <1>3, <1>4, <1>5, <2>1, PutIds
    <3>2. QED
      BY <1>1, <1>2, <1>5, <1>7, <2>1, <3>1 DEF PlaceInv, InMemory, InBackend
  <2>2. CASE backend' = Append(backend, Turn(p).id) /\ UNCHANGED <<memoryMsgChan, thrown>>
    <3>1. /\ \A m : Has(backend', m) <=> Has(backend, m) \/ m = Turn(p).id
          /\ Unique(backend')
      BY <1>2, <1>3, <1>4, <1>5, <2>2, PutElements
    <3>2. QED
      BY <1>1, <1>2, <1>5, <1>7, <2>2, <3>1 DEF PlaceInv, InMemory, InBackend
  <2>3. CASE thrown' = thrown \cup {Turn(p).id} /\ UNCHANGED <<memoryMsgChan, backend>>
    BY <1>1, <1>2, <1>5, <1>7, <2>3 DEF PlaceInv, InMemory, InBackend
  <2>4. QED
    BY <1>2, <1>7, <2>1, <2>2, <2>3, PutFacts
<1>8. QED
  BY <1>6, <1>7, PutFacts

(* A message leaves the memory queue: for the pump, for the backend, or    *)
(* for nothing.                                                            *)
LEMMA PlaceFromMemory ==
  ASSUME TypeOK, PlaceInv, memoryMsgChan # <<>>, memoryMsgChan' = Tail(memoryMsgChan),
         UNCHANGED <<delivered, accepted>>,
         LET x == Head(memoryMsgChan) IN
           \/ /\ thrown' = thrown \cup {x.id}
              /\ UNCHANGED <<backend, msg, todo>> /\ (ppc' = "deliver" <=> ppc = "deliver")
           \/ /\ backend' = Append(backend, x.id)
              /\ UNCHANGED <<thrown, msg, todo>> /\ (ppc' = "deliver" <=> ppc = "deliver")
           \/ /\ msg = NoMsg /\ msg' = x /\ ppc' = "deliver"
              /\ UNCHANGED <<thrown, backend>>
  PROVE  PlaceInv'
<1> DEFINE x == Head(memoryMsgChan)
<1>1. memoryMsgChan \in Seq(Message) /\ backend \in Seq(Ids) /\ UniqueIds(memoryMsgChan) /\ Unique(backend)
  BY DEF TypeOK, PlaceInv
<1>2. /\ \A m : HasId(memoryMsgChan', m) <=> HasId(memoryMsgChan, m) /\ m # x.id
      /\ HasId(memoryMsgChan, x.id) /\ UniqueIds(memoryMsgChan') /\ x \in Message
  BY <1>1, TakeIds
<1>3. x.id \in Ids /\ NoMsg.id = 0 /\ 0 \notin Ids
  BY <1>2, InMapFacts DEF Message, NoMsg
<1>4. ~Has(backend, x.id) /\ x.id # msg.id /\ x.id \notin delivered /\ x.id \notin thrown /\ x.id \in accepted
  BY <1>2, <1>3 DEF PlaceInv, InMemory, InBackend
<1>5. CASE /\ thrown' = thrown \cup {x.id}
           /\ UNCHANGED <<backend, msg, todo>> /\ (ppc' = "deliver" <=> ppc = "deliver")
  <2> HIDE DEF x
  <2> QED
    BY <1>2, <1>3, <1>4, <1>5 DEF PlaceInv, InMemory, InBackend
<1>6. CASE /\ backend' = Append(backend, x.id)
           /\ UNCHANGED <<thrown, msg, todo>> /\ (ppc' = "deliver" <=> ppc = "deliver")
  <2> HIDE DEF x
  <2>1. (\A m : Has(backend', m) <=> Has(backend, m) \/ m = x.id) /\ Unique(backend')
    BY <1>1, <1>3, <1>4, <1>6, PutElements
  <2> QED
    BY <1>2, <1>3, <1>4, <1>6, <2>1 DEF PlaceInv, InMemory, InBackend
<1>7. CASE /\ msg = NoMsg /\ msg' = x /\ ppc' = "deliver"
           /\ UNCHANGED <<thrown, backend>>
  <2> HIDE DEF x
  <2> QED
    BY <1>2, <1>3, <1>4, <1>7 DEF PlaceInv, InMemory, InBackend
<1>8. QED
  BY <1>5, <1>6, <1>7

LEMMA PlaceFromBackend ==
  ASSUME TypeOK, PlaceInv, backend # <<>>, backend' = Tail(backend),
         UNCHANGED <<memoryMsgChan, delivered, accepted>>,
         LET x == Head(backend) IN
           \/ /\ thrown' = thrown \cup {x} /\ UNCHANGED <<msg, todo, ppc>>
           \/ /\ msg = NoMsg /\ msg' = [id |-> x, deferred |-> FALSE] /\ ppc' = "deliver"
              /\ thrown' = thrown
  PROVE  PlaceInv'
<1> DEFINE x == Head(backend)
<1>1. backend \in Seq(Ids) /\ Unique(backend)
  BY DEF TypeOK, PlaceInv
<1>2. /\ \A m : Has(backend', m) <=> Has(backend, m) /\ m # x
      /\ Has(backend, x) /\ Unique(backend') /\ x \in Ids
  BY <1>1, TakeElements
<1>3. NoMsg.id = 0 /\ 0 \notin Ids
  BY InMapFacts DEF NoMsg
<1>4. ~HasId(memoryMsgChan, x) /\ x # msg.id /\ x \notin delivered /\ x \notin thrown /\ x \in accepted
  BY <1>2 DEF PlaceInv, InMemory, InBackend
<1>5. CASE thrown' = thrown \cup {x} /\ UNCHANGED <<msg, todo, ppc>>
  <2> HIDE DEF x
  <2> QED
    BY <1>2, <1>3, <1>4, <1>5 DEF PlaceInv, InMemory, InBackend
<1>6. CASE /\ msg = NoMsg /\ msg' = [id |-> x, deferred |-> FALSE] /\ ppc' = "deliver"
           /\ thrown' = thrown
  <2> HIDE DEF x
  <2>1. msg' \in Message /\ msg'.id = x
    BY <1>2, <1>6 DEF Message
  <2> QED
    BY <1>2, <1>3, <1>4, <1>6, <2>1 DEF PlaceInv, InMemory, InBackend
<1>7. QED
  BY <1>5, <1>6

(* The queues are emptied.                                                 *)
LEMMA PlaceEmptied ==
  ASSUME TypeOK, PlaceInv, backend' = <<>>, memoryMsgChan' = <<>>,
         thrown' = thrown \cup ToSet(backend) \cup {m.id : m \in ToSet(memoryMsgChan)},
         UNCHANGED <<msg, todo, ppc, delivered, accepted>>
  PROVE  PlaceInv'
<1>1. \A m : m \in thrown' <=> m \in thrown \/ InBackend(m) \/ InMemory(m)
  BY QueueSets
<1>2. \A m : ~HasId(memoryMsgChan', m) /\ ~Has(backend', m)
  BY EmptyQueue
<1>3. UniqueIds(memoryMsgChan') /\ Unique(backend')
  BY EmptyQueue
<1>4. QED
  BY <1>1, <1>2, <1>3 DEF PlaceInv, InMemory, InBackend

(* Which calls touch the queues.                                           *)
LEMMA CallCases ==
  ASSUME NEW c \in Callers, NewCall(c) \/ Continue(c)
  PROVE  \/ /\ CallUnchanged
            /\ \/ UNCHANGED pumpVars
               \/ /\ ppc \in {"prestart", "select"} /\ UNCHANGED <<chans, armed, msg, todo>>
                  /\ ppc' \in {ppc, "snap", "arm"}
         \/ EmptyBegin(c) \/ EmptyOne(c) \/ EmptyEnd(c)
BY DEF NewCall, Continue, GetChannel, RemoveChannel, DoPause, DeleteChannel, UpdatePump, PausePump, GiveUp, Return

LEMMA PlaceCall ==
  ASSUME TypeOK, PlaceInv, NEW c \in Callers, NewCall(c) \/ Continue(c)
  PROVE  PlaceInv'
<1>1. CASE /\ CallUnchanged
           /\ \/ UNCHANGED pumpVars
              \/ /\ ppc \in {"prestart", "select"} /\ UNCHANGED <<chans, armed, msg, todo>>
                 /\ ppc' \in {ppc, "snap", "arm"}
  <2>1. CallKeeps
    BY <1>1, CallFrame
  <2>2. UNCHANGED <<msg, todo>> /\ (ppc' = "deliver" <=> ppc = "deliver")
    BY <1>1 DEF pumpVars
  <2>3. UNCHANGED <<memoryMsgChan, backend, delivered, thrown, accepted>>
    BY <2>1 DEF CallKeeps
  <2>4. QED
    BY <2>2, <2>3, PlaceStutter
<1>2. CASE EmptyBegin(c) \/ EmptyOne(c) \/ EmptyEnd(c)
  <2>1. EmptyUnchanged
    BY <1>2 DEF EmptyBegin, EmptyOne, EmptyEnd
  <2>2. UNCHANGED <<msg, todo, ppc, delivered, accepted>>
    BY <2>1, EmptyFrame DEF EmptyKeeps
  <2>3. CASE EmptyBegin(c)
    <3>1. UNCHANGED <<memoryMsgChan, backend, thrown>>
      BY <2>3 DEF EmptyBegin, queueVars
    <3>2. QED
      BY <2>2, <3>1, PlaceStutter
  <2>4. CASE EmptyOne(c)
    <3>1. memoryMsgChan # <<>> /\ memoryMsgChan' = Tail(memoryMsgChan) /\ backend' = backend
          /\ thrown' = thrown \cup {Head(memoryMsgChan).id}
      BY <2>4 DEF EmptyOne
    <3>2. QED
      BY <2>2, <3>1, PlaceFromMemory
  <2>5. CASE EmptyEnd(c)
    <3>1. memoryMsgChan = <<>> /\ memoryMsgChan' = <<>>
          /\ (UNCHANGED <<backend, thrown>> \/ (backend' = <<>> /\ thrown' = thrown \cup ToSet(backend)))
      BY <2>5 DEF EmptyEnd
    <3>2. {m.id : m \in ToSet(memoryMsgChan)} = {}
      BY <3>1, QueueSets, EmptyQueue DEF InMemory
    <3>3. CASE UNCHANGED <<backend, thrown>>
      BY <2>2, <3>1, <3>3, PlaceStutter
    <3>4. CASE backend' = <<>> /\ thrown' = thrown \cup ToSet(backend)
      <4>1. thrown' = thrown \cup ToSet(backend) \cup {m.id : m \in ToSet(memoryMsgChan)}
        BY <3>2, <3>4
      <4>2. QED
        BY <2>2, <3>1, <3>4, <4>1, PlaceEmptied
    <3>5. QED
      BY <3>1, <3>3, <3>4
  <2>6. QED
    BY <1>2, <2>3, <2>4, <2>5
<1>3. QED
  BY <1>1, <1>2, CallCases

LEMMA PlacePump ==
  ASSUME TypeOK, PlaceInv, Start \/ MessagePump
  PROVE  PlaceInv'
<1>1. PumpUnchanged
  BY DEF Start, MessagePump, PumpStart, PumpSnap, PumpArm, PumpMemory, PumpBackend, PumpCorrupt, Deliver, PumpExit
<1>2. accepted' = accepted
  BY <1>1, PumpFrame DEF PumpKeeps
<1>3. CASE Start \/ PumpStart \/ PumpSnap \/ PumpArm \/ PumpExit
  <2>1. UNCHANGED <<memoryMsgChan, backend, msg, todo, delivered, thrown>> /\ (ppc' = "deliver" <=> ppc = "deliver")
    BY <1>3 DEF Start, PumpStart, PumpSnap, PumpArm, PumpExit, queueVars, pumpVars, pumpHist
  <2>2. QED
    BY <1>2, <2>1, PlaceStutter
<1>4. CASE PumpMemory
  <2>1. memoryMsgChan # <<>> /\ memoryMsgChan' = Tail(memoryMsgChan) /\ UNCHANGED <<backend, thrown, delivered>>
        /\ msg' = Head(memoryMsgChan) /\ ppc' = "deliver" /\ ppc = "select"
    BY <1>4 DEF PumpMemory, Take, pumpHist
  <2>2. msg = NoMsg
    BY <2>1 DEF PlaceInv
  <2>3. QED
    BY <1>2, <2>1, <2>2, PlaceFromMemory
<1>5. CASE PumpBackend
  <2>1. backend # <<>> /\ backend' = Tail(backend) /\ UNCHANGED <<memoryMsgChan, thrown, delivered>>
        /\ msg' = [id |-> Head(backend), deferred |-> FALSE] /\ ppc' = "deliver" /\ ppc = "select"
    BY <1>5 DEF PumpBackend, Take, pumpHist
  <2>2. msg = NoMsg
    BY <2>1 DEF PlaceInv
  <2>3. QED
    BY <1>2, <2>1, <2>2, PlaceFromBackend
<1>6. CASE PumpCorrupt
  <2>1. backend # <<>> /\ backend' = Tail(backend) /\ UNCHANGED <<memoryMsgChan, delivered, msg, todo, ppc>>
        /\ thrown' = thrown \cup {Head(backend)}
    BY <1>6 DEF PumpCorrupt, pumpVars, pumpHist
  <2>2. QED
    BY <1>2, <2>1, PlaceFromBackend
<1>7. CASE \E o \in Chans : Deliver(o)
  <2>1. PICK o \in Chans : Deliver(o)
    BY <1>7
  <2>2. UNCHANGED <<memoryMsgChan, backend, thrown>> /\ ppc = "deliver" /\ msg.id \in Ids /\ todo' = todo \ {o}
    BY <2>1, DeliverFacts DEF queueVars
  <2>3. CASE todo = {o} /\ ppc' = "select" /\ msg' = NoMsg /\ delivered' = delivered \cup {msg.id}
    <3>1. msg'.id = 0 /\ 0 \notin Ids /\ todo' = {}
      BY <2>2, <2>3, InMapFacts DEF NoMsg
    <3>2. QED
      BY <1>2, <2>2, <2>3, <3>1 DEF PlaceInv, InMemory, InBackend
  <2>4. CASE UNCHANGED <<ppc, msg, delivered>>
    BY <1>2, <2>2, <2>4 DEF PlaceInv, InMemory, InBackend
  <2>5. QED
    BY <2>1, <2>3, <2>4, DeliverFacts
<1>8. QED
  BY <1>3, <1>4, <1>5, <1>6, <1>7 DEF MessagePump

LEMMA PlaceExit ==
  ASSUME TypeOK, PlaceInv, (\E mode \in {"close", "delete"} : ExitFlag(mode)) \/ Exit
  PROVE  PlaceInv'
<1>1. ExitUnchanged
  BY DEF ExitFlag, Exit, CloseExitChan, DeleteChannels, DeleteQueues, RangeBegin, RangeClose, RangeEnd, FlushOne, FlushEnd
<1>2. UNCHANGED <<msg, todo, ppc, delivered, accepted>>
  BY <1>1, ExitFrame DEF ExitKeeps
<1>3. CASE DeleteQueues
  BY <1>2, <1>3, PlaceEmptied DEF DeleteQueues
<1>4. CASE \E ok \in BOOLEAN : FlushOne(ok)
  <2>1. memoryMsgChan # <<>> /\ memoryMsgChan' = Tail(memoryMsgChan)
        /\ \/ backend' = Append(backend, Head(memoryMsgChan).id) /\ thrown' = thrown
           \/ backend' = backend /\ thrown' = thrown \cup {Head(memoryMsgChan).id}
    BY <1>4 DEF FlushOne
  <2>2. QED
    BY <1>2, <2>1, PlaceFromMemory
<1>5. CASE ~DeleteQueues /\ ~(\E ok \in BOOLEAN : FlushOne(ok))
  <2>1. UNCHANGED <<memoryMsgChan, backend, thrown>>
    BY <1>5 DEF ExitFlag, Exit, CloseExitChan, DeleteChannels, RangeBegin, RangeClose, RangeEnd, FlushEnd, queueVars
  <2>2. QED
    BY <1>2, <2>1, PlaceStutter
<1>6. QED
  BY <1>3, <1>4, <1>5

LEMMA PlaceStep ==
  ASSUME IInv, [Next]_vars
  PROVE  PlaceInv'
<1>1. TypeOK /\ BatchInv /\ PlaceInv
  BY DEF IInv
<1>2. CASE UNCHANGED vars
  BY <1>1, <1>2, StutterFrame, PlaceStutter DEF AllKept
<1>3. CASE \E p \in Publishers : Publish(p)
  <2>1. UNCHANGED <<memoryMsgChan, backend, msg, todo, delivered, thrown, accepted, ppc>>
    BY <1>3 DEF Publish, PutMessages, PutMessagesExiting, queueVars, pumpVars, pumpHist
  <2>2. QED
    BY <1>1, <2>1, PlaceStutter
<1>4. CASE \E p \in Publishers : Put(p)
  BY <1>1, <1>4, PlacePut
<1>5. CASE \E c \in Callers : NewCall(c) \/ Continue(c)
  BY <1>1, <1>5, PlaceCall
<1>6. CASE Start \/ MessagePump
  BY <1>1, <1>6, PlacePump
<1>7. CASE (\E mode \in {"close", "delete"} : ExitFlag(mode)) \/ Exit
  BY <1>1, <1>7, PlaceExit
<1>8. QED
  BY <1>2, <1>3, <1>4, <1>5, <1>6, <1>7 DEF Next, Quiet

-----------------------------------------------------------------------------
(* The deferral.                                                           *)

LEMMA DeferQueues ==
  ASSUME DeferInv, UNCHANGED <<dpub, msg, now, later, delivered>>, spilled \subseteq spilled',
         \A j \in DOMAIN memoryMsgChan' : memoryMsgChan'[j].deferred <=> memoryMsgChan'[j].id \in dpub,
         \A m \in Ids : Has(backend', m) => m \in spilled'
  PROVE  DeferInv'
<1>1. Kept(memoryMsgChan)' /\ \A m \in Ids : InBackend(m)' => m \in spilled'
  BY DEF Kept, InBackend
<1>2. DeferralKept'
  BY DEF DeferInv, DeferralKept
<1>3. QED
  BY <1>1, <1>2 DEF DeferInv

LEMMA DeferStutter ==
  ASSUME DeferInv, UNCHANGED <<memoryMsgChan, backend, dpub, msg, spilled, now, later, delivered>>
  PROVE  DeferInv'
BY DEF DeferInv, Kept, InBackend, DeferralKept

LEMMA DeferPublish ==
  ASSUME TypeOK, BatchInv, PlaceInv, DeferInv, NEW p \in Publishers, Publish(p)
  PROVE  DeferInv'
<1>1. UNCHANGED <<memoryMsgChan, backend, msg, spilled, now, later, delivered>> /\ dpub' \in {dpub, dpub \cup {next}}
  BY DEF Publish, PutMessages, PutMessagesExiting, queueVars, pumpVars, pumpHist
<1>2. next \in Nat /\ next # 0 /\ next \notin accepted /\ Ids \subseteq Nat /\ 0 \notin Ids
  BY InMapFacts DEF TypeOK, BatchInv
<1>3. memoryMsgChan \in Seq(Message)
  BY DEF TypeOK
<1>4. \A j \in DOMAIN memoryMsgChan : memoryMsgChan[j].id # next
  <2>1. ASSUME NEW j \in DOMAIN memoryMsgChan PROVE memoryMsgChan[j].id # next
    <3>1. memoryMsgChan[j] \in Message
      BY <1>3, <2>1
    <3>2. memoryMsgChan[j].id \in Ids /\ InMemory(memoryMsgChan[j].id)
      BY <2>1, <3>1 DEF Message, InMemory, HasId
    <3>3. QED
      BY <1>2, <3>2 DEF PlaceInv
  <2>2. QED
    BY <2>1
<1>5. msg.id # next /\ next \notin delivered
  <2>1. msg.id = 0 \/ msg.id \in Ids
    BY DEF TypeOK, NoMsg, Message
  <2>2. QED
    BY <1>2, <2>1 DEF PlaceInv, TypeOK
<1>6. \A o \in Chans : next \notin now[o] \cup later[o]
  BY <1>5 DEF DeferInv
<1>7. Kept(memoryMsgChan)'
  BY <1>1, <1>4 DEF DeferInv, Kept
<1>8. DeferralKept'
  BY <1>1, <1>6 DEF DeferInv, DeferralKept
<1>9. QED
  BY <1>1, <1>5, <1>7, <1>8 DEF DeferInv, InBackend

LEMMA DeferPut ==
  ASSUME TypeOK, BatchInv, PlaceInv, DeferInv, NEW p \in Publishers, Put(p)
  PROVE  DeferInv'
<1>1. UNCHANGED <<msg, dpub, now, later, delivered>> /\ Putting(p)
  BY PutFacts DEF PutKeeps
<1>2. Turn(p) \in Message /\ Turn(p).id \in Ids /\ (Turn(p).deferred <=> Turn(p).id \in dpub)
  BY <1>1, TurnFacts
<1>3. memoryMsgChan \in Seq(Message) /\ backend \in Seq(Ids)
  BY DEF TypeOK
<1>4. CASE memoryMsgChan' = Append(memoryMsgChan, Turn(p)) /\ UNCHANGED <<backend, spilled>>
  <2>1. \A j \in DOMAIN memoryMsgChan' :
          memoryMsgChan'[j] = Turn(p) \/ \E k \in DOMAIN memoryMsgChan : memoryMsgChan'[j] = memoryMsgChan[k]
    BY <1>2, <1>3, <1>4, PutIds
  <2>2. \A j \in DOMAIN memoryMsgChan' : memoryMsgChan'[j].deferred <=> memoryMsgChan'[j].id \in dpub
    BY <1>2, <2>1 DEF DeferInv, Kept
  <2>3. \A m \in Ids : Has(backend', m) => m \in spilled'
    BY <1>4 DEF DeferInv, InBackend
  <2>4. QED
    BY <1>1, <1>4, <2>2, <2>3, DeferQueues
<1>5. CASE backend' = Append(backend, Turn(p).id) /\ memoryMsgChan' = memoryMsgChan /\ spilled' = spilled \cup {Turn(p).id}
  <2>1. \A m \in Ids : Has(backend', m) => m \in spilled'
    <3>1. \A m : Has(backend', m) <=> Has(backend, m) \/ m = Turn(p).id
      BY <1>2, <1>3, <1>5, PutElements
    <3>2. QED
      BY <1>5, <3>1 DEF DeferInv, InBackend
  <2>2. QED
    BY <1>1, <1>5, <2>1, DeferQueues DEF DeferInv, Kept
<1>6. CASE UNCHANGED <<memoryMsgChan, backend>> /\ spilled \subseteq spilled'
  BY <1>1, <1>6, DeferQueues DEF DeferInv, Kept, InBackend
<1>7. QED
  BY <1>4, <1>5, <1>6, PutFacts

(* Messages leave the queues, and may go on to the backend.                *)
LEMMA DeferDrain ==
  ASSUME TypeOK, PlaceInv, DeferInv, UNCHANGED <<dpub, msg, now, later, delivered>>,
         memoryMsgChan' \in {memoryMsgChan, <<>>} \/ (memoryMsgChan # <<>> /\ memoryMsgChan' = Tail(memoryMsgChan)),
         spilled \subseteq spilled', \A m \in Ids : Has(backend', m) => Has(backend, m) \/ m \in spilled'
  PROVE  DeferInv'
<1>1. Kept(memoryMsgChan) /\ memoryMsgChan \in Seq(Message) /\ UniqueIds(memoryMsgChan)
  BY DEF DeferInv, TypeOK, PlaceInv
<1>2. \A j \in DOMAIN memoryMsgChan' : memoryMsgChan'[j].deferred <=> memoryMsgChan'[j].id \in dpub
  <2>1. CASE memoryMsgChan' = memoryMsgChan
    BY <1>1, <2>1 DEF Kept
  <2>2. CASE memoryMsgChan' = <<>>
    BY <2>2
  <2>3. CASE memoryMsgChan # <<>> /\ memoryMsgChan' = Tail(memoryMsgChan)
    <3>1. \A j \in DOMAIN memoryMsgChan' : \E k \in DOMAIN memoryMsgChan : memoryMsgChan'[j] = memoryMsgChan[k]
      BY <1>1, <2>3, TakeIds
    <3>2. QED
      BY <1>1, <3>1 DEF Kept
  <2>4. QED
    BY <2>1, <2>2, <2>3
<1>3. \A m \in Ids : Has(backend', m) => m \in spilled'
  BY DEF DeferInv, InBackend
<1>4. QED
  BY <1>2, <1>3, DeferQueues

LEMMA DeferCall ==
  ASSUME TypeOK, PlaceInv, DeferInv, NEW c \in Callers, NewCall(c) \/ Continue(c)
  PROVE  DeferInv'
<1>1. CASE EmptyBegin(c) \/ EmptyOne(c) \/ EmptyEnd(c)
  <2>1. UNCHANGED <<dpub, msg, now, later, delivered, spilled>>
    BY <1>1, EmptyFrame DEF EmptyBegin, EmptyOne, EmptyEnd, EmptyKeeps
  <2>2. /\ memoryMsgChan' = memoryMsgChan \/ (memoryMsgChan # <<>> /\ memoryMsgChan' = Tail(memoryMsgChan))
        /\ backend' = backend \/ backend' = <<>>
    BY <1>1 DEF EmptyBegin, EmptyOne, EmptyEnd, queueVars
  <2>3. \A m \in Ids : Has(backend', m) => Has(backend, m)
    BY <2>2, EmptyQueue
  <2>4. QED
    BY <2>1, <2>2, <2>3, DeferDrain
<1>2. CASE CallUnchanged /\ msg' = msg
  BY <1>2, CallFrame, DeferStutter DEF CallKeeps
<1>3. QED
  BY <1>1, <1>2, CallCases DEF pumpVars

LEMMA DeferPump ==
  ASSUME TypeOK, PlaceInv, DeferInv, Start \/ MessagePump
  PROVE  DeferInv'
<1>1. PumpUnchanged
  BY DEF Start, MessagePump, PumpStart, PumpSnap, PumpArm, PumpMemory, PumpBackend, PumpCorrupt, Deliver, PumpExit
<1>2. UNCHANGED <<dpub, spilled>>
  BY <1>1, PumpFrame DEF PumpKeeps
<1>3. CASE Start \/ PumpStart \/ PumpSnap \/ PumpArm \/ PumpExit
  <2>1. UNCHANGED <<memoryMsgChan, backend, msg, now, later, delivered>>
    BY <1>3 DEF Start, PumpStart, PumpSnap, PumpArm, PumpExit, queueVars, pumpVars, pumpHist
  <2>2. QED
    BY <1>2, <2>1, DeferStutter
<1>4. CASE PumpCorrupt
  <2>1. UNCHANGED <<memoryMsgChan, msg, now, later, delivered>> /\ backend # <<>> /\ backend' = Tail(backend)
    BY <1>4 DEF PumpCorrupt, pumpVars, pumpHist
  <2>2. \A m \in Ids : Has(backend', m) => Has(backend, m)
    BY <2>1, TakeElements DEF TypeOK, PlaceInv
  <2>3. QED
    BY <1>2, <2>1, <2>2, DeferDrain
<1>5. ASSUME ppc = "select" PROVE \A o \in Chans : now[o] \cup later[o] \subseteq delivered
  <2>1. msg.id = 0 /\ 0 \notin Ids
    BY <1>5, InMapFacts DEF PlaceInv, NoMsg
  <2>2. QED
    BY <2>1 DEF DeferInv, TypeOK
<1>6. CASE PumpMemory
  <2> DEFINE x == Head(memoryMsgChan)
  <2>1. memoryMsgChan # <<>> /\ memoryMsgChan' = Tail(memoryMsgChan) /\ ppc = "select"
        /\ msg' = x /\ UNCHANGED <<backend, now, later, delivered>>
    BY <1>6 DEF PumpMemory, Take, pumpHist
  <2>2. memoryMsgChan \in Seq(Message) /\ UniqueIds(memoryMsgChan) /\ Kept(memoryMsgChan)
    BY DEF TypeOK, PlaceInv, DeferInv
  <2>3. /\ HasId(memoryMsgChan, x.id) /\ x \in Message /\ \E k \in DOMAIN memoryMsgChan : x = memoryMsgChan[k]
        /\ \A j \in DOMAIN memoryMsgChan' : \E k \in DOMAIN memoryMsgChan : memoryMsgChan'[j] = memoryMsgChan[k]
    BY <2>1, <2>2, TakeIds
  <2> HIDE DEF x
  <2>4. Kept(memoryMsgChan)' /\ (x.deferred <=> x.id \in dpub)
    BY <1>2, <2>2, <2>3 DEF Kept
  <2>5. x.id \in Ids /\ x.id \notin delivered
    BY <2>3 DEF Message, PlaceInv, InMemory
  <2>6. \A o \in Chans : x.id \notin now[o] \cup later[o]
    BY <1>5, <2>1, <2>5
  <2>7. DeferralKept' /\ (\A m \in Ids : InBackend(m)' => m \in spilled')
    BY <1>2, <2>1 DEF DeferInv, DeferralKept, InBackend
  <2>8. QED
    BY <1>2, <1>5, <2>1, <2>4, <2>6, <2>7 DEF DeferInv
<1>7. CASE PumpBackend
  <2> DEFINE x == Head(backend)
  <2>1. backend # <<>> /\ backend' = Tail(backend) /\ ppc = "select"
        /\ msg' = [id |-> x, deferred |-> FALSE] /\ UNCHANGED <<memoryMsgChan, now, later, delivered>>
    BY <1>7 DEF PumpBackend, Take, pumpHist
  <2>2. backend \in Seq(Ids) /\ Unique(backend)
    BY DEF TypeOK, PlaceInv
  <2>3. Has(backend, x) /\ x \in Ids /\ \A m : Has(backend', m) => Has(backend, m)
    BY <2>1, <2>2, TakeElements
  <2> HIDE DEF x
  <2>4. x \in spilled /\ x \notin delivered
    BY <2>3 DEF DeferInv, InBackend, PlaceInv
  <2>5. \A o \in Chans : x \notin now[o] \cup later[o]
    BY <1>5, <2>1, <2>4
  <2>6. DeferralKept' /\ Kept(memoryMsgChan)' /\ (\A m \in Ids : InBackend(m)' => m \in spilled')
    BY <1>2, <2>1, <2>3 DEF DeferInv, DeferralKept, InBackend, Kept
  <2>7. msg'.id = x /\ msg'.deferred = FALSE
    BY <2>1
  <2>8. QED
    BY <1>2, <1>5, <2>1, <2>4, <2>5, <2>6, <2>7 DEF DeferInv
<1>8. CASE \E o \in Chans : Deliver(o)
  <2>1. PICK o \in Chans : Deliver(o)
    BY <1>8
  <2>2. UNCHANGED <<memoryMsgChan, backend>> /\ msg.id \in Ids
    BY <2>1, DeliverFacts DEF queueVars
  <2>3. /\ now \in [Chans -> SUBSET Ids] /\ later \in [Chans -> SUBSET Ids]
        /\ NoMsg.id = 0 /\ NoMsg.deferred = FALSE /\ 0 \notin Ids /\ dpub \subseteq Ids
    BY InMapFacts DEF TypeOK, NoMsg
  <2>4. /\ \A q \in Chans : now'[q] = now[q] \/ (~msg.deferred /\ now'[q] = now[q] \cup {msg.id})
        /\ \A q \in Chans : later'[q] = later[q] \/ (msg.deferred /\ later'[q] = later[q] \cup {msg.id})
    BY <2>1, <2>3, DeliverFacts
  <2>5. Kept(memoryMsgChan)' /\ (\A m \in Ids : InBackend(m)' => m \in spilled')
    BY <1>2, <2>2 DEF DeferInv, InBackend, Kept
  <2>6. DeferralKept'
    <3>1. \A q \in Chans : now'[q] \cap dpub \subseteq spilled /\ later'[q] \subseteq dpub
      BY <2>4 DEF DeferInv, DeferralKept
    <3>2. \A q, r \in Chans : now'[q] \cap later'[r] = {}
      BY <2>4 DEF DeferInv, DeferralKept
    <3>3. QED
      BY <1>2, <3>1, <3>2 DEF DeferralKept
  <2>7. \A q \in Chans : now'[q] \cup later'[q] \subseteq delivered \cup {msg.id} /\ now'[q] \subseteq Ids /\ later'[q] \subseteq Ids
    BY <2>2, <2>3, <2>4 DEF DeferInv
  <2>8. \A q \in Chans : (msg.deferred => msg.id \notin now'[q]) /\ (~msg.deferred => msg.id \notin later'[q])
    BY <2>4 DEF DeferInv
  <2>9. CASE msg' = NoMsg /\ delivered' = delivered \cup {msg.id}
    BY <1>2, <2>3, <2>5, <2>6, <2>7, <2>9 DEF DeferInv
  <2>10. CASE UNCHANGED <<msg, delivered>>
    BY <1>2, <2>5, <2>6, <2>7, <2>8, <2>10 DEF DeferInv
  <2>11. QED
    BY <2>1, <2>9, <2>10, DeliverFacts
<1>9. QED
  BY <1>3, <1>4, <1>6, <1>7, <1>8 DEF MessagePump

LEMMA DeferExit ==
  ASSUME TypeOK, PlaceInv, DeferInv, (\E mode \in {"close", "delete"} : ExitFlag(mode)) \/ Exit
  PROVE  DeferInv'
<1>1. ExitUnchanged
  BY DEF ExitFlag, Exit, CloseExitChan, DeleteChannels, DeleteQueues, RangeBegin, RangeClose, RangeEnd, FlushOne, FlushEnd
<1>2. UNCHANGED <<dpub, msg, now, later, delivered>>
  BY <1>1, ExitFrame DEF ExitKeeps
<1>3. CASE DeleteQueues
  <2>1. memoryMsgChan' = <<>> /\ backend' = <<>> /\ spilled' = spilled
    BY <1>3 DEF DeleteQueues
  <2>2. QED
    BY <1>2, <2>1, EmptyQueue, DeferDrain
<1>4. CASE \E ok \in BOOLEAN : FlushOne(ok)
  <2>1. memoryMsgChan # <<>> /\ memoryMsgChan' = Tail(memoryMsgChan) /\ spilled' = spilled \cup {Head(memoryMsgChan).id}
        /\ (backend' = backend \/ backend' = Append(backend, Head(memoryMsgChan).id))
    BY <1>4 DEF FlushOne
  <2>2. Head(memoryMsgChan) \in Message /\ memoryMsgChan \in Seq(Message) /\ backend \in Seq(Ids)
    BY <2>1 DEF TypeOK
  <2>3. Head(memoryMsgChan).id \in Ids
    BY <2>2 DEF Message
  <2>4. \A m \in Ids : Has(backend', m) => Has(backend, m) \/ m \in spilled'
    BY <2>1, <2>2, <2>3, PutElements
  <2>5. QED
    BY <1>2, <2>1, <2>4, DeferDrain
<1>5. CASE ~DeleteQueues /\ ~(\E ok \in BOOLEAN : FlushOne(ok))
  <2>1. UNCHANGED <<memoryMsgChan, backend, spilled>>
    BY <1>5 DEF ExitFlag, Exit, CloseExitChan, DeleteChannels, RangeBegin, RangeClose, RangeEnd, FlushEnd, queueVars
  <2>2. QED
    BY <1>2, <2>1, DeferStutter
<1>6. QED
  BY <1>3, <1>4, <1>5

LEMMA DeferStep ==
  ASSUME IInv, [Next]_vars
  PROVE  DeferInv'
<1>1. TypeOK /\ BatchInv /\ PlaceInv /\ DeferInv
  BY DEF IInv
<1>2. CASE UNCHANGED vars
  BY <1>1, <1>2, StutterFrame, DeferStutter DEF AllKept
<1>3. CASE \E p \in Publishers : Publish(p) \/ Put(p)
  BY <1>1, <1>3, DeferPublish, DeferPut
<1>4. CASE \E c \in Callers : NewCall(c) \/ Continue(c)
  BY <1>1, <1>4, DeferCall
<1>5. CASE Start \/ MessagePump
  BY <1>1, <1>5, DeferPump
<1>6. CASE (\E mode \in {"close", "delete"} : ExitFlag(mode)) \/ Exit
  BY <1>1, <1>6, DeferExit
<1>7. QED
  BY <1>2, <1>3, <1>4, <1>5, <1>6 DEF Next, Quiet

-----------------------------------------------------------------------------
(* The offer to the channels.                                              *)

LEMMA GetMap ==
  ASSUME TypeOK, ChansInv, NEW c \in Callers, NEW n \in Names, GetChannel(c, n) \/ RemoveChannel(c, n)
  PROVE  /\ \A o \in 1..made : o \in InMap' => o \in InMap
         /\ gone' = gone /\ UNCHANGED <<ppc, chans, msg, todo>> /\ CallKeeps
<1>1. gone' = gone /\ UNCHANGED <<ppc, chans, msg, todo>> /\ CallKeeps
  BY CallFrame DEF GetChannel, RemoveChannel, pumpVars
<1>2. /\ channelMap' = [channelMap EXCEPT ![n] = made + 1] \/ channelMap' = [channelMap EXCEPT ![n] = NoChan]
      /\ channelMap \in [Names -> Chans \cup {NoChan}] /\ made \in Nat
  BY DEF GetChannel, RemoveChannel, TypeOK
<1>3. \A j \in Names : channelMap'[j] = channelMap[j] \/ channelMap'[j] = made + 1 \/ channelMap'[j] = NoChan
  BY <1>2
<1>4. \A o \in 1..made : o # made + 1
  BY <1>2
<1>5. QED
  BY <1>1, <1>3, <1>4 DEF InMap

LEMMA OfferKept ==
  ASSUME TypeOK, ChansInv, PlaceInv, OfferInv, UNCHANGED <<delivered, msg, todo, now, later>>,
         ppc' = "deliver" => ppc = "deliver", gone \subseteq gone',
         \A m \in accepted : ready'[m] = ready[m],
         \A o \in 1..made : o \in InMap' => o \in InMap
  PROVE  OfferInv'
<1>1. \A m \in delivered : m \in Ids /\ m \in accepted /\ ready'[m] = ready[m] /\ ready[m] \subseteq 1..made
  BY DEF TypeOK, PlaceInv, ChansInv
<1>2. NoMissedChannel'
  BY <1>1 DEF OfferInv, NoMissedChannel
<1>3. ASSUME ppc' = "deliver", NEW o \in ready'[msg.id]
      PROVE  o \in todo \/ msg.id \in now[o] \cup later[o] \/ o \in gone' \/ o \notin InMap'
  <2>1. ppc = "deliver" /\ msg \in Message
    BY <1>3 DEF PlaceInv
  <2>2. msg.id \in Ids
    BY <2>1 DEF Message
  <2>3. msg.id \in accepted
    BY <2>2 DEF PlaceInv
  <2>4. o \in ready[msg.id] /\ ready[msg.id] \subseteq 1..made
    BY <1>3, <2>2, <2>3 DEF ChansInv
  <2>5. QED
    BY <2>1, <2>4 DEF OfferInv, Served
<1>4. QED
  BY <1>2, <1>3 DEF OfferInv, Served

LEMMA OfferPublish ==
  ASSUME TypeOK, ChansInv, BatchInv, PlaceInv, OfferInv, NEW p \in Publishers, Publish(p)
  PROVE  OfferInv'
<1>1. UNCHANGED <<delivered, msg, todo, now, later, ppc, gone, channelMap>>
  BY DEF Publish, PutMessages, PutMessagesExiting, pumpVars, pumpHist, mapVars
<1>2. InMap' = InMap
  BY <1>1 DEF InMap
<1>3. \A m \in accepted : ready'[m] = ready[m]
  <2>1. CASE PutMessagesExiting(p)
    BY <2>1 DEF PutMessagesExiting
  <2>2. CASE \E k \in 1..2, d \in BOOLEAN : PutMessages(p, k, d)
    <3>1. PICK k \in 1..2, d \in BOOLEAN : PutMessages(p, k, d)
      BY <2>2
    <3>2. ready' = [m \in Ids |-> IF m \in next..(next + k - 1) THEN known ELSE ready[m]]
      BY <3>1 DEF PutMessages
    <3>3. \A m \in accepted : m \in Ids /\ m \in Nat /\ m < next
      BY InMapFacts DEF TypeOK, BatchInv
    <3>4. next \in Nat
      BY DEF TypeOK
    <3>5. \A m \in accepted : m \notin next..(next + k - 1)
      BY <3>3, <3>4
    <3>6. QED
      BY <3>2, <3>3, <3>5
  <2>3. QED
    BY <2>1, <2>2, PublishCases
<1>4. QED
  BY <1>1, <1>2, <1>3, OfferKept

LEMMA OfferCall ==
  ASSUME TypeOK, ChansInv, PlaceInv, OfferInv, NEW c \in Callers, NewCall(c) \/ Continue(c)
  PROVE  OfferInv'
<1>1. CASE \E n \in Names : GetChannel(c, n) \/ RemoveChannel(c, n)
  <2>1. PICK n \in Names : GetChannel(c, n) \/ RemoveChannel(c, n)
    BY <1>1
  <2>2. (\A o \in 1..made : o \in InMap' => o \in InMap) /\ gone' = gone /\ UNCHANGED <<ppc, msg, todo>> /\ CallKeeps
    BY <2>1, GetMap
  <2>3. UNCHANGED <<delivered, now, later, ready>>
    BY <2>2 DEF CallKeeps
  <2>4. QED
    BY <2>2, <2>3, OfferKept
<1>2. CASE EmptyBegin(c) \/ EmptyOne(c) \/ EmptyEnd(c)
  <2>1. EmptyKeeps
    BY <1>2, EmptyFrame DEF EmptyBegin, EmptyOne, EmptyEnd
  <2>2. UNCHANGED <<delivered, msg, todo, now, later, ready, ppc, gone, channelMap>>
    BY <2>1 DEF EmptyKeeps
  <2>3. InMap' = InMap
    BY <2>2 DEF InMap
  <2>4. QED
    BY <2>2, <2>3, OfferKept
<1>3. CASE DeleteChannel(c) \/ UpdatePump(c) \/ PausePump(c) \/ GiveUp(c) \/ \E pause \in BOOLEAN : DoPause(c, pause)
  <2>1. CallUnchanged /\ UNCHANGED <<channelMap, msg, todo>> /\ gone \subseteq gone' /\ (ppc' = "deliver" => ppc = "deliver")
    BY <1>3 DEF DeleteChannel, UpdatePump, PausePump, GiveUp, DoPause, Return, mapVars, pumpVars
  <2>2. CallKeeps
    BY <2>1, CallFrame
  <2>3. UNCHANGED <<delivered, now, later, ready>>
    BY <2>2 DEF CallKeeps
  <2>4. InMap' = InMap
    BY <2>1 DEF InMap
  <2>5. QED
    BY <2>1, <2>3, <2>4, OfferKept
<1>4. QED
  BY <1>1, <1>2, <1>3 DEF NewCall, Continue

LEMMA OfferPump ==
  ASSUME TypeOK, ChansInv, ServesInv, PlaceInv, OfferInv, Start \/ MessagePump
  PROVE  OfferInv'
<1>1. PumpUnchanged
  BY DEF Start, MessagePump, PumpStart, PumpSnap, PumpArm, PumpMemory, PumpBackend, PumpCorrupt, Deliver, PumpExit
<1>2. UNCHANGED <<channelMap, gone, ready>>
  BY <1>1, PumpFrame DEF PumpKeeps
<1>3. InMap' = InMap
  BY <1>2 DEF InMap
<1>4. CASE Start \/ PumpStart \/ PumpSnap \/ PumpArm \/ PumpExit \/ PumpCorrupt
  <2>1. UNCHANGED <<delivered, msg, todo, now, later>> /\ (ppc' = "deliver" => ppc = "deliver")
    BY <1>4 DEF Start, PumpStart, PumpSnap, PumpArm, PumpExit, PumpCorrupt, pumpVars, pumpHist
  <2>2. QED
    BY <1>2, <1>3, <2>1, OfferKept
<1>5. CASE PumpMemory \/ PumpBackend
  <2>1. ppc = "select" /\ todo' = chans /\ UNCHANGED <<delivered, now, later>>
    BY <1>5 DEF PumpMemory, PumpBackend, Take, pumpHist
  <2>2. msg'.id \in Ids
    <3>1. CASE PumpMemory
      <4>1. memoryMsgChan \in Seq(Message) /\ memoryMsgChan # <<>> /\ msg' = Head(memoryMsgChan)
        BY <3>1 DEF PumpMemory, Take, TypeOK
      <4>2. msg' \in Message
        BY <4>1
      <4>3. QED
        BY <4>2 DEF Message
    <3>2. CASE PumpBackend
      <4>1. backend \in Seq(Ids) /\ backend # <<>> /\ msg' = [id |-> Head(backend), deferred |-> FALSE]
        BY <3>2 DEF PumpBackend, Take, TypeOK
      <4>2. Head(backend) \in Ids /\ msg'.id = Head(backend)
        BY <4>1
      <4>3. QED
        BY <4>2
    <3>3. QED
      BY <1>5, <3>1, <3>2
  <2>3. \A m \in Ids : ready[m] \cap InMap \subseteq chans
    BY <2>1 DEF ServesInv, Pumping
  <2>4. NoMissedChannel'
    BY <1>2, <1>3, <2>1 DEF OfferInv, NoMissedChannel
  <2>5. QED
    BY <1>2, <1>3, <2>1, <2>2, <2>3, <2>4 DEF OfferInv, Served
<1>6. CASE \E o \in Chans : Deliver(o)
  <2>1. PICK o \in Chans : Deliver(o)
    BY <1>6
  <2>2. ppc = "deliver" /\ msg.id \in Ids /\ todo' = todo \ {o}
    BY <2>1, DeliverFacts
  <2>3. now \in [Chans -> SUBSET Ids] /\ later \in [Chans -> SUBSET Ids] /\ ready \in [Ids -> SUBSET Chans]
    BY DEF TypeOK
  <2>4. msg.id \in now'[o] \cup later'[o] \/ o \in gone
    BY <2>1, <2>3, DeliverFacts
  <2>5. \A q \in Chans : now[q] \cup later[q] \subseteq now'[q] \cup later'[q]
    BY <2>1, <2>3, DeliverFacts
  <2>6. \A q \in ready[msg.id] : q \in todo' \/ msg.id \in now'[q] \cup later'[q] \/ q \in gone \/ q \notin InMap
    BY <2>2, <2>3, <2>4, <2>5 DEF OfferInv, Served
  <2>7. \A m \in delivered : m \in Ids
    BY DEF TypeOK
  <2>8. \A m \in delivered : \A q \in ready[m] : m \in now'[q] \cup later'[q] \/ q \in gone \/ q \notin InMap
    BY <2>3, <2>5, <2>7 DEF OfferInv, NoMissedChannel
  <2>9. CASE todo = {o} /\ ppc' = "select" /\ delivered' = delivered \cup {msg.id}
    <3>1. todo' = {}
      BY <2>2, <2>9
    <3>2. NoMissedChannel'
      BY <1>2, <1>3, <2>6, <2>8, <2>9, <3>1 DEF NoMissedChannel
    <3>3. QED
      BY <2>9, <3>2 DEF OfferInv
  <2>10. CASE UNCHANGED <<ppc, msg, delivered>>
    <3>1. NoMissedChannel'
      BY <1>2, <1>3, <2>8, <2>10 DEF NoMissedChannel
    <3>2. QED
      BY <1>2, <1>3, <2>6, <2>10, <3>1 DEF OfferInv, Served
  <2>11. QED
    BY <2>1, <2>9, <2>10, DeliverFacts
<1>7. QED
  BY <1>4, <1>5, <1>6 DEF MessagePump

LEMMA OfferExit ==
  ASSUME TypeOK, ChansInv, PlaceInv, OfferInv, (\E mode \in {"close", "delete"} : ExitFlag(mode)) \/ Exit
  PROVE  OfferInv'
<1>1. ExitUnchanged
  BY DEF ExitFlag, Exit, CloseExitChan, DeleteChannels, DeleteQueues, RangeBegin, RangeClose, RangeEnd, FlushOne, FlushEnd
<1>2. UNCHANGED <<delivered, msg, todo, now, later, ppc, ready>>
  BY <1>1, ExitFrame DEF ExitKeeps
<1>3. gone \subseteq gone' /\ (channelMap' = channelMap \/ channelMap' = [n \in Names |-> NoChan])
  BY DEF ExitFlag, Exit, CloseExitChan, DeleteChannels, DeleteQueues, RangeBegin, RangeClose, RangeEnd, FlushOne, FlushEnd,
         mapVars
<1>4. \A o : o \in InMap' => o \in InMap
  BY <1>3 DEF InMap
<1>5. QED
  BY <1>2, <1>3, <1>4, OfferKept

LEMMA OfferStep ==
  ASSUME IInv, [Next]_vars
  PROVE  OfferInv'
<1>1. TypeOK /\ ChansInv /\ ServesInv /\ BatchInv /\ PlaceInv /\ OfferInv
  BY DEF IInv
<1>2. CASE UNCHANGED vars \/ \E p \in Publishers : Put(p)
  <2>1. AllKept \/ PutKeeps
    BY <1>1, <1>2, StutterFrame, PutFacts
  <2>2. UNCHANGED <<delivered, msg, todo, now, later, ppc, gone, ready, channelMap>>
    BY <2>1 DEF AllKept, PutKeeps
  <2>3. InMap' = InMap
    BY <2>2 DEF InMap
  <2>4. QED
    BY <1>1, <2>2, <2>3, OfferKept
<1>3. CASE \E p \in Publishers : Publish(p)
  BY <1>1, <1>3, OfferPublish
<1>4. CASE \E c \in Callers : NewCall(c) \/ Continue(c)
  BY <1>1, <1>4, OfferCall
<1>5. CASE Start \/ MessagePump
  BY <1>1, <1>5, OfferPump
<1>6. CASE (\E mode \in {"close", "delete"} : ExitFlag(mode)) \/ Exit
  BY <1>1, <1>6, OfferExit
<1>7. QED
  BY <1>2, <1>3, <1>4, <1>5, <1>6 DEF Next, Quiet

-----------------------------------------------------------------------------
(* The counter.                                                            *)

(* The first n messages of a batch.                                        *)
FirstIds(p, n) == {pub[p].batch[j].id : j \in 1..n}

LEMMA FirstIdsCount ==
  ASSUME TypeOK, BatchInv, NEW p \in Publishers, Putting(p), NEW n \in 0..Len(pub[p].batch)
  PROVE  IsFiniteSet(FirstIds(p, n)) /\ Cardinality(FirstIds(p, n)) = n
<1> DEFINE b == pub[p].batch
           a == b[1].id
<1>1. Len(b) \in Nat /\ n \in Nat /\ n <= Len(b) /\ 1 \in DOMAIN b /\ DOMAIN b = 1..Len(b)
  <2>1. DOMAIN b = 1..Len(b) /\ Len(b) \in Nat /\ pub[p].i \in Nat /\ pub[p].i + 1 \in 1..Len(b)
    BY TurnFacts
  <2>2. QED
    BY <2>1
<1>2. a \in Nat
  <2>1. a \in Ids
    BY <1>1, TurnFacts
  <2>2. QED
    BY <2>1, InMapFacts
<1>3. \A j \in 1..n : b[j].id = a + j - 1
  <2>1. \A j \in 1..n : j \in DOMAIN b
    BY <1>1
  <2>2. QED
    BY <2>1 DEF BatchInv
<1>4. FirstIds(p, n) = {b[j].id : j \in 1..n}
  BY DEF FirstIds
<1> HIDE DEF a, b
<1>5. FirstIds(p, n) = a..(a + n - 1)
  <2>1. \A m \in a..(a + n - 1) : m - a + 1 \in 1..n /\ a + (m - a + 1) - 1 = m
    BY <1>1, <1>2
  <2>2. \A j \in 1..n : a + j - 1 \in a..(a + n - 1)
    BY <1>1, <1>2
  <2>3. \A m \in FirstIds(p, n) : m \in a..(a + n - 1)
    BY <1>3, <1>4, <2>2
  <2>4. \A m \in a..(a + n - 1) : m \in FirstIds(p, n)
    BY <1>3, <1>4, <2>1
  <2>5. QED
    BY <2>3, <2>4
<1>6. a \in Int /\ a + n - 1 \in Int
  BY <1>1, <1>2
<1>7. IsFiniteSet(a..(a + n - 1)) /\ Cardinality(a..(a + n - 1)) = IF a > a + n - 1 THEN 0 ELSE (a + n - 1) - a + 1
  BY <1>6, FS_Interval
<1>8. (IF a > a + n - 1 THEN 0 ELSE (a + n - 1) - a + 1) = n
  BY <1>1, <1>2
<1>9. QED
  BY <1>5, <1>7, <1>8

LEMMA CountStutter ==
  ASSUME CountInv, UNCHANGED <<pub, accepted, messageCount>>
  PROVE  CountInv'
<1>1. UnderWay' = UnderWay
  BY DEF UnderWay, Putting
<1>2. QED
  BY <1>1 DEF CountInv

LEMMA CountPublish ==
  ASSUME TypeOK, CountInv, NEW p \in Publishers, Publish(p)
  PROVE  CountInv'
<1>1. UNCHANGED <<accepted, messageCount>> /\ pub[p].pc = "idle"
  BY DEF Publish, PutMessages, PutMessagesExiting
<1>2. pub' = pub \/ \E x : pub' = [pub EXCEPT ![p] = x] /\ x.i = 0
  <2>1. CASE PutMessagesExiting(p)
    BY <2>1 DEF PutMessagesExiting
  <2>2. CASE \E k \in 1..2, d \in BOOLEAN : PutMessages(p, k, d)
    <3>1. PICK k \in 1..2, d \in BOOLEAN : PutMessages(p, k, d)
      BY <2>2
    <3> DEFINE x == [pc |-> "putting", i |-> 0,
                     batch |-> [j \in 1..k |-> [id |-> next + j - 1, deferred |-> d]]]
    <3>2. pub' = [pub EXCEPT ![p] = x] /\ x.i = 0
      BY <3>1 DEF PutMessages
    <3>3. QED
      BY <3>2
  <2>3. QED
    BY <2>1, <2>2, PublishCases
<1>3. CASE pub' = pub
  BY <1>1, <1>3, CountStutter
<1>4. CASE \E x : pub' = [pub EXCEPT ![p] = x] /\ x.i = 0
  <2>1. pub'[p].i = 0 /\ \A q \in Publishers \ {p} : pub'[q] = pub[q]
    BY <1>4 DEF TypeOK
  <2>2. \A j \in 1..0 : FALSE
    OBVIOUS
  <2>3. UnderWay' = UnderWay
    BY <1>1, <2>1, <2>2 DEF UnderWay, Putting
  <2>4. QED
    BY <1>1, <2>3 DEF CountInv
<1>5. QED
  BY <1>2, <1>3, <1>4

(* A batch that is counted with n messages leaves the ones under way.      *)
LEMMA CountFinished ==
  ASSUME TypeOK, BatchInv, CountInv, NEW p \in Publishers, Putting(p), Finished(p),
         NEW n \in 0..Len(pub[p].batch), n \in {pub[p].i, pub[p].i + 1},
         accepted' = accepted \cup FirstIds(p, n), messageCount' = messageCount + n
  PROVE  CountInv'
<1> DEFINE C == accepted \ UnderWay
           S == FirstIds(p, n)
<1>1. IsFiniteSet(S) /\ Cardinality(S) = n
  BY FirstIdsCount
<1>2. IsFiniteSet(C)
  <2>1. NMsgs \in Int /\ 1 \in Int
    BY TopicAssumption
  <2>2. IsFiniteSet(Ids)
    BY <2>1, FS_Interval DEF Ids
  <2>3. C \subseteq Ids
    BY DEF TypeOK
  <2>4. QED
    BY <2>2, <2>3, FS_Subset
<1>3. /\ pub[p].i \in Nat /\ Len(pub[p].batch) \in Nat /\ DOMAIN pub[p].batch = 1..Len(pub[p].batch)
      /\ pub[p].i + 1 \in 1..Len(pub[p].batch) /\ Turn(p).id \notin accepted
  BY TurnFacts
<1>4. \A j \in 1..n : j \in DOMAIN pub[p].batch /\ (j \in 1..pub[p].i \/ j = pub[p].i + 1)
  BY <1>3
<1>5. \A j \in 1..pub[p].i : j \in DOMAIN pub[p].batch /\ j \in 1..n
  BY <1>3
<1>6. \A m \in S : m \in Ids /\ (m \in UnderWay \/ m \notin accepted)
  <2>1. ASSUME NEW m \in S PROVE m \in Ids /\ (m \in UnderWay \/ m \notin accepted)
    <3>1. PICK j \in 1..n : m = pub[p].batch[j].id
      BY DEF FirstIds
    <3>2. m \in Ids
      BY <1>4, <3>1, TurnFacts
    <3>3. CASE j \in 1..pub[p].i
      BY <3>1, <3>2, <3>3 DEF UnderWay
    <3>4. CASE j = pub[p].i + 1
      BY <1>3, <3>1, <3>2, <3>4 DEF Turn
    <3>5. QED
      BY <1>4, <3>2, <3>3, <3>4
  <2>2. QED
    BY <2>1
<1>7. S \cap C = {}
  BY <1>6
<1>8. accepted' \ UnderWay' = C \cup S
  <2>1. pub'[p].pc # "putting" /\ \A q \in Publishers \ {p} : pub'[q] = pub[q]
    BY DEF Finished, TypeOK, Silent
  <2>2. ASSUME NEW m PROVE m \in UnderWay' <=> m \in Ids /\ \E q \in Publishers \ {p} :
                             Putting(q) /\ \E j \in 1..pub[q].i : pub[q].batch[j].id = m
    BY <2>1 DEF UnderWay, Putting
  <2>3. ASSUME NEW m \in UnderWay PROVE m \in UnderWay' \/ m \in S
    <3>1. PICK q \in Publishers : Putting(q) /\ \E j \in 1..pub[q].i : pub[q].batch[j].id = m
      BY <2>3 DEF UnderWay
    <3>2. CASE q = p
      BY <1>5, <3>1, <3>2 DEF FirstIds
    <3>3. CASE q # p
      BY <2>2, <2>3, <3>1, <3>3 DEF UnderWay
    <3>4. QED
      BY <3>2, <3>3
  <2>4. ASSUME NEW m \in UnderWay' PROVE m \in UnderWay /\ m \notin S
    <3>1. PICK q \in Publishers \ {p} : Putting(q) /\ \E j \in 1..pub[q].i : pub[q].batch[j].id = m
      BY <2>2, <2>4
    <3>2. PICK j \in 1..pub[q].i : pub[q].batch[j].id = m
      BY <3>1
    <3>3. j \in DOMAIN pub[q].batch
      <4>1. pub[q].i \in Nat /\ Len(pub[q].batch) \in Nat /\ DOMAIN pub[q].batch = 1..Len(pub[q].batch)
            /\ pub[q].i + 1 \in 1..Len(pub[q].batch)
        BY <3>1, TurnFacts
      <4>2. QED
        BY <4>1
    <3>4. \A k \in DOMAIN pub[p].batch : pub[p].batch[k].id # m
      BY <3>1, <3>2, <3>3 DEF BatchInv
    <3>5. m \notin S
      BY <1>4, <3>4 DEF FirstIds
    <3>6. m \in UnderWay
      BY <2>2, <2>4, <3>1 DEF UnderWay
    <3>7. QED
      BY <3>5, <3>6
  <2> HIDE DEF S
  <2>5. accepted' = accepted \cup S
    BY DEF S
  <2>6. QED
    BY <2>3, <2>4, <2>5
<1>9. Cardinality(C \cup S) = Cardinality(C) + n
  <2> HIDE DEF C, S
  <2>1. Cardinality(C \cup S) = Cardinality(C) + Cardinality(S) - Cardinality(C \cap S)
    BY <1>1, <1>2, FS_Union
  <2>2. C \cap S = {} /\ Cardinality({}) = 0
    BY <1>7, FS_EmptySet
  <2>3. Cardinality(C) \in Nat /\ n \in Nat
    BY <1>1, <1>2, FS_CardinalityType
  <2>4. Cardinality(C \cup S) = Cardinality(C) + n - 0
    BY <1>1, <2>1, <2>2
  <2>5. QED
    BY <2>3, <2>4
<1>10. QED
  BY <1>8, <1>9 DEF CountInv

LEMMA CountPut ==
  ASSUME TypeOK, BatchInv, CountInv, NEW p \in Publishers, Put(p)
  PROVE  CountInv'
<1>1. Putting(p)
  BY PutFacts
<1>2. /\ pub[p].i \in Nat /\ Len(pub[p].batch) \in Nat /\ DOMAIN pub[p].batch = 1..Len(pub[p].batch)
      /\ pub[p].i + 1 \in 1..Len(pub[p].batch) /\ Turn(p).id \notin accepted /\ Turn(p).id \in Ids
  BY <1>1, TurnFacts
<1>3. \A j \in 1..pub[p].i : j \in DOMAIN pub[p].batch /\ j <= pub[p].i
  BY <1>2
<1>4. FirstIds(p, pub[p].i) \subseteq accepted
  BY <1>1, <1>3 DEF FirstIds, BatchInv
<1>5. CASE accepted' = accepted /\ Finished(p) /\ messageCount' = messageCount + pub[p].i
  <2>1. accepted' = accepted \cup FirstIds(p, pub[p].i) /\ pub[p].i \in 0..Len(pub[p].batch)
    BY <1>2, <1>4, <1>5
  <2>2. QED
    BY <1>1, <1>5, <2>1, CountFinished
<1>6. CASE accepted' = accepted \cup {Turn(p).id} /\ Finished(p) /\ messageCount' = messageCount + (pub[p].i + 1)
  <2>1. FirstIds(p, pub[p].i + 1) = FirstIds(p, pub[p].i) \cup {Turn(p).id}
    <3>1. \A j \in 1..(pub[p].i + 1) : j \in 1..pub[p].i \/ j = pub[p].i + 1
      BY <1>2
    <3>2. \A j \in 1..pub[p].i : j \in 1..(pub[p].i + 1)
      BY <1>2
    <3>3. pub[p].i + 1 \in 1..(pub[p].i + 1)
      BY <1>2
    <3>4. QED
      BY <3>1, <3>2, <3>3 DEF FirstIds, Turn
  <2>2. accepted' = accepted \cup FirstIds(p, pub[p].i + 1) /\ pub[p].i + 1 \in 0..Len(pub[p].batch)
    BY <1>2, <1>4, <1>6, <2>1
  <2>3. QED
    BY <1>1, <1>6, <2>2, CountFinished
<1>7. CASE accepted' = accepted \cup {Turn(p).id} /\ Advanced(p) /\ messageCount' = messageCount
  <2>1. /\ pub'[p].pc = "putting" /\ pub'[p].batch = pub[p].batch /\ pub'[p].i = pub[p].i + 1
        /\ \A q \in Publishers \ {p} : pub'[q] = pub[q]
    BY <1>1, <1>7 DEF Advanced, TypeOK, Putting
  <2>2. \A j : j \in 1..(pub[p].i + 1) <=> j \in 1..pub[p].i \/ j = pub[p].i + 1
    BY <1>2
  <2>3. UnderWay' = UnderWay \cup {Turn(p).id}
    <3>1. ASSUME NEW m \in UnderWay' PROVE m \in UnderWay \cup {Turn(p).id}
      <4>1. PICK q \in Publishers : pub'[q].pc = "putting" /\ \E j \in 1..pub'[q].i : pub'[q].batch[j].id = m
        BY <3>1 DEF UnderWay, Putting
      <4>2. m \in Ids
        BY <3>1 DEF UnderWay
      <4>3. CASE q = p
        BY <1>1, <2>1, <2>2, <4>1, <4>2, <4>3 DEF UnderWay, Turn
      <4>4. CASE q # p
        BY <2>1, <4>1, <4>2, <4>4 DEF UnderWay, Putting
      <4>5. QED
        BY <4>3, <4>4
    <3>2. ASSUME NEW m \in UnderWay PROVE m \in UnderWay'
      <4>1. PICK q \in Publishers : Putting(q) /\ \E j \in 1..pub[q].i : pub[q].batch[j].id = m
        BY <3>2 DEF UnderWay
      <4>2. pub'[q].pc = "putting" /\ \E j \in 1..pub'[q].i : pub'[q].batch[j].id = m
        BY <2>1, <2>2, <4>1 DEF Putting
      <4>3. QED
        BY <3>2, <4>2 DEF UnderWay, Putting
    <3>3. Turn(p).id \in UnderWay'
      BY <1>2, <2>1, <2>2 DEF UnderWay, Putting, Turn
    <3>4. QED
      BY <3>1, <3>2, <3>3
  <2>4. accepted' \ UnderWay' = accepted \ UnderWay
    BY <1>2, <1>7, <2>3
  <2>5. QED
    BY <1>7, <2>4 DEF CountInv
<1>8. QED
  BY <1>5, <1>6, <1>7, PutFacts

LEMMA CountStep ==
  ASSUME IInv, [Next]_vars
  PROVE  CountInv'
<1>1. TypeOK /\ BatchInv /\ CountInv
  BY DEF IInv
<1>2. CASE UNCHANGED vars
  BY <1>1, <1>2, StutterFrame, CountStutter DEF AllKept
<1>3. CASE \E p \in Publishers : Publish(p) \/ Put(p)
  BY <1>1, <1>3, CountPublish, CountPut
<1>4. CASE \E c \in Callers : NewCall(c) \/ Continue(c)
  <2>1. CallUnchanged \/ EmptyUnchanged
    BY <1>4 DEF NewCall, Continue, GetChannel, RemoveChannel, DoPause, EmptyBegin, DeleteChannel, UpdatePump,
                PausePump, GiveUp, Return, EmptyOne, EmptyEnd
  <2>2. QED
    BY <1>1, <2>1, CallFrame, EmptyFrame, CountStutter DEF CallKeeps, EmptyKeeps
<1>5. CASE Start \/ MessagePump
  <2>1. PumpUnchanged
    BY <1>5 DEF Start, MessagePump, PumpStart, PumpSnap, PumpArm, PumpMemory, PumpBackend, PumpCorrupt, Deliver,
                PumpExit
  <2>2. QED
    BY <1>1, <2>1, PumpFrame, CountStutter DEF PumpKeeps
<1>6. CASE (\E mode \in {"close", "delete"} : ExitFlag(mode)) \/ Exit
  <2>1. ExitUnchanged
    BY <1>6 DEF ExitFlag, Exit, CloseExitChan, DeleteChannels, DeleteQueues, RangeBegin, RangeClose, RangeEnd,
                FlushOne, FlushEnd
  <2>2. QED
    BY <1>1, <2>1, ExitFrame, CountStutter DEF ExitKeeps
<1>7. QED
  BY <1>2, <1>3, <1>4, <1>5, <1>6 DEF Next, Quiet

-----------------------------------------------------------------------------
(* The exit.                                                               *)

LEMMA ExitStutter ==
  ASSUME ExitInv, UNCHANGED <<xpc, xmode>>, ReadLocked' => ReadLocked,
         xpc = "done" /\ xmode = "delete" => UNCHANGED <<memoryMsgChan, backend>>
  PROVE  ExitInv'
BY DEF ExitInv, DeleteLeavesNothing

LEMMA ExitStep ==
  ASSUME IInv, [Next]_vars
  PROVE  ExitInv'
<1>1. TypeOK /\ BatchInv /\ ExitInv
  BY DEF IInv
<1>2. CASE UNCHANGED vars
  <2>1. UNCHANGED <<xpc, xmode, pub, memoryMsgChan, backend>>
    BY <1>2, StutterFrame DEF AllKept
  <2>2. QED
    BY <1>1, <2>1, ExitStutter DEF ReadLocked
<1>3. CASE \E p \in Publishers : Publish(p)
  <2>1. PICK p \in Publishers : Publish(p)
    BY <1>3
  <2>2. UNCHANGED <<xpc, xmode, memoryMsgChan, backend>> /\ (pub' = pub \/ xpc = "none")
    BY <2>1 DEF Publish, PutMessages, PutMessagesExiting, exitVars, queueVars, Exiting
  <2>3. CASE pub' = pub
    BY <1>1, <2>2, <2>3, ExitStutter DEF ReadLocked
  <2>4. CASE xpc = "none"
    BY <2>2, <2>4 DEF ExitInv, DeleteLeavesNothing
  <2>5. QED
    BY <2>2, <2>3, <2>4
<1>4. CASE \E p \in Publishers : Put(p)
  <2>1. PICK p \in Publishers : Put(p)
    BY <1>4
  <2>2. UNCHANGED <<xpc, xmode>> /\ Putting(p)
    BY <1>1, <2>1, PutFacts DEF PutKeeps
  <2>3. ReadLocked
    BY <2>2 DEF ReadLocked, Putting
  <2>4. QED
    BY <1>1, <2>2, <2>3 DEF ExitInv, DeleteLeavesNothing
<1>5. CASE \E c \in Callers : NewCall(c) \/ Continue(c)
  <2>1. PICK c \in Callers : NewCall(c) \/ Continue(c)
    BY <1>5
  <2>2. CASE EmptyBegin(c) \/ EmptyOne(c) \/ EmptyEnd(c)
    <3>1. EmptyKeeps
      BY <2>2, EmptyFrame DEF EmptyBegin, EmptyOne, EmptyEnd
    <3>2. UNCHANGED <<xpc, xmode, pub>>
      BY <3>1 DEF EmptyKeeps
    <3>3. xpc = "done" /\ xmode = "delete" => UNCHANGED <<memoryMsgChan, backend>>
      BY <1>1, <2>2 DEF EmptyBegin, EmptyOne, EmptyEnd, queueVars, ExitInv, DeleteLeavesNothing
    <3>4. QED
      BY <1>1, <3>2, <3>3, ExitStutter DEF ReadLocked
  <2>3. CASE CallUnchanged
    <3>1. UNCHANGED <<xpc, xmode, pub, memoryMsgChan, backend>>
      BY <2>3, CallFrame DEF CallKeeps
    <3>2. QED
      BY <1>1, <3>1, ExitStutter DEF ReadLocked
  <2>4. QED
    BY <2>1, <2>2, <2>3, CallCases
<1>6. CASE Start \/ MessagePump
  <2>1. PumpUnchanged
    BY <1>6 DEF Start, MessagePump, PumpStart, PumpSnap, PumpArm, PumpMemory, PumpBackend, PumpCorrupt, Deliver,
                PumpExit
  <2>2. UNCHANGED <<xpc, xmode, pub>>
    BY <2>1, PumpFrame DEF PumpKeeps
  <2>3. \/ UNCHANGED <<memoryMsgChan, backend>>
        \/ memoryMsgChan # <<>> \/ backend # <<>>
    BY <1>6 DEF Start, MessagePump, PumpStart, PumpSnap, PumpArm, PumpMemory, PumpBackend, PumpCorrupt, Deliver,
                PumpExit, queueVars
  <2>4. xpc = "done" /\ xmode = "delete" => UNCHANGED <<memoryMsgChan, backend>>
    BY <1>1, <2>3 DEF ExitInv, DeleteLeavesNothing
  <2>5. QED
    BY <1>1, <2>2, <2>4, ExitStutter DEF ReadLocked
<1>7. CASE (\E mode \in {"close", "delete"} : ExitFlag(mode)) \/ Exit
  <2>1. ExitUnchanged
    BY <1>7 DEF ExitFlag, Exit, CloseExitChan, DeleteChannels, DeleteQueues, RangeBegin, RangeClose, RangeEnd,
                FlushOne, FlushEnd
  <2>2. pub' = pub
    BY <2>1, ExitFrame DEF ExitKeeps
  <2>3. ReadLocked' = ReadLocked
    BY <2>2 DEF ReadLocked
  <2>4. CASE DeleteQueues
    BY <1>1, <2>3, <2>4 DEF DeleteQueues, ExitInv, DeleteLeavesNothing
  <2>5. CASE DeleteChannels
    BY <2>3, <2>5 DEF DeleteChannels, ExitInv, DeleteLeavesNothing
  <2>6. CASE (\E mode \in {"close", "delete"} : ExitFlag(mode)) \/ CloseExitChan
    BY <2>6 DEF ExitFlag, CloseExitChan, ExitInv, DeleteLeavesNothing
  <2>7. CASE RangeBegin \/ (\E n \in Names : RangeClose(n)) \/ RangeEnd \/ (\E ok \in BOOLEAN : FlushOne(ok)) \/ FlushEnd
    <3>1. xmode' = "close"
      BY <1>1, <2>7 DEF RangeBegin, RangeClose, RangeEnd, FlushOne, FlushEnd, ExitInv
    <3>2. QED
      BY <3>1 DEF ExitInv, DeleteLeavesNothing
  <2>8. QED
    BY <1>7, <2>4, <2>5, <2>6, <2>7 DEF Exit
<1>8. QED
  BY <1>2, <1>3, <1>4, <1>5, <1>6, <1>7 DEF Next, Quiet

-----------------------------------------------------------------------------
(* The invariant.                                                          *)

LEMMA InitInv ==
  Init => IInv
<1> SUFFICES ASSUME Init PROVE IInv
  OBVIOUS
<1>1. TypeOK
  <2>1. Idle \in CallType /\ Silent \in [pc : {"idle", "putting"}, batch : Seq(Message), i : Nat] /\ Silent.pc = "idle"
    BY DEF Idle, CallType, Silent
  <2>2. /\ call \in [Callers -> CallType] /\ \A p \in Publishers : pub[p].pc # "putting"
        /\ pub \in [Publishers -> [pc : {"idle", "putting"}, batch : Seq(Message), i : Nat]]
    BY <2>1 DEF Init
  <2>3. /\ channelMap \in [Names -> Chans \cup {NoChan}] /\ ready \in [Ids -> SUBSET Chans]
        /\ now \in [Chans -> SUBSET Ids] /\ later \in [Chans -> SUBSET Ids]
    BY DEF Init
  <2>4. made \in 0..MaxChans /\ next \in 1..(NMsgs + 1) /\ ncalls \in 0..MaxCalls /\ Len(memoryMsgChan) <= MemQueueSize
    BY TopicAssumption DEF Init
  <2>5. memoryMsgChan \in Seq(Message) /\ backend \in Seq(Ids) /\ msg \in Message \cup {NoMsg}
    BY DEF Init
  <2>6. /\ ephemeral \in BOOLEAN /\ paused \in BOOLEAN /\ armed \in BOOLEAN /\ deleter \in BOOLEAN
        /\ gone = {} /\ chans = {} /\ todo = {} /\ due = {} /\ known = {} /\ messageCount = 0
        /\ startChan = "unsent" /\ ppc = "prestart" /\ xpc = "none" /\ xmode = "none"
        /\ accepted = {} /\ dpub = {} /\ spilled = {} /\ delivered = {} /\ thrown = {}
    BY DEF Init
  <2>7. QED
    BY <2>2, <2>3, <2>4, <2>5, <2>6 DEF TypeOK, CallType
<1>2. /\ \A p \in Publishers : ~Putting(p)
      /\ \A c \in Callers : call[c].pc = "idle"
      /\ \A n \in Names : channelMap[n] = NoChan
  BY DEF Init, Putting, Silent, Idle
<1>3. InMap = {}
  BY <1>2 DEF InMap
<1>4. ChansInv
  <2>1. NoChan <= made
    BY DEF Init, NoChan
  <2>2. \A m \in Ids : ready[m] = {}
    BY DEF Init
  <2>3. QED
    BY <1>2, <1>3, <2>1, <2>2 DEF ChansInv
<1>5. PumpSeesMap /\ ServesInv
  BY DEF Init, PumpSeesMap, ServesInv, Pumping
<1>6. BatchInv
  BY <1>2 DEF Init, BatchInv
<1>7. memoryMsgChan = <<>> /\ backend = <<>> /\ accepted = {} /\ delivered = {} /\ thrown = {} /\ msg = NoMsg
      /\ ppc = "prestart" /\ todo = {} /\ NoMsg.id = 0 /\ NoMsg.deferred = FALSE /\ 0 \notin Ids
  BY <1>1, InMapFacts DEF Init, NoMsg
<1>8. (\A m : ~InMemory(m) /\ ~InBackend(m)) /\ UniqueIds(memoryMsgChan) /\ Unique(backend)
  BY <1>7, EmptyQueue DEF InMemory, InBackend
<1>9. PlaceInv
  BY <1>7, <1>8 DEF PlaceInv
<1>10. (\A o \in Chans : now[o] = {} /\ later[o] = {}) /\ dpub = {}
  BY DEF Init
<1>11. DeferInv
  <2>1. Kept(memoryMsgChan)
    BY <1>7 DEF Kept
  <2>2. QED
    BY <1>7, <1>8, <1>10, <2>1 DEF DeferInv, DeferralKept
<1>12. OfferInv
  BY <1>7 DEF OfferInv, NoMissedChannel
<1>13. CountInv
  <2>1. accepted \ UnderWay = {} /\ messageCount = 0
    BY <1>7 DEF Init
  <2>2. QED
    BY <2>1, FS_EmptySet DEF CountInv
<1>14. ExitInv
  BY DEF Init, ExitInv, DeleteLeavesNothing
<1>15. QED
  BY <1>1, <1>4, <1>5, <1>6, <1>9, <1>11, <1>12, <1>13, <1>14 DEF IInv

LEMMA InvStep ==
  IInv /\ [Next]_vars => IInv'
BY TypeStep, MapStep, BatchStep, PlaceStep, DeferStep, OfferStep, CountStep, ExitStep DEF IInv, MapInv

(* The invariant holds of every reachable state of a topic.                *)
THEOREM Invariance == Spec => []IInv
<1>1. Init => IInv
  BY InitInv
<1>2. IInv /\ [Next]_vars => IInv'
  BY InvStep
<1>3. QED
  BY <1>1, <1>2, PTL DEF Spec

-----------------------------------------------------------------------------
(* What follows from it.                                                   *)

(* Every variable of the topic keeps its type: in particular the memory    *)
(* queue never holds more than MemQueueSize messages.                      *)
THEOREM TypesKept == Spec => []TypeOK
<1>1. IInv => TypeOK
  BY DEF IInv
<1>2. QED
  BY <1>1, Invariance, PTL

(* The pump's copy of channelMap differs from it only by channels whose    *)
(* GetChannel or DeleteExistingChannel has still to tell the pump.         *)
THEOREM PumpSeesMapHolds == Spec => []PumpSeesMap
<1>1. IInv => PumpSeesMap
  BY DEF IInv
<1>2. QED
  BY <1>1, Invariance, PTL

(* A message published after GetChannel had returned a channel is given to *)
(* that channel by messagePump unless the channel is on its way out.       *)
THEOREM NoMissedChannelHolds == Spec => []NoMissedChannel
<1>1. IInv => NoMissedChannel
  BY DEF IInv, OfferInv
<1>2. QED
  BY <1>1, Invariance, PTL

(* A deferral is lost only by going through the backend, and the channels  *)
(* never disagree about it.                                                *)
THEOREM DeferralKeptHolds == Spec => []DeferralKept
<1>1. IInv => DeferralKept
  BY DEF IInv, DeferInv
<1>2. QED
  BY <1>1, Invariance, PTL

(* messageCount is the number of messages accepted whenever no publisher   *)
(* is inside PutMessages, whatever batches failed half way.                *)
THEOREM CountIsAcceptedHolds == Spec => []CountIsAccepted
<1>1. IInv => CountIsAccepted
  <2>1. SUFFICES ASSUME IInv, ~ReadLocked PROVE messageCount = Cardinality(accepted)
    BY DEF CountIsAccepted
  <2>2. UnderWay = {}
    BY <2>1 DEF UnderWay, ReadLocked, Putting
  <2>3. accepted \ UnderWay = accepted
    BY <2>2
  <2>4. QED
    BY <2>1, <2>3 DEF IInv, CountInv
<1>2. QED
  BY <1>1, Invariance, PTL

(* Every accepted message is in exactly one place: put, the pump, Empty,   *)
(* flush and Delete neither duplicate nor forget one.                      *)
THEOREM AccountedHolds == Spec => []Accounted
<1>1. IInv => Accounted
  <2>1. SUFFICES ASSUME IInv, NEW m \in accepted
                 PROVE  Cardinality({i \in DOMAIN memoryMsgChan : memoryMsgChan[i].id = m})
                        + Cardinality({i \in DOMAIN backend : backend[i] = m})
                        + Cardinality({m} \cap ({msg.id} \cup delivered)) + Cardinality({m} \cap thrown) = 1
    BY DEF Accounted
  <2> DEFINE M == {i \in DOMAIN memoryMsgChan : memoryMsgChan[i].id = m}
             B == {i \in DOMAIN backend : backend[i] = m}
             D == {m} \cap ({msg.id} \cup delivered)
             T == {m} \cap thrown
  <2>2. PlaceInv /\ m \in Ids
    BY <2>1 DEF IInv, TypeOK
  <2>3. /\ InMemory(m) => Cardinality(M) = 1
        /\ ~InMemory(m) => Cardinality(M) = 0
    <3>1. ASSUME InMemory(m) PROVE Cardinality(M) = 1
      <4>1. PICK j \in DOMAIN memoryMsgChan : memoryMsgChan[j].id = m
        BY <3>1 DEF InMemory, HasId
      <4>2. M = {j}
        BY <2>2, <4>1 DEF PlaceInv, UniqueIds
      <4>3. QED
        BY <4>2, FS_Singleton
    <3>2. ASSUME ~InMemory(m) PROVE Cardinality(M) = 0
      <4>1. M = {}
        BY <3>2 DEF InMemory, HasId
      <4>2. QED
        BY <4>1, FS_EmptySet
    <3>3. QED
      BY <3>1, <3>2
  <2>4. /\ InBackend(m) => Cardinality(B) = 1
        /\ ~InBackend(m) => Cardinality(B) = 0
    <3>1. ASSUME InBackend(m) PROVE Cardinality(B) = 1
      <4>1. PICK j \in DOMAIN backend : backend[j] = m
        BY <3>1 DEF InBackend, Has
      <4>2. B = {j}
        BY <2>2, <4>1 DEF PlaceInv, Unique
      <4>3. QED
        BY <4>2, FS_Singleton
    <3>2. ASSUME ~InBackend(m) PROVE Cardinality(B) = 0
      <4>1. B = {}
        BY <3>2 DEF InBackend, Has
      <4>2. QED
        BY <4>1, FS_EmptySet
    <3>3. QED
      BY <3>1, <3>2
  <2>5. /\ m = msg.id \/ m \in delivered => Cardinality(D) = 1
        /\ ~(m = msg.id \/ m \in delivered) => Cardinality(D) = 0
    <3>1. m = msg.id \/ m \in delivered => D = {m}
      OBVIOUS
    <3>2. ~(m = msg.id \/ m \in delivered) => D = {}
      OBVIOUS
    <3> HIDE DEF D
    <3>3. QED
      BY <3>1, <3>2, FS_Singleton, FS_EmptySet
  <2>6. /\ m \in thrown => Cardinality(T) = 1
        /\ m \notin thrown => Cardinality(T) = 0
    <3>1. m \in thrown => T = {m}
      OBVIOUS
    <3>2. m \notin thrown => T = {}
      OBVIOUS
    <3> HIDE DEF T
    <3>3. QED
      BY <3>1, <3>2, FS_Singleton, FS_EmptySet
  <2>7. /\ InMemory(m) => ~InBackend(m) /\ m # msg.id /\ m \notin delivered /\ m \notin thrown
        /\ InBackend(m) => m # msg.id /\ m \notin delivered /\ m \notin thrown
        /\ m = msg.id => m \notin thrown
        /\ m \in delivered => m \notin thrown
        /\ InMemory(m) \/ InBackend(m) \/ m = msg.id \/ m \in delivered \/ m \in thrown
    BY <2>2 DEF PlaceInv
  <2> HIDE DEF M, B, D, T
  <2>8. Cardinality(M) + Cardinality(B) + Cardinality(D) + Cardinality(T) = 1
    BY <2>3, <2>4, <2>5, <2>6, <2>7
  <2>9. QED
    BY <2>8 DEF M, B, D, T
<1>2. QED
  BY <1>1, Invariance, PTL

(* After Delete the topic is empty: a publisher that passed the exit check *)
(* has finished before the queues are emptied.                             *)
THEOREM DeleteLeavesNothingHolds == Spec => []DeleteLeavesNothing
<1>1. IInv => DeleteLeavesNothing
  BY DEF IInv, ExitInv
<1>2. QED
  BY <1>1, Invariance, PTL

(* messagePump throws a message away, offering it to channels that all     *)
(* refuse it, only while a deletion is on its way or the topic exits.      *)
THEOREM LostOnlyUnderDeleteHolds == Spec => LostOnlyUnderDelete
<1> DEFINE A == \A m \in delivered' \ delivered :
                  \/ \E o \in Chans : m \in now'[o] \cup later'[o]
                  \/ \E c \in Callers : call[c].pc \in {"removed", "deleted"}
                  \/ ExitChan
<1>1. IInv /\ [Next]_vars => [A]_vars
  <2>1. SUFFICES ASSUME IInv, Next, NEW m \in delivered' \ delivered, ~ExitChan,
                        \A c \in Callers : call[c].pc \notin {"removed", "deleted"}
                 PROVE  \E o \in Chans : m \in now'[o] \cup later'[o]
    OBVIOUS
  <2>2. TypeOK /\ ChansInv /\ PlaceInv /\ PumpSeesMap
    BY <2>1 DEF IInv
  <2>3. \E o \in Chans : Deliver(o)
    <3>1. CASE \E p \in Publishers : Publish(p) \/ Put(p)
      <4>1. delivered' = delivered
        BY <2>1, <3>1, PutFrame DEF Publish, PutMessages, PutMessagesExiting, pumpHist, Put, PutMemory, PutBackend,
             PutFails, PutKeeps
      <4>2. QED
        BY <2>1, <4>1
    <3>2. CASE \E c \in Callers : NewCall(c) \/ Continue(c)
      <4>1. CallKeeps \/ EmptyKeeps
        BY <3>2, CallCases, CallFrame, EmptyFrame DEF EmptyBegin, EmptyOne, EmptyEnd
      <4>2. QED
        BY <2>1, <4>1 DEF CallKeeps, EmptyKeeps
    <3>3. CASE (\E mode \in {"close", "delete"} : ExitFlag(mode)) \/ Exit
      <4>1. ExitUnchanged
        BY <3>3 DEF ExitFlag, Exit, CloseExitChan, DeleteChannels, DeleteQueues, RangeBegin, RangeClose, RangeEnd,
                    FlushOne, FlushEnd
      <4>2. QED
        BY <2>1, <4>1, ExitFrame DEF ExitKeeps
    <3>4. CASE Start \/ MessagePump
      BY <2>1, <3>4 DEF Start, MessagePump, PumpStart, PumpSnap, PumpArm, PumpMemory, PumpBackend, PumpCorrupt,
         PumpExit, pumpHist
    <3>5. CASE Quiet
      BY <2>1, <3>5, StutterFrame DEF Quiet, AllKept
    <3>6. QED
      BY <2>1, <3>1, <3>2, <3>3, <3>4, <3>5 DEF Next
  <2>4. PICK o \in Chans : Deliver(o)
    BY <2>3
  <2>5. ppc = "deliver" /\ o \in todo /\ m = msg.id
    BY <2>1, <2>2, <2>4, DeliverFacts
  <2>6. o \in chans
    BY <2>2, <2>5 DEF TypeOK
  <2>7. o \in InMap
    BY <2>1, <2>2, <2>5, <2>6 DEF PumpSeesMap
  <2>8. o \notin gone
    BY <2>1, <2>2, <2>7 DEF ChansInv
  <2>9. now \in [Chans -> SUBSET Ids] /\ later \in [Chans -> SUBSET Ids]
    BY <2>2 DEF TypeOK
  <2>10. m \in now'[o] \cup later'[o]
    BY <2>2, <2>4, <2>5, <2>8, <2>9, DeliverFacts
  <2>11. QED
    BY <2>10
<1>2. Spec => [][A]_vars
  <2> HIDE DEF A
  <2> QED
    BY <1>1, Invariance, PTL DEF Spec
<1>3. QED
  BY <1>2 DEF LostOnlyUnderDelete
=============================================================================
