---------------------------- MODULE NsqMetaProofs ----------------------------
(***************************************************************************)
(* What nsqd's metadata file guarantees for every number of topics,        *)
(* channels, handlers, requests, kills and failed writes.                  *)
(*                                                                         *)
(* The file is put together while requests go on, so it is the draft that  *)
(* has to be described: every part of it that was read is up to date, or   *)
(* somebody is still going to have the file written again.                 *)
(***************************************************************************)
EXTENDS NsqMeta, FiniteSetTheorems, TLAPS

(* Who holds the server's lock, and what a process that is down has left.  *)
LockInv ==
  /\ holder = "free" => unread = {} /\ draft = NoFile
  /\ \A h \in Handlers : holder = h => pc[h] = "persisting"
  /\ up = "down" => holder = "free" /\ \A h \in Handlers : pc[h] = NoRequest
  /\ \A h \in Handlers : pc[h] = "empty" => at[h] \in exitFlag

(* A handler has changed the topic and is still going to have it persisted.*)
Pausing(t)  == \E h \in Handlers : pc[h] = "persist" /\ at[h] = t
Deleting(t) == \E h \in Handlers : pc[h] = "notify" /\ at[h] = t

DraftInv ==
  holder # "free" =>
    \A n \in Live :
      /\ \/ <<n, "paused">> \in unread
         \/ /\ n \in DOMAIN draft
            /\ (draft[n].paused <=> Object(n) \in paused) \/ Pausing(Object(n))
      /\ \/ <<n, "channels">> \in unread
         \/ /\ <<n, "paused">> \notin unread
            /\ \/ draft[n].channels = channelMap[Object(n)]
               \/ up # "up" \/ notices > 0 \/ Object(n) \in exitFlag \/ Deleting(Object(n))

FileInv ==
  up = "up" /\ holder = "free" /\ ~failed =>
    \A n \in Live :
      \/ Object(n) \in exitFlag \/ notices > 0 \/ Pausing(Object(n)) \/ Deleting(Object(n))
      \/ n \in DOMAIN file /\ file[n] = EntryOf(Object(n))

PauseInv ==
  \A n \in Names : promised[n] # "none" =>
    /\ backing[n] = "file" => n \in DOMAIN file /\ Flag(file[n].paused) = promised[n]
    /\ backing[n] = "memory" => up # "down"
    /\ up # "down" /\ backing[n] # "nothing" =>
         n \in Live /\ Flag(Object(n) \in paused) = promised[n] /\ ~Pausing(Object(n))

IInv == TypeOK /\ LockInv /\ DraftInv /\ FileInv /\ PauseInv

(* With one deleter at a time a topic stays in the map while it is being   *)
(* deleted.                                                                *)
DeleteInv ==
  \A h \in Handlers : pc[h] \in {"deltopic", "empty", "remove"} =>
    h \in Deleters /\ Object(at[h][1]) = at[h]

-----------------------------------------------------------------------------
(* Topics, files and the parts of a file.                                  *)

LEMMA FileFacts ==
  /\ \A f : f \in Files <=> DOMAIN f \subseteq Names /\ f \in [DOMAIN f -> Entry]
  /\ NoFile \in Files /\ DOMAIN NoFile = {}
<1>1. \A f : f \in Files <=> DOMAIN f \subseteq Names /\ f \in [DOMAIN f -> Entry]
  BY DEF Files
<1>2. DOMAIN NoFile = {} /\ NoFile \in [{} -> Entry]
  BY DEF NoFile, Entry
<1>3. QED
  BY <1>1, <1>2

LEMMA ObjectFacts ==
  ASSUME TypeOK
  PROVE  /\ \A n \in Live : n \in Names /\ Object(n) \in Topics /\ Object(n)[1] = n
         /\ \A n \in Live : topicMap[n] \in 1..MaxGen
         /\ \A t \in Topics : t[1] \in Names /\ t[2] \in 1..MaxGen /\ t = <<t[1], t[2]>>
         /\ \A n \in Names : n \notin Live <=> topicMap[n] = 0
         /\ \A n, part : <<n, part>> \in Parts <=> n \in Live /\ part \in {"paused", "channels"}
         /\ MaxGen \in Nat \ {0}
<1>1. MaxGen \in Nat \ {0}
  BY MetaAssumption
<1>2. \A n \in Live : n \in Names /\ topicMap[n] \in 1..MaxGen
  BY <1>1 DEF TypeOK, Live, NoTopic
<1>3. \A n \in Live : Object(n) \in Topics /\ Object(n)[1] = n
  BY <1>2 DEF Object, Topics, Gens
<1>4. \A t \in Topics : t[1] \in Names /\ t[2] \in 1..MaxGen /\ t = <<t[1], t[2]>>
  BY DEF Topics, Gens
<1>5. \A n \in Names : n \notin Live <=> topicMap[n] = 0
  BY DEF Live, NoTopic
<1>6. \A n, part : <<n, part>> \in Parts <=> n \in Live /\ part \in {"paused", "channels"}
  BY DEF Parts
<1>7. QED
  BY <1>1, <1>2, <1>3, <1>4, <1>5, <1>6

LEMMA SameMap ==
  ASSUME UNCHANGED topicMap
  PROVE  Live' = Live /\ Parts' = Parts /\ \A n : Object(n)' = Object(n)
BY DEF Live, Parts, Object

(* Everything but the variables of the persister, of the handlers, ...     *)
TopicsKept == UNCHANGED <<topicMap, made, exitFlag, paused, promised, backing, channelMap>>
PersisterKept == UNCHANGED <<holder, unread, draft, file, failed>>
CountsKept == UNCHANGED <<requests, kills, fails>>

PcType == Requests \cup {NoRequest, "notify", "persist", "persisting", "empty", "remove"}

-----------------------------------------------------------------------------
(* Types.                                                                  *)

TopicTypes ==
  /\ topicMap \in [Names -> 0..MaxGen] /\ made \in [Names -> 0..MaxGen]
  /\ exitFlag \subseteq Topics /\ paused \subseteq Topics
  /\ promised \in [Names -> {"none", "paused", "unpaused"}]
  /\ backing \in [Names -> {"file", "memory", "nothing"}]
  /\ channelMap \in [Topics -> SUBSET Channels]
  /\ \A n \in Names : topicMap[n] <= made[n]
PersisterTypes ==
  /\ notices \in Nat /\ holder \in Handlers \cup {"notify", "exit", "free"}
  /\ unread \subseteq Parts
  /\ draft \in Files /\ file \in Files /\ failed \in BOOLEAN
HandlerTypes ==
  /\ up \in {"up", "exiting", "down"}
  /\ pc \in [Handlers -> PcType] /\ at \in [Handlers -> Topics \cup {<<>>}]
  /\ \A h \in Handlers : pc[h] # NoRequest => at[h] \in Topics
CountTypes == requests \in 0..MaxRequests /\ kills \in 0..MaxKills /\ fails \in 0..MaxFails

LEMMA TypeParts == TypeOK <=> TopicTypes /\ PersisterTypes /\ HandlerTypes /\ CountTypes
BY DEF TypeOK, TopicTypes, PersisterTypes, HandlerTypes, CountTypes, PcType

LEMMA TypePartsNext == TopicTypes' /\ PersisterTypes' /\ HandlerTypes' /\ CountTypes' => TypeOK'
BY DEF TypeOK, TopicTypes, PersisterTypes, HandlerTypes, CountTypes, PcType

LEMMA TypeKeep ==
  ASSUME TypeOK
  PROVE  /\ TopicsKept => TopicTypes'
         /\ UNCHANGED topicMap /\ PersisterKept /\ notices' \in Nat => PersisterTypes'
         /\ UNCHANGED <<up, pc, at>> => HandlerTypes'
         /\ CountsKept => CountTypes'
<1>1. TopicTypes /\ PersisterTypes /\ HandlerTypes /\ CountTypes
  BY TypeParts
<1>2. TopicsKept => TopicTypes'
  BY <1>1 DEF TopicsKept, TopicTypes
<1>3. UNCHANGED topicMap /\ PersisterKept /\ notices' \in Nat => PersisterTypes'
  BY <1>1, SameMap DEF PersisterKept, PersisterTypes
<1>4. UNCHANGED <<up, pc, at>> => HandlerTypes'
  BY <1>1 DEF HandlerTypes
<1>5. CountsKept => CountTypes'
  BY <1>1 DEF CountsKept, CountTypes
<1>6. QED
  BY <1>2, <1>3, <1>4, <1>5

(* A handler goes on to its next step.                                     *)
LEMMA GotoTypes ==
  ASSUME TypeOK, NEW h \in Handlers, NEW r \in PcType, pc[h] # NoRequest, Goto(h, r), UNCHANGED <<up, at>>
  PROVE  HandlerTypes' /\ at[h] \in Topics /\ pc'[h] = r /\ \A k \in Handlers \ {h} : pc'[k] = pc[k]
<1>1. HandlerTypes
  BY TypeParts
<1>2. pc' = [pc EXCEPT ![h] = r]
  BY DEF Goto
<1>3. at[h] \in Topics
  BY <1>1 DEF HandlerTypes
<1>4. pc'[h] = r /\ \A k \in Handlers \ {h} : pc'[k] = pc[k]
  BY <1>1, <1>2 DEF HandlerTypes
<1>5. pc' \in [Handlers -> PcType]
  BY <1>1, <1>2 DEF HandlerTypes
<1>6. QED
  BY <1>1, <1>3, <1>4, <1>5 DEF HandlerTypes

(* The server's lock is taken to persist.                                  *)
LEMMA BeginTypes ==
  ASSUME TypeOK, NEW who \in Handlers \cup {"notify", "exit"}, BeginPersist(who), UNCHANGED topicMap, notices' \in Nat
  PROVE  PersisterTypes'
<1>1. PersisterTypes
  BY TypeParts
<1>2. holder' = who /\ unread' = Parts /\ draft' = NoFile /\ UNCHANGED <<file, failed>>
  BY DEF BeginPersist
<1>3. Parts' = Parts
  BY SameMap
<1>4. QED
  BY <1>1, <1>2, <1>3, FileFacts DEF PersisterTypes

-----------------------------------------------------------------------------
(* A step that leaves the topic map, the draft and the file alone.         *)

(* Whatever it changes in a topic, it or its handler's next step tells.    *)
Told(t) ==
  /\ (t \in paused' <=> t \in paused) \/ Pausing(t)'
  /\ channelMap'[t] = channelMap[t] \/ notices' > 0 \/ t \in exitFlag' \/ Deleting(t)'
  /\ Pausing(t) => Pausing(t)'
  /\ notices > 0 \/ t \in exitFlag \/ Deleting(t) => notices' > 0 \/ t \in exitFlag' \/ Deleting(t)'

LEMMA Tell ==
  ASSUME TypeOK, DraftInv, FileInv, UNCHANGED <<topicMap, holder, unread, draft, file, failed, up>>,
         \A t \in Topics : Told(t)
  PROVE  DraftInv' /\ FileInv'
<1>1. Live' = Live /\ \A n : Object(n)' = Object(n)
  BY SameMap
<1>2. \A n \in Live : Object(n) \in Topics
  BY ObjectFacts
<1>3. DraftInv'
  <2>1. SUFFICES ASSUME holder # "free", NEW n \in Live
                 PROVE  LET t == Object(n) IN
                        /\ \/ <<n, "paused">> \in unread
                           \/ /\ n \in DOMAIN draft
                              /\ (draft[n].paused <=> t \in paused') \/ Pausing(t)'
                        /\ \/ <<n, "channels">> \in unread
                           \/ /\ <<n, "paused">> \notin unread
                              /\ \/ draft[n].channels = channelMap'[t]
                                 \/ up # "up" \/ notices' > 0 \/ t \in exitFlag' \/ Deleting(t)'
    BY <1>1 DEF DraftInv
  <2> DEFINE t == Object(n)
  <2>2. t \in Topics /\ Told(t)
    BY <1>2
  <2>3. /\ \/ <<n, "paused">> \in unread
           \/ n \in DOMAIN draft /\ ((draft[n].paused <=> t \in paused) \/ Pausing(t))
        /\ \/ <<n, "channels">> \in unread
           \/ /\ <<n, "paused">> \notin unread
              /\ \/ draft[n].channels = channelMap[t]
                 \/ up # "up" \/ notices > 0 \/ t \in exitFlag \/ Deleting(t)
    BY <2>1 DEF DraftInv
  <2>4. QED
    BY <2>2, <2>3 DEF Told
<1>4. FileInv'
  <2>1. SUFFICES ASSUME up = "up", holder = "free", ~failed, NEW n \in Live
                 PROVE  LET t == Object(n) IN
                        \/ t \in exitFlag' \/ notices' > 0 \/ Pausing(t)' \/ Deleting(t)'
                        \/ n \in DOMAIN file /\ file[n] = [paused |-> t \in paused', channels |-> channelMap'[t]]
    BY <1>1 DEF FileInv, EntryOf
  <2> DEFINE t == Object(n)
  <2>2. t \in Topics /\ Told(t)
    BY <1>2
  <2>3. \/ t \in exitFlag \/ notices > 0 \/ Pausing(t) \/ Deleting(t)
        \/ n \in DOMAIN file /\ file[n] = [paused |-> t \in paused, channels |-> channelMap[t]]
    BY <2>1 DEF FileInv, EntryOf
  <2>4. QED
    BY <2>2, <2>3 DEF Told
<1>5. QED
  BY <1>3, <1>4

LEMMA PauseKeep ==
  ASSUME TypeOK, PauseInv, UNCHANGED <<topicMap, paused, promised, backing, file>>, up' # "down" <=> up # "down",
         \A t \in Topics : Pausing(t)' => Pausing(t)
  PROVE  PauseInv'
<1>1. Live' = Live /\ \A n : Object(n)' = Object(n)
  BY SameMap
<1>2. \A n \in Live : Object(n) \in Topics
  BY ObjectFacts
<1>3. \A n \in Live : ~Pausing(Object(n)) => ~Pausing(Object(n))'
  BY <1>1, <1>2
<1>4. \A b : Flag(b)' = Flag(b)
  BY DEF Flag
<1>5. QED
  BY <1>1, <1>3, <1>4 DEF PauseInv

-----------------------------------------------------------------------------
(* Requests.                                                               *)

(* Handler h goes on to r and the lock stays with its holder.              *)
Moved(h, r) ==
  /\ up # "down" /\ pc[h] \notin {NoRequest, "persisting"} /\ r \in PcType /\ Goto(h, r)
  /\ UNCHANGED <<up, at, holder, unread, draft, file, failed, requests, kills, fails>>

LEMMA MovedTypes ==
  ASSUME TypeOK, LockInv, NEW h \in Handlers, NEW r, Moved(h, r), UNCHANGED topicMap, notices' \in Nat
  PROVE  PersisterTypes' /\ HandlerTypes' /\ CountTypes' /\ at[h] \in Topics
<1>1. Goto(h, r) /\ pc[h] # NoRequest /\ r \in PcType /\ UNCHANGED <<up, at>> /\ PersisterKept /\ CountsKept
  BY DEF Moved, PersisterKept, CountsKept
<1>2. QED
  BY <1>1, TypeKeep, GotoTypes

LEMMA MovedPcs ==
  ASSUME TypeOK, LockInv, NEW h \in Handlers, NEW r, Moved(h, r)
  PROVE  /\ pc'[h] = r /\ at' = at /\ at[h] \in Topics /\ \A k \in Handlers \ {h} : pc'[k] = pc[k]
         /\ \A t : Pausing(t)' <=> (r = "persist" /\ at[h] = t) \/
                                   \E k \in Handlers \ {h} : pc[k] = "persist" /\ at[k] = t
         /\ \A t : Deleting(t)' <=> (r = "notify" /\ at[h] = t) \/
                                    \E k \in Handlers \ {h} : pc[k] = "notify" /\ at[k] = t
<1>1. Goto(h, r) /\ pc[h] # NoRequest /\ r \in PcType /\ UNCHANGED <<up, at>>
  BY DEF Moved
<1>2. pc'[h] = r /\ at[h] \in Topics /\ \A k \in Handlers \ {h} : pc'[k] = pc[k]
  BY <1>1, GotoTypes
<1>3. \A t : Pausing(t)' <=> (r = "persist" /\ at[h] = t) \/
                             \E k \in Handlers \ {h} : pc[k] = "persist" /\ at[k] = t
  BY <1>1, <1>2 DEF Pausing
<1>4. \A t : Deleting(t)' <=> (r = "notify" /\ at[h] = t) \/
                              \E k \in Handlers \ {h} : pc[k] = "notify" /\ at[k] = t
  BY <1>1, <1>2 DEF Deleting
<1>5. QED
  BY <1>1, <1>2, <1>3, <1>4

LEMMA MovedLock ==
  ASSUME TypeOK, LockInv, NEW h \in Handlers, NEW r, Moved(h, r), exitFlag \subseteq exitFlag',
         r = "empty" => at[h] \in exitFlag'
  PROVE  LockInv'
<1>1. pc'[h] = r /\ \A k \in Handlers \ {h} : pc'[k] = pc[k]
  BY MovedPcs
<1>2. up # "down" /\ pc[h] # "persisting" /\ UNCHANGED <<up, at, holder, unread, draft>>
  BY DEF Moved
<1>3. holder # h
  BY <1>2 DEF LockInv
<1>4. QED
  BY <1>1, <1>2, <1>3 DEF LockInv

LEMMA ServeGetChannel ==
  ASSUME IInv, NEW h \in Handlers, GetChannel(h)
  PROVE  IInv'
<1>1. TypeOK /\ LockInv /\ DraftInv /\ FileInv /\ PauseInv
  BY DEF IInv
<1>2. PICK c \in Channels : /\ channelMap' = [channelMap EXCEPT ![at[h]] = @ \cup {c}]
                            /\ notices' = notices + Cardinality({c} \ channelMap[at[h]])
  BY DEF GetChannel
<1>3. Moved(h, NoRequest) /\ pc[h] = "channel" /\ UNCHANGED <<topicMap, made, exitFlag, paused, promised, backing>>
  BY DEF GetChannel, Moved, persister, bounds, PcType, NoRequest
<1>4. at[h] \in Topics /\ channelMap \in [Topics -> SUBSET Channels] /\ notices \in Nat
  BY <1>1, <1>3, MovedPcs DEF TypeOK
<1>5. notices' \in Nat /\ notices' >= notices /\ (c \notin channelMap[at[h]] => notices' > 0)
  <2>1. CASE c \in channelMap[at[h]]
    <3>1. {c} \ channelMap[at[h]] = {}
      BY <2>1
    <3>2. notices' = notices + 0
      BY <1>2, <3>1, FS_EmptySet
    <3>3. QED
      BY <1>4, <2>1, <3>2
  <2>2. CASE c \notin channelMap[at[h]]
    <3>1. {c} \ channelMap[at[h]] = {c}
      BY <2>2
    <3>2. notices' = notices + 1
      BY <1>2, <3>1, FS_Singleton
    <3>3. QED
      BY <1>4, <3>2
  <2>3. QED
    BY <2>1, <2>2
<1>6. \A t \in Topics : channelMap'[t] = channelMap[t] \/ notices' > 0
  BY <1>2, <1>4, <1>5
<1>7. (\A t : Pausing(t)' <=> Pausing(t)) /\ (\A t : Deleting(t)' <=> Deleting(t))
  BY <1>1, <1>3, MovedPcs DEF Pausing, Deleting, NoRequest
<1>8. TypeOK'
  <2>1. channelMap' \in [Topics -> SUBSET Channels]
    BY <1>2, <1>4
  <2>2. TopicTypes'
    BY <1>1, <1>3, <2>1, TypeParts DEF TopicTypes
  <2>3. QED
    BY <1>1, <1>3, <1>5, <2>2, MovedTypes, TypePartsNext
<1>9. LockInv'
  BY <1>1, <1>3, MovedLock DEF NoRequest
<1>10. DraftInv' /\ FileInv'
  <2>1. \A t \in Topics : Told(t)
    BY <1>3, <1>4, <1>5, <1>6, <1>7 DEF Told
  <2>2. QED
    BY <1>1, <1>3, <2>1, Tell DEF Moved
<1>11. PauseInv'
  BY <1>1, <1>3, <1>7, PauseKeep DEF Moved
<1>12. QED
  BY <1>8, <1>9, <1>10, <1>11 DEF IInv

LEMMA ServeDeleteChannel ==
  ASSUME IInv, NEW h \in Handlers, DeleteChannel(h)
  PROVE  IInv'
<1>1. TypeOK /\ LockInv /\ DraftInv /\ FileInv /\ PauseInv
  BY DEF IInv
<1>2. PICK c \in channelMap[at[h]] : channelMap' = [channelMap EXCEPT ![at[h]] = @ \ {c}]
  BY DEF DeleteChannel
<1>3. Moved(h, "notify") /\ pc[h] = "delchannel" /\ UNCHANGED <<topicMap, made, exitFlag, paused, promised, backing, notices>>
  BY DEF DeleteChannel, Moved, persister, bounds, PcType, NoRequest
<1>4. at[h] \in Topics /\ channelMap \in [Topics -> SUBSET Channels] /\ notices \in Nat
  BY <1>1, <1>3, MovedPcs DEF TypeOK
<1>5. (\A t : Pausing(t)' <=> Pausing(t)) /\ (\A t : Deleting(t) => Deleting(t)') /\ Deleting(at[h])'
  BY <1>1, <1>3, MovedPcs DEF Pausing, Deleting
<1>6. \A t \in Topics : channelMap'[t] = channelMap[t] \/ Deleting(t)'
  BY <1>1, <1>2, <1>3, <1>4, MovedPcs
<1>7. TypeOK'
  <2>1. channelMap' \in [Topics -> SUBSET Channels]
    BY <1>2, <1>4
  <2>2. TopicTypes'
    BY <1>1, <1>3, <2>1, TypeParts DEF TopicTypes
  <2>3. QED
    BY <1>1, <1>3, <1>4, <2>2, MovedTypes, TypePartsNext
<1>8. LockInv'
  BY <1>1, <1>3, MovedLock
<1>9. DraftInv' /\ FileInv'
  <2>1. \A t \in Topics : Told(t)
    BY <1>3, <1>5, <1>6 DEF Told
  <2>2. QED
    BY <1>1, <1>3, <2>1, Tell DEF Moved
<1>10. PauseInv'
  BY <1>1, <1>3, <1>5, PauseKeep DEF Moved
<1>11. QED
  BY <1>7, <1>8, <1>9, <1>10 DEF IInv

(* Steps that change no topic.                                             *)
LEMMA ServeOther ==
  ASSUME IInv, NEW h \in Handlers,
         DeleteChannelMissing(h) \/ DeleteChannelNotify(h) \/ DeleteTopicExiting(h)
  PROVE  IInv'
<1>1. TypeOK /\ LockInv /\ DraftInv /\ FileInv /\ PauseInv /\ notices \in Nat
  BY DEF IInv, TypeOK
<1> DEFINE r == IF pc[h] = "deltopic" THEN "remove" ELSE NoRequest
<1>2. /\ Moved(h, r) /\ pc[h] \in {"delchannel", "notify", "deltopic"} /\ TopicsKept
      /\ notices' = notices \/ notices' = notices + 1
      /\ pc[h] = "notify" => notices' = notices + 1
  BY DEF DeleteChannelMissing, DeleteChannelNotify, DeleteTopicExiting, Moved, TopicsKept, topics, persister, bounds,
         PcType, NoRequest
<1>3. r \in {"remove", NoRequest}
  OBVIOUS
<1> HIDE DEF r
<1>4. notices' \in Nat /\ notices' >= notices /\ (pc[h] = "notify" => notices' > 0)
  BY <1>1, <1>2
<1>5. \A t : Pausing(t)' <=> Pausing(t)
  BY <1>1, <1>2, <1>3, MovedPcs DEF Pausing, NoRequest
<1>6. \A t : Deleting(t) => Deleting(t)' \/ pc[h] = "notify"
  BY <1>1, <1>2, <1>3, MovedPcs DEF Deleting, NoRequest
<1>7. TypeOK'
  BY <1>1, <1>2, <1>4, TypeKeep, MovedTypes, TypePartsNext DEF TopicsKept
<1>8. LockInv'
  BY <1>1, <1>2, <1>3, MovedLock DEF NoRequest, TopicsKept
<1>9. DraftInv' /\ FileInv'
  <2>1. \A t \in Topics : Told(t)
    BY <1>1, <1>2, <1>4, <1>5, <1>6 DEF Told, TopicsKept
  <2>2. QED
    BY <1>1, <1>2, <2>1, Tell DEF Moved, TopicsKept
<1>10. PauseInv'
  BY <1>1, <1>2, <1>5, PauseKeep DEF Moved, TopicsKept
<1>11. QED
  BY <1>7, <1>8, <1>9, <1>10 DEF IInv

LEMMA ServePause ==
  ASSUME IInv, NEW h \in Handlers, Pause(h)
  PROVE  IInv'
<1>1. TypeOK /\ LockInv /\ DraftInv /\ FileInv /\ PauseInv
  BY DEF IInv
<1>2. /\ Moved(h, "persist") /\ pc[h] \in {"pause", "unpause"}
      /\ UNCHANGED <<topicMap, made, exitFlag, backing, channelMap, notices>>
      /\ paused' = paused \cup {at[h]} \/ paused' = paused \ {at[h]}
      /\ promised' = [n \in Names |-> IF Object(n) = at[h] THEN "none" ELSE promised[n]]
  BY DEF Pause, Moved, persister, bounds, PcType, NoRequest
<1>3. at[h] \in Topics /\ paused \subseteq Topics /\ notices \in Nat /\ promised \in [Names -> {"none", "paused", "unpaused"}]
  BY <1>1, <1>2, MovedPcs DEF TypeOK
<1>4. /\ \A t : Pausing(t) => Pausing(t)'
      /\ \A t : Deleting(t)' <=> Deleting(t)
      /\ \A t : Pausing(t)' => Pausing(t) \/ t = at[h]
      /\ Pausing(at[h])'
  BY <1>1, <1>2, MovedPcs DEF Pausing, Deleting
<1>5. TypeOK'
  <2>1. paused' \subseteq Topics /\ promised' \in [Names -> {"none", "paused", "unpaused"}]
    BY <1>2, <1>3
  <2>2. TopicTypes'
    BY <1>1, <1>2, <2>1, TypeParts DEF TopicTypes
  <2>3. QED
    BY <1>1, <1>2, <1>3, <2>2, MovedTypes, TypePartsNext
<1>6. LockInv'
  BY <1>1, <1>2, MovedLock
<1>7. DraftInv' /\ FileInv'
  <2>1. \A t \in Topics : (t \in paused' <=> t \in paused) \/ Pausing(t)'
    <3>1. \A t : (t \in paused' <=> t \in paused) \/ t = at[h]
      BY <1>2
    <3>2. \A t : t = at[h] => Pausing(t)'
      BY <1>1, <1>2, MovedPcs
    <3>3. QED
      BY <3>1, <3>2
  <2>2. \A t \in Topics : Told(t)
    BY <1>2, <1>4, <2>1 DEF Told
  <2>3. QED
    BY <1>1, <1>2, <2>2, Tell DEF Moved
<1>8. PauseInv'
  <2>1. Live' = Live /\ \A n : Object(n)' = Object(n)
    BY <1>2, SameMap
  <2>2. SUFFICES ASSUME NEW n \in Names, promised'[n] # "none"
                 PROVE  /\ backing[n] = "file" => n \in DOMAIN file /\ Flag(file[n].paused) = promised'[n]
                        /\ backing[n] # "nothing" =>
                             n \in Live /\ Flag(Object(n) \in paused') = promised'[n] /\ ~Pausing(Object(n))'
    BY <1>2, <2>1 DEF PauseInv, Moved, Flag
  <2>3. Object(n) # at[h] /\ promised'[n] = promised[n]
    BY <1>2, <2>2
  <2>4. /\ backing[n] = "file" => n \in DOMAIN file /\ Flag(file[n].paused) = promised[n]
        /\ backing[n] # "nothing" =>
             n \in Live /\ Flag(Object(n) \in paused) = promised[n] /\ ~Pausing(Object(n))
    BY <1>1, <1>2, <2>2, <2>3 DEF PauseInv, Moved
  <2>5. Object(n) \in paused' <=> Object(n) \in paused
    BY <1>2, <2>3
  <2>6. ~Pausing(Object(n)) => ~Pausing(Object(n))'
    BY <1>4, <2>1, <2>3
  <2>7. Flag(Object(n) \in paused') = Flag(Object(n) \in paused)
    BY <2>5 DEF Flag
  <2>8. QED
    BY <2>3, <2>4, <2>6, <2>7
<1>9. QED
  BY <1>5, <1>6, <1>7, <1>8 DEF IInv

LEMMA ServeDeleteTopic ==
  ASSUME IInv, NEW h \in Handlers, DeleteTopic(h) \/ DeleteTopicChannels(h)
  PROVE  IInv'
<1>1. TypeOK /\ LockInv /\ DraftInv /\ FileInv /\ PauseInv
  BY DEF IInv
<1> DEFINE r == IF pc[h] = "deltopic" THEN "empty" ELSE "remove"
<1>2. /\ Moved(h, r) /\ pc[h] \in {"deltopic", "empty"} /\ UNCHANGED <<topicMap, made, paused, promised, backing>>
      /\ exitFlag' = exitFlag \/ exitFlag' = exitFlag \cup {at[h]}
      /\ pc[h] = "deltopic" => exitFlag' = exitFlag \cup {at[h]}
      /\ channelMap' = channelMap \/ (pc[h] = "empty" /\ channelMap' = [channelMap EXCEPT ![at[h]] = {}])
      /\ notices' = notices + 1 \/ notices' = notices + Cardinality(channelMap[at[h]])
  BY DEF DeleteTopic, DeleteTopicChannels, Moved, persister, bounds, PcType, NoRequest
<1>3. r \in {"empty", "remove"} /\ (r = "empty" => pc[h] = "deltopic")
  OBVIOUS
<1> HIDE DEF r
<1>4. at[h] \in Topics /\ channelMap \in [Topics -> SUBSET Channels] /\ notices \in Nat /\ exitFlag \subseteq Topics
  BY <1>1, <1>2, MovedPcs DEF TypeOK
<1>5. at[h] \in exitFlag'
  BY <1>1, <1>2 DEF LockInv
<1>6. (\A t : Pausing(t)' <=> Pausing(t)) /\ (\A t : Deleting(t)' <=> Deleting(t))
  BY <1>1, <1>2, <1>3, MovedPcs DEF Pausing, Deleting
<1>7. \A t \in Topics : channelMap'[t] = channelMap[t] \/ t \in exitFlag'
  BY <1>2, <1>4, <1>5
<1>8. notices' \in Nat /\ notices' >= notices
  <2>1. IsFiniteSet(channelMap[at[h]])
    BY <1>4, MetaAssumption, FS_Subset
  <2>2. Cardinality(channelMap[at[h]]) \in Nat
    BY <2>1, FS_CardinalityType
  <2>3. QED
    BY <1>2, <1>4, <2>2
<1>9. TypeOK'
  <2>1. channelMap' \in [Topics -> SUBSET Channels] /\ exitFlag' \subseteq Topics
    BY <1>2, <1>4
  <2>2. TopicTypes'
    BY <1>1, <1>2, <2>1, TypeParts DEF TopicTypes
  <2>3. QED
    BY <1>1, <1>2, <1>8, <2>2, MovedTypes, TypePartsNext
<1>10. LockInv'
  BY <1>1, <1>2, <1>5, MovedLock
<1>11. DraftInv' /\ FileInv'
  <2>1. \A t \in Topics : Told(t)
    BY <1>2, <1>4, <1>6, <1>7, <1>8 DEF Told
  <2>2. QED
    BY <1>1, <1>2, <2>1, Tell DEF Moved
<1>12. PauseInv'
  BY <1>1, <1>2, <1>6, PauseKeep DEF Moved
<1>13. QED
  BY <1>9, <1>10, <1>11, <1>12 DEF IInv

LEMMA ServeRemoveTopic ==
  ASSUME IInv, NEW h \in Handlers, RemoveTopic(h)
  PROVE  IInv'
<1>1. TypeOK /\ LockInv /\ FileInv /\ PauseInv
  BY DEF IInv
<1> DEFINE nm == at[h][1]
<1>2. /\ Moved(h, NoRequest) /\ pc[h] = "remove" /\ holder = "free"
      /\ UNCHANGED <<made, exitFlag, paused, backing, channelMap, notices>>
      /\ topicMap' = [topicMap EXCEPT ![nm] = NoTopic] /\ promised' = [promised EXCEPT ![nm] = "none"]
  BY DEF RemoveTopic, Moved, persister, bounds, PcType, NoRequest
<1>3. at[h] \in Topics /\ topicMap \in [Names -> 0..MaxGen] /\ made \in [Names -> 0..MaxGen]
      /\ promised \in [Names -> {"none", "paused", "unpaused"}] /\ MaxGen \in Nat \ {0}
  BY <1>1, <1>2, MovedPcs, MetaAssumption DEF TypeOK
<1>4. nm \in Names
  BY <1>1, <1>3, ObjectFacts
<1> HIDE DEF nm
<1>5. topicMap'[nm] = 0 /\ promised'[nm] = "none"
      /\ \A n \in Names \ {nm} : topicMap'[n] = topicMap[n] /\ promised'[n] = promised[n]
  BY <1>2, <1>3, <1>4 DEF NoTopic
<1>6. \A n \in Live' : n \in Live /\ n # nm /\ n \in Names /\ Object(n)' = Object(n)
  BY <1>5 DEF Live, NoTopic, Object
<1>7. \A n \in Live : n # nm => n \in Live' /\ Object(n)' = Object(n)
  BY <1>5 DEF Live, NoTopic, Object
<1>8. (\A t : Pausing(t)' <=> Pausing(t)) /\ (\A t : Deleting(t)' <=> Deleting(t))
  BY <1>1, <1>2, MovedPcs DEF Pausing, Deleting, NoRequest
<1>9. unread = {} /\ UNCHANGED <<up, holder, unread, draft, file, failed>>
  BY <1>1, <1>2 DEF LockInv, Moved
<1>10. TypeOK'
  <2>1. topicMap' \in [Names -> 0..MaxGen] /\ promised' \in [Names -> {"none", "paused", "unpaused"}]
    BY <1>2, <1>3, <1>4 DEF NoTopic
  <2>2. \A n \in Names : topicMap'[n] <= made[n]
    BY <1>1, <1>3, <1>4, <1>5 DEF TypeOK
  <2>3. TopicTypes'
    BY <1>1, <1>2, <2>1, <2>2, TypeParts DEF TopicTypes
  <2>4. PersisterTypes'
    BY <1>1, <1>2, <1>9, TypeParts DEF PersisterTypes
  <2>5. HandlerTypes' /\ CountTypes'
    <3>1. Goto(h, NoRequest) /\ pc[h] # NoRequest /\ NoRequest \in PcType /\ UNCHANGED <<up, at>> /\ CountsKept
      BY <1>2 DEF Moved, CountsKept
    <3>2. QED
      BY <1>1, <3>1, TypeKeep, GotoTypes
  <2>6. QED
    BY <2>3, <2>4, <2>5, TypePartsNext
<1>11. LockInv'
  BY <1>1, <1>2, MovedLock DEF NoRequest
<1>12. DraftInv'
  BY <1>2, <1>9 DEF DraftInv
<1>13. FileInv'
  <2>1. SUFFICES ASSUME up = "up", ~failed, NEW n \in Live'
                 PROVE  LET t == Object(n) IN
                        \/ t \in exitFlag \/ notices > 0 \/ Pausing(t)' \/ Deleting(t)'
                        \/ n \in DOMAIN file /\ file[n] = [paused |-> t \in paused, channels |-> channelMap[t]]
    BY <1>2, <1>6, <1>9 DEF FileInv, EntryOf
  <2>2. n \in Live
    BY <1>6
  <2>3. QED
    BY <1>1, <1>2, <1>8, <2>1, <2>2, <1>6 DEF FileInv, EntryOf
<1>14. PauseInv'
  <2>1. SUFFICES ASSUME NEW n \in Names, promised'[n] # "none"
                 PROVE  /\ backing[n] = "file" => n \in DOMAIN file /\ Flag(file[n].paused) = promised'[n]
                        /\ backing[n] = "memory" => up # "down"
                        /\ up # "down" /\ backing[n] # "nothing" =>
                             n \in Live' /\ Flag(Object(n)' \in paused) = promised'[n] /\ ~Pausing(Object(n))'
    BY <1>2, <1>9 DEF PauseInv, Flag
  <2>2. n # nm /\ promised'[n] = promised[n]
    BY <1>5, <2>1
  <2>3. /\ backing[n] = "file" => n \in DOMAIN file /\ Flag(file[n].paused) = promised[n]
        /\ backing[n] = "memory" => up # "down"
        /\ up # "down" /\ backing[n] # "nothing" =>
             n \in Live /\ Flag(Object(n) \in paused) = promised[n] /\ ~Pausing(Object(n))
    BY <1>1, <2>1, <2>2 DEF PauseInv
  <2>4. QED
    BY <1>7, <1>8, <2>2, <2>3
<1>15. QED
  BY <1>10, <1>11, <1>12, <1>13, <1>14 DEF IInv

LEMMA FindStep ==
  ASSUME IInv, NEW h \in Handlers, NEW n \in Names, NEW r \in Requests, Find(h, n, r)
  PROVE  IInv'
<1>1. TypeOK /\ LockInv /\ DraftInv /\ FileInv /\ PauseInv /\ notices \in Nat
  BY DEF IInv, TypeOK
<1>2. /\ up # "down" /\ holder = "free" /\ pc[h] = NoRequest /\ topicMap[n] # NoTopic
      /\ pc' = [pc EXCEPT ![h] = r] /\ at' = [at EXCEPT ![h] = Object(n)]
      /\ requests < MaxRequests /\ requests' = requests + 1
      /\ TopicsKept /\ PersisterKept /\ UNCHANGED <<up, notices, kills, fails>>
  BY DEF Find, TopicsKept, PersisterKept, topics, persister
<1>3. r \in PcType /\ r \notin {NoRequest, "notify", "persist", "persisting", "empty", "remove"}
  BY DEF Requests, PcType, NoRequest
<1>4. pc \in [Handlers -> PcType] /\ at \in [Handlers -> Topics \cup {<<>>}]
  BY <1>1, TypeParts DEF HandlerTypes
<1>5. Object(n) \in Topics
  BY <1>1, <1>2, ObjectFacts DEF Live
<1>6. pc'[h] = r /\ at'[h] = Object(n) /\ \A k \in Handlers \ {h} : pc'[k] = pc[k] /\ at'[k] = at[k]
  BY <1>2, <1>4
<1>7. (\A t : Pausing(t)' <=> Pausing(t)) /\ (\A t : Deleting(t)' <=> Deleting(t))
  BY <1>2, <1>3, <1>6 DEF Pausing, Deleting, NoRequest
<1>8. TypeOK'
  <2>1. HandlerTypes'
    <3>1. pc' \in [Handlers -> PcType] /\ at' \in [Handlers -> Topics \cup {<<>>}]
      BY <1>2, <1>3, <1>4, <1>5
    <3>2. \A k \in Handlers : pc'[k] # NoRequest => at'[k] \in Topics
      BY <1>1, <1>5, <1>6 DEF TypeOK
    <3>3. QED
      BY <1>1, <1>2, <3>1, <3>2, TypeParts DEF HandlerTypes
  <2>2. CountTypes'
    BY <1>1, <1>2, MetaAssumption DEF TypeOK, CountTypes
  <2>3. TopicTypes' /\ PersisterTypes'
    BY <1>1, <1>2, TypeKeep DEF TopicsKept
  <2>4. QED
    BY <2>1, <2>2, <2>3, TypePartsNext
<1>9. LockInv'
  <2>1. UNCHANGED <<up, holder, unread, draft, exitFlag>>
    BY <1>2 DEF TopicsKept, PersisterKept
  <2>2. holder \notin Handlers
    BY <1>2, MetaAssumption
  <2>3. QED
    BY <1>1, <1>2, <1>3, <1>6, <2>1, <2>2 DEF LockInv
<1>10. DraftInv' /\ FileInv'
  <2>1. \A t \in Topics : Told(t)
    BY <1>2, <1>7 DEF Told, TopicsKept
  <2>2. QED
    BY <1>1, <1>2, <2>1, Tell DEF TopicsKept, PersisterKept
<1>11. PauseInv'
  BY <1>1, <1>2, <1>7, PauseKeep DEF TopicsKept, PersisterKept
<1>12. QED
  BY <1>8, <1>9, <1>10, <1>11 DEF IInv

LEMMA GetTopicStep ==
  ASSUME IInv, NEW nm \in Names, GetTopic(nm)
  PROVE  IInv'
<1>1. TypeOK /\ LockInv /\ PauseInv /\ notices \in Nat
  BY DEF IInv, TypeOK
<1>2. /\ up # "down" /\ holder = "free" /\ topicMap[nm] = NoTopic /\ made[nm] < MaxGen
      /\ made' = [made EXCEPT ![nm] = made[nm] + 1] /\ topicMap' = [topicMap EXCEPT ![nm] = made[nm] + 1]
      /\ requests < MaxRequests /\ requests' = requests + 1 /\ notices' = notices + 1
      /\ UNCHANGED <<up, exitFlag, paused, promised, backing, channelMap, pc, at, kills, fails>> /\ PersisterKept
  BY DEF GetTopic, PersisterKept, persister, handlers
<1>3. topicMap \in [Names -> 0..MaxGen] /\ made \in [Names -> 0..MaxGen] /\ MaxGen \in Nat /\ made[nm] + 1 \in 0..MaxGen
  BY <1>1, <1>2, MetaAssumption DEF TypeOK
<1>4. \A n \in Live : n # nm /\ n \in Live' /\ Object(n)' = Object(n)
  BY <1>2, <1>3 DEF Live, Object, NoTopic
<1>5. unread = {} /\ UNCHANGED <<up, holder, unread, draft, file, failed>>
  BY <1>1, <1>2 DEF LockInv, PersisterKept
<1>6. TypeOK'
  <2>1. topicMap' \in [Names -> 0..MaxGen] /\ made' \in [Names -> 0..MaxGen]
    BY <1>2, <1>3
  <2>2. \A n \in Names : topicMap'[n] <= made'[n]
    BY <1>1, <1>2, <1>3 DEF TypeOK
  <2>3. TopicTypes'
    BY <1>1, <1>2, <2>1, <2>2, TypeParts DEF TopicTypes
  <2>4. PersisterTypes'
    BY <1>1, <1>2, <1>5, TypeParts DEF PersisterTypes
  <2>5. HandlerTypes'
    BY <1>1, <1>2, TypeKeep
  <2>6. CountTypes'
    BY <1>1, <1>2, MetaAssumption DEF TypeOK, CountTypes
  <2>7. QED
    BY <2>3, <2>4, <2>5, <2>6, TypePartsNext
<1>7. LockInv'
  BY <1>1, <1>2, <1>5 DEF LockInv
<1>8. DraftInv'
  BY <1>2, <1>5 DEF DraftInv
<1>9. FileInv'
  <2>1. notices' > 0
    BY <1>1, <1>2
  <2>2. QED
    BY <2>1 DEF FileInv
<1>10. PauseInv'
  <2>1. \A t : Pausing(t)' <=> Pausing(t)
    BY <1>2 DEF Pausing
  <2>2. SUFFICES ASSUME NEW n \in Names, promised[n] # "none"
                 PROVE  /\ backing[n] = "file" => n \in DOMAIN file /\ Flag(file[n].paused) = promised[n]
                        /\ backing[n] # "nothing" =>
                             n \in Live' /\ Flag(Object(n)' \in paused) = promised[n] /\ ~Pausing(Object(n))'
    BY <1>2, <1>5 DEF PauseInv, Flag
  <2>3. /\ backing[n] = "file" => n \in DOMAIN file /\ Flag(file[n].paused) = promised[n]
        /\ backing[n] # "nothing" =>
             n \in Live /\ Flag(Object(n) \in paused) = promised[n] /\ ~Pausing(Object(n))
    BY <1>1, <1>2, <2>2 DEF PauseInv
  <2>4. QED
    BY <1>4, <2>1, <2>3
<1>11. QED
  BY <1>6, <1>7, <1>8, <1>9, <1>10 DEF IInv

-----------------------------------------------------------------------------
(* Persisting.                                                             *)

(* The server's lock is taken and the parts to be read are laid out.       *)
LEMMA BeginStep ==
  ASSUME IInv, NEW who \in Handlers \cup {"notify", "exit"}, BeginPersist(who), TopicsKept, UNCHANGED <<up, at>>,
         up # "down", notices' \in Nat, HandlerTypes', CountTypes',
         \A h \in Handlers : \/ pc'[h] = pc[h] /\ who # h
                             \/ pc'[h] = "persisting" /\ who = h
  PROVE  IInv'
<1>1. TypeOK /\ LockInv /\ PauseInv
  BY DEF IInv
<1>2. holder = "free" /\ holder' = who /\ unread' = Parts /\ draft' = NoFile /\ UNCHANGED <<file, failed>>
  BY DEF BeginPersist
<1>3. UNCHANGED <<topicMap, made, exitFlag, paused, promised, backing, channelMap>>
  BY DEF TopicsKept
<1>4. Live' = Live /\ Parts' = Parts
  BY <1>3, SameMap
<1>5. TypeOK'
  BY <1>1, <1>3, BeginTypes, TypeKeep, TypePartsNext
<1>6. who # "free"
  BY MetaAssumption
<1>7. LockInv'
  BY <1>1, <1>2, <1>3, <1>6 DEF LockInv
<1>8. DraftInv'
  <2>1. \A n \in Live : <<n, "paused">> \in Parts /\ <<n, "channels">> \in Parts
    BY <1>1, ObjectFacts
  <2>2. QED
    BY <1>2, <1>4, <2>1 DEF DraftInv
<1>9. FileInv'
  BY <1>2, <1>6 DEF FileInv
<1>10. PauseInv'
  <2>1. \A t : Pausing(t)' => Pausing(t)
    BY DEF Pausing
  <2>2. QED
    BY <1>1, <1>2, <1>3, <2>1, PauseKeep
<1>11. QED
  BY <1>5, <1>7, <1>8, <1>9, <1>10 DEF IInv

LEMMA BeginSteps ==
  ASSUME IInv, NotifyPersist \/ Exit \/ \E h \in Handlers : PausePersist(h)
  PROVE  IInv'
<1>1. TypeOK /\ notices \in Nat /\ Handlers \cap {"notify", "exit", "free"} = {}
  BY MetaAssumption DEF IInv, TypeOK
<1>2. CASE NotifyPersist
  <2>1. /\ BeginPersist("notify") /\ TopicsKept /\ UNCHANGED <<up, pc, at>> /\ CountsKept /\ up # "down"
        /\ notices > 0 /\ notices' = notices - 1
    BY <1>2 DEF NotifyPersist, TopicsKept, CountsKept, topics, handlers, bounds
  <2>2. notices' \in Nat /\ HandlerTypes' /\ CountTypes'
    BY <1>1, <2>1, TypeKeep
  <2>3. QED
    BY <1>1, <2>1, <2>2, BeginStep
<1>3. CASE Exit
  <2>1. /\ BeginPersist("exit") /\ TopicsKept /\ UNCHANGED <<up, pc, at, notices, requests, fails>> /\ up = "up"
        /\ kills < MaxKills /\ kills' = kills + 1
    BY <1>3 DEF Exit, TopicsKept, topics, handlers
  <2>2. HandlerTypes' /\ CountTypes'
    BY <1>1, <2>1, TypeKeep, MetaAssumption DEF CountTypes, TypeOK
  <2>3. QED
    BY <1>1, <2>1, <2>2, BeginStep
<1>4. ASSUME NEW h \in Handlers, PausePersist(h) PROVE IInv'
  <2>1. /\ BeginPersist(h) /\ TopicsKept /\ UNCHANGED <<up, at, notices>> /\ CountsKept /\ up # "down"
        /\ pc[h] = "persist" /\ Goto(h, "persisting")
    BY <1>4 DEF PausePersist, TopicsKept, CountsKept, topics, bounds
  <2>2. pc[h] # NoRequest /\ "persisting" \in PcType
    BY <2>1 DEF NoRequest, PcType
  <2>3. HandlerTypes' /\ pc'[h] = "persisting" /\ \A k \in Handlers \ {h} : pc'[k] = pc[k]
    BY <1>1, <2>1, <2>2, GotoTypes
  <2>4. CountTypes'
    BY <1>1, <2>1, TypeKeep
  <2>5. QED
    BY <1>1, <2>1, <2>3, <2>4, BeginStep
<1>5. QED
  BY <1>2, <1>3, <1>4

LEMMA DroppedStep ==
  ASSUME IInv, NotifyDropped
  PROVE  IInv'
<1>1. TypeOK /\ LockInv /\ DraftInv /\ PauseInv /\ notices \in Nat
  BY DEF IInv, TypeOK
<1>2. /\ up = "exiting" /\ notices > 0 /\ notices' = notices - 1 /\ TopicsKept /\ PersisterKept /\ CountsKept
      /\ UNCHANGED <<up, pc, at>>
  BY DEF NotifyDropped, TopicsKept, PersisterKept, CountsKept, topics, persister, handlers, bounds
<1>3. UNCHANGED <<topicMap, exitFlag, paused, promised, backing, channelMap, holder, unread, draft, file>>
  BY <1>2 DEF TopicsKept, PersisterKept
<1>4. Live' = Live /\ \A n : Object(n)' = Object(n)
  BY <1>3, SameMap
<1>5. (\A t : Pausing(t)' <=> Pausing(t)) /\ (\A t : Deleting(t)' <=> Deleting(t))
  BY <1>2 DEF Pausing, Deleting
<1>6. TypeOK'
  <2>1. notices' \in Nat
    BY <1>1, <1>2
  <2>2. QED
    BY <1>1, <1>2, <1>3, <2>1, TypeKeep, TypePartsNext
<1>7. LockInv'
  BY <1>1, <1>2, <1>3 DEF LockInv
<1>8. DraftInv'
  BY <1>1, <1>2, <1>3, <1>4, <1>5 DEF DraftInv
<1>9. FileInv'
  BY <1>2 DEF FileInv
<1>10. PauseInv'
  BY <1>1, <1>2, <1>3, <1>5, PauseKeep
<1>11. QED
  BY <1>6, <1>7, <1>8, <1>9, <1>10 DEF IInv
-----------------------------------------------------------------------------
(* PersistMetadata reads the topic map.                                    *)

LEMMA ReadPausedStep ==
  ASSUME IInv, NEW n \in Names, ReadPaused(n)
  PROVE  IInv'
<1>1. TypeOK /\ LockInv /\ DraftInv /\ FileInv /\ PauseInv
  BY DEF IInv
<1>2. /\ <<n, "paused">> \in unread /\ unread' = unread \ {<<n, "paused">>}
      /\ draft' = [m \in DOMAIN draft \cup {n} |->
                     IF m = n THEN [paused |-> Object(n) \in paused, channels |-> {}] ELSE draft[m]]
      /\ TopicsKept /\ CountsKept /\ UNCHANGED <<up, notices, holder, file, failed, pc, at>>
  BY DEF ReadPaused, TopicsKept, CountsKept, topics, handlers, bounds
<1>3. /\ unread \subseteq Parts /\ draft \in Files /\ file \in Files /\ failed \in BOOLEAN
      /\ notices \in Nat /\ holder \in Handlers \cup {"notify", "exit", "free"}
  BY <1>1 DEF TypeOK
<1>4. Live' = Live /\ Parts' = Parts /\ \A m : Object(m)' = Object(m)
  BY <1>2, SameMap DEF TopicsKept
<1>5. n \in Live /\ holder # "free" /\ up # "down"
  <2>1. n \in Live
    BY <1>1, <1>2, <1>3, ObjectFacts
  <2>2. QED
    BY <1>1, <1>2, <2>1 DEF LockInv
<1>6. /\ DOMAIN draft' = DOMAIN draft \cup {n}
      /\ draft'[n] = [paused |-> Object(n) \in paused, channels |-> {}]
      /\ \A m \in DOMAIN draft : m # n => draft'[m] = draft[m]
  BY <1>2
<1>7. TypeOK'
  <2>1. DOMAIN draft \subseteq Names /\ draft \in [DOMAIN draft -> Entry]
    BY <1>3, FileFacts
  <2>2. [paused |-> Object(n) \in paused, channels |-> {}] \in Entry
    BY DEF Entry
  <2>3. draft' \in [DOMAIN draft \cup {n} -> Entry]
    BY <1>2, <2>1, <2>2
  <2>4. draft' \in Files
    BY <1>6, <2>1, <2>3, FileFacts
  <2>5. PersisterTypes'
    BY <1>2, <1>3, <1>4, <2>4 DEF PersisterTypes
  <2>6. QED
    BY <1>1, <1>2, <2>5, TypeKeep, TypePartsNext
<1>8. LockInv'
  BY <1>1, <1>2, <1>5 DEF LockInv, TopicsKept
<1>9. (\A t : Pausing(t)' <=> Pausing(t)) /\ (\A t : Deleting(t)' <=> Deleting(t))
  BY <1>2 DEF Pausing, Deleting
<1>10. DraftInv'
  <2>1. SUFFICES ASSUME NEW m \in Live
                 PROVE  /\ \/ <<m, "paused">> \in unread'
                           \/ /\ m \in DOMAIN draft'
                              /\ (draft'[m].paused <=> Object(m) \in paused) \/ Pausing(Object(m))
                        /\ \/ <<m, "channels">> \in unread'
                           \/ /\ <<m, "paused">> \notin unread'
                              /\ \/ draft'[m].channels = channelMap[Object(m)]
                                 \/ up # "up" \/ notices > 0 \/ Object(m) \in exitFlag \/ Deleting(Object(m))
    BY <1>2, <1>4, <1>9 DEF DraftInv, TopicsKept
  <2>2. /\ \/ <<m, "paused">> \in unread
           \/ /\ m \in DOMAIN draft
              /\ (draft[m].paused <=> Object(m) \in paused) \/ Pausing(Object(m))
        /\ \/ <<m, "channels">> \in unread
           \/ /\ <<m, "paused">> \notin unread
              /\ \/ draft[m].channels = channelMap[Object(m)]
                 \/ up # "up" \/ notices > 0 \/ Object(m) \in exitFlag \/ Deleting(Object(m))
    BY <1>1, <1>5 DEF DraftInv
  <2>3. CASE m = n
    <3>1. <<n, "channels">> \in unread'
      BY <1>2, <2>2, <2>3
    <3>2. n \in DOMAIN draft' /\ (draft'[n].paused <=> Object(n) \in paused)
      <4>1. draft'[n].paused = (Object(n) \in paused)
        BY <1>6
      <4>2. QED
        BY <1>6, <4>1
    <3>3. QED
      BY <2>3, <3>1, <3>2
  <2>4. CASE m # n
    <3>1. \A part : <<m, part>> \in unread' <=> <<m, part>> \in unread
      BY <1>2, <2>4
    <3>2. m \in DOMAIN draft => m \in DOMAIN draft' /\ draft'[m] = draft[m]
      BY <1>6, <2>4
    <3>3. QED
      BY <2>2, <3>1, <3>2
  <2>5. QED
    BY <2>3, <2>4
<1>11. FileInv'
  BY <1>2, <1>5 DEF FileInv
<1>12. PauseInv'
  BY <1>1, <1>2, <1>9, PauseKeep DEF TopicsKept
<1>13. QED
  BY <1>7, <1>8, <1>10, <1>11, <1>12 DEF IInv

LEMMA ReadChannelsStep ==
  ASSUME IInv, NEW n \in Names, ReadChannels(n)
  PROVE  IInv'
<1>1. TypeOK /\ LockInv /\ DraftInv /\ FileInv /\ PauseInv
  BY DEF IInv
<1>2. /\ <<n, "channels">> \in unread /\ <<n, "paused">> \notin unread
      /\ unread' = unread \ {<<n, "channels">>}
      /\ draft' = [draft EXCEPT ![n].channels = channelMap[Object(n)]]
      /\ TopicsKept /\ CountsKept /\ UNCHANGED <<up, notices, holder, file, failed, pc, at>>
  BY DEF ReadChannels, TopicsKept, CountsKept, topics, handlers, bounds
<1>3. /\ unread \subseteq Parts /\ draft \in Files /\ file \in Files /\ failed \in BOOLEAN
      /\ notices \in Nat /\ holder \in Handlers \cup {"notify", "exit", "free"}
      /\ channelMap \in [Topics -> SUBSET Channels]
  BY <1>1 DEF TypeOK
<1>4. Live' = Live /\ Parts' = Parts /\ \A m : Object(m)' = Object(m)
  BY <1>2, SameMap DEF TopicsKept
<1>5. n \in Live /\ holder # "free" /\ up # "down" /\ Object(n) \in Topics
  <2>1. n \in Live /\ Object(n) \in Topics
    BY <1>1, <1>2, <1>3, ObjectFacts
  <2>2. QED
    BY <1>1, <1>2, <2>1 DEF LockInv
<1>6. n \in DOMAIN draft /\ DOMAIN draft \subseteq Names /\ draft \in [DOMAIN draft -> Entry]
  <2>1. n \in DOMAIN draft
    BY <1>1, <1>2, <1>5 DEF DraftInv
  <2>2. QED
    BY <1>3, <2>1, FileFacts
<1>7. draft[n] \in Entry /\ channelMap[Object(n)] \in SUBSET Channels
  BY <1>3, <1>5, <1>6
<1>8. /\ DOMAIN draft' = DOMAIN draft
      /\ draft'[n] = [draft[n] EXCEPT !.channels = channelMap[Object(n)]]
      /\ \A m \in DOMAIN draft : m # n => draft'[m] = draft[m]
  BY <1>2, <1>6
<1>9. draft'[n] \in Entry /\ draft'[n].paused = draft[n].paused /\ draft'[n].channels = channelMap[Object(n)]
  BY <1>7, <1>8 DEF Entry
<1>10. TypeOK'
  <2>1. \A m \in DOMAIN draft : draft'[m] \in Entry
    BY <1>6, <1>8, <1>9
  <2>2. draft' \in [DOMAIN draft -> Entry]
    <3>1. draft' = [m \in DOMAIN draft |-> draft'[m]]
      BY <1>2, <1>6
    <3>2. QED
      BY <2>1, <3>1
  <2>3. draft' \in Files
    BY <1>6, <1>8, <2>2, FileFacts
  <2>4. PersisterTypes'
    BY <1>2, <1>3, <1>4, <2>3 DEF PersisterTypes
  <2>5. QED
    BY <1>1, <1>2, <2>4, TypeKeep, TypePartsNext
<1>11. LockInv'
  BY <1>1, <1>2, <1>5 DEF LockInv, TopicsKept
<1>12. (\A t : Pausing(t)' <=> Pausing(t)) /\ (\A t : Deleting(t)' <=> Deleting(t))
  BY <1>2 DEF Pausing, Deleting
<1>13. DraftInv'
  <2>1. SUFFICES ASSUME NEW m \in Live
                 PROVE  /\ \/ <<m, "paused">> \in unread'
                           \/ /\ m \in DOMAIN draft'
                              /\ (draft'[m].paused <=> Object(m) \in paused) \/ Pausing(Object(m))
                        /\ \/ <<m, "channels">> \in unread'
                           \/ /\ <<m, "paused">> \notin unread'
                              /\ \/ draft'[m].channels = channelMap[Object(m)]
                                 \/ up # "up" \/ notices > 0 \/ Object(m) \in exitFlag \/ Deleting(Object(m))
    BY <1>2, <1>4, <1>12 DEF DraftInv, TopicsKept
  <2>2. /\ \/ <<m, "paused">> \in unread
           \/ /\ m \in DOMAIN draft
              /\ (draft[m].paused <=> Object(m) \in paused) \/ Pausing(Object(m))
        /\ \/ <<m, "channels">> \in unread
           \/ /\ <<m, "paused">> \notin unread
              /\ \/ draft[m].channels = channelMap[Object(m)]
                 \/ up # "up" \/ notices > 0 \/ Object(m) \in exitFlag \/ Deleting(Object(m))
    BY <1>1, <1>5 DEF DraftInv
  <2>3. CASE m = n
    BY <1>2, <1>8, <1>9, <2>2, <2>3
  <2>4. CASE m # n
    <3>1. \A part : <<m, part>> \in unread' <=> <<m, part>> \in unread
      BY <1>2, <2>4
    <3>2. m \in DOMAIN draft => m \in DOMAIN draft' /\ draft'[m] = draft[m]
      BY <1>8, <2>4
    <3>3. QED
      BY <2>2, <3>1, <3>2
  <2>5. QED
    BY <2>3, <2>4
<1>14. FileInv'
  BY <1>2, <1>5 DEF FileInv
<1>15. PauseInv'
  BY <1>1, <1>2, <1>12, PauseKeep DEF TopicsKept
<1>16. QED
  BY <1>10, <1>11, <1>13, <1>14, <1>15 DEF IInv
-----------------------------------------------------------------------------
(* PersistMetadata writes the file, or fails to, and the lock is released. *)

LEMMA AfterPersistFacts ==
  ASSUME TypeOK, LockInv, holder # "free", unread = {}, draft' = NoFile, AfterPersist
  PROVE  /\ HandlerTypes' /\ exitFlag' \subseteq Topics /\ exitFlag \subseteq exitFlag' /\ LockInv'
         /\ (\A t : Pausing(t)' <=> Pausing(t)) /\ (\A t : Deleting(t)' <=> Deleting(t))
         /\ up # "down" /\ up' # "down"
         /\ UNCHANGED <<topicMap, made, paused, channelMap, notices, unread, at, requests, kills>> /\ holder' = "free"
         /\ up' = "up" => up = "up" /\ exitFlag' = exitFlag
<1>1. /\ holder' = "free" /\ pc' = [h \in Handlers |-> IF holder = h THEN NoRequest ELSE pc[h]]
      /\ up' = IF holder = "exit" THEN "exiting" ELSE up
      /\ exitFlag' = IF holder = "exit" THEN exitFlag \cup {Object(n) : n \in Live} ELSE exitFlag
      /\ UNCHANGED <<topicMap, made, paused, channelMap, notices, unread, at, requests, kills>>
  BY DEF AfterPersist
<1>2. HandlerTypes /\ exitFlag \subseteq Topics
  BY TypeParts DEF TopicTypes
<1>3. up # "down"
  BY DEF LockInv
<1>4. up' # "down" /\ up' \in {"up", "exiting", "down"}
  BY <1>1, <1>2, <1>3 DEF HandlerTypes
<1>5. \A h \in Handlers : \/ pc'[h] = pc[h]
                          \/ pc[h] = "persisting" /\ pc'[h] = NoRequest
  BY <1>1 DEF LockInv
<1>6. HandlerTypes'
  <2>1. NoRequest \in PcType
    BY DEF PcType
  <2>2. pc' \in [Handlers -> PcType]
    BY <1>1, <1>2, <2>1 DEF HandlerTypes
  <2>3. QED
    BY <1>1, <1>2, <1>4, <1>5, <2>2 DEF HandlerTypes
<1>7. exitFlag' \subseteq Topics /\ exitFlag \subseteq exitFlag'
  <2>1. \A n \in Live : Object(n) \in Topics
    BY ObjectFacts
  <2>2. QED
    BY <1>1, <1>2, <2>1
<1>8. LockInv'
  <2>1. "free" \notin Handlers
    BY MetaAssumption
  <2>2. QED
    BY <1>1, <1>4, <1>5, <1>7, <2>1 DEF LockInv, NoRequest
<1>9. (\A t : Pausing(t)' <=> Pausing(t)) /\ (\A t : Deleting(t)' <=> Deleting(t))
  BY <1>1, <1>5 DEF Pausing, Deleting, NoRequest
<1>10. up' = "up" => up = "up" /\ exitFlag' = exitFlag
  BY <1>1
<1>11. QED
  BY <1>1, <1>3, <1>4, <1>6, <1>7, <1>8, <1>9, <1>10

(* A handler's pause that is being answered: the flag is that of the topic, *)
(* and nobody is about to change it.                                        *)
LEMMA AnsweredFacts ==
  ASSUME TypeOK, LockInv, NEW n \in Names, Answered(n)
  PROVE  n \in Live /\ ~Pausing(Object(n))
<1>1. PICK h \in Handlers : /\ holder = h /\ at[h] = Object(n)
                            /\ \A k \in Handlers \ {h} : pc[k] = "persist" => at[k] # Object(n)
  BY DEF Answered
<1>2. pc[h] = "persisting"
  BY <1>1 DEF LockInv
<1>3. Object(n) \in Topics
  BY <1>1, <1>2 DEF TypeOK, NoRequest
<1>4. n \in Live
  <2>1. topicMap[n] \in 1..MaxGen
    BY <1>3 DEF Object, Topics, Gens
  <2>2. QED
    BY <2>1 DEF Live, NoTopic
<1>5. ~Pausing(Object(n))
  BY <1>1, <1>2 DEF Pausing
<1>6. QED
  BY <1>4, <1>5

LEMMA PromiseTypes ==
  ASSUME TypeOK, Promise
  PROVE  /\ promised' \in [Names -> {"none", "paused", "unpaused"}]
         /\ \A n \in Names : promised'[n] = IF Answered(n) THEN Flag(Object(n) \in paused) ELSE promised[n]
<1>1. \A b : Flag(b) \in {"none", "paused", "unpaused"}
  BY DEF Flag
<1>2. QED
  BY <1>1 DEF Promise, TypeOK

LEMMA WriteFailsStep ==
  ASSUME IInv, WriteFileFails
  PROVE  IInv'
<1>1. TypeOK /\ LockInv /\ PauseInv
  BY DEF IInv
<1>2. /\ holder # "free" /\ unread = {} /\ draft' = NoFile /\ AfterPersist /\ failed' = TRUE
      /\ Promise /\ backing' = [n \in Names |-> IF Answered(n) THEN "memory" ELSE backing[n]]
      /\ UNCHANGED file /\ fails < MaxFails /\ fails' = fails + 1
  BY DEF WriteFileFails
<1>3. /\ HandlerTypes' /\ exitFlag' \subseteq Topics /\ LockInv' /\ (\A t : Pausing(t)' <=> Pausing(t))
      /\ up # "down" /\ up' # "down"
      /\ UNCHANGED <<topicMap, made, paused, channelMap, notices, unread, at, requests, kills>> /\ holder' = "free"
  BY <1>1, <1>2, AfterPersistFacts
<1>4. TypeOK'
  <2>1. TopicTypes /\ PersisterTypes /\ CountTypes
    BY <1>1, TypeParts
  <2>2. backing' \in [Names -> {"file", "memory", "nothing"}]
    BY <1>2, <2>1 DEF TopicTypes
  <2>3. TopicTypes'
    BY <1>1, <1>2, <1>3, <2>1, <2>2, PromiseTypes DEF TopicTypes
  <2>4. PersisterTypes'
    BY <1>2, <1>3, <2>1, FileFacts, SameMap DEF PersisterTypes
  <2>5. CountTypes'
    BY <1>2, <1>3, <2>1, MetaAssumption DEF CountTypes
  <2>6. QED
    BY <1>3, <2>3, <2>4, <2>5, TypePartsNext
<1>5. DraftInv' /\ FileInv'
  BY <1>2, <1>3 DEF DraftInv, FileInv
<1>6. PauseInv'
  <2>1. Live' = Live /\ \A n : Object(n)' = Object(n)
    BY <1>3, SameMap
  <2>2. SUFFICES ASSUME NEW n \in Names, promised'[n] # "none"
                 PROVE  /\ backing'[n] = "file" => n \in DOMAIN file /\ Flag(file[n].paused) = promised'[n]
                        /\ backing'[n] # "nothing" =>
                             n \in Live /\ Flag(Object(n) \in paused) = promised'[n] /\ ~Pausing(Object(n))
    BY <1>2, <1>3, <2>1 DEF PauseInv, Flag
  <2>3. CASE Answered(n)
    <3>1. promised'[n] = Flag(Object(n) \in paused) /\ backing'[n] = "memory"
      BY <1>1, <1>2, <2>3, PromiseTypes
    <3>2. n \in Live /\ ~Pausing(Object(n))
      BY <1>1, <2>3, AnsweredFacts
    <3>3. QED
      BY <3>1, <3>2
  <2>4. CASE ~Answered(n)
    <3>1. promised'[n] = promised[n] /\ backing'[n] = backing[n]
      BY <1>1, <1>2, <2>4, PromiseTypes
    <3>2. QED
      BY <1>1, <1>3, <2>2, <3>1 DEF PauseInv
  <2>5. QED
    BY <2>3, <2>4
<1>7. QED
  BY <1>3, <1>4, <1>5, <1>6 DEF IInv

LEMMA WriteStep ==
  ASSUME IInv, WriteFile
  PROVE  IInv'
<1>1. TypeOK /\ LockInv /\ DraftInv /\ PauseInv
  BY DEF IInv
<1>2. /\ holder # "free" /\ unread = {} /\ draft' = NoFile /\ AfterPersist /\ failed' = FALSE /\ file' = draft
      /\ Promise
      /\ backing' = [n \in Names |-> IF Answered(n) \/ backing[n] = "memory" THEN "file" ELSE backing[n]]
      /\ UNCHANGED fails
  BY DEF WriteFile
<1>3. /\ HandlerTypes' /\ exitFlag' \subseteq Topics /\ LockInv'
      /\ (\A t : Pausing(t)' <=> Pausing(t)) /\ (\A t : Deleting(t)' <=> Deleting(t))
      /\ up # "down" /\ up' # "down"
      /\ UNCHANGED <<topicMap, made, paused, channelMap, notices, unread, at, requests, kills>> /\ holder' = "free"
      /\ up' = "up" => up = "up" /\ exitFlag' = exitFlag
  BY <1>1, <1>2, AfterPersistFacts
<1>4. Live' = Live /\ \A n : Object(n)' = Object(n)
  BY <1>3, SameMap
<1>5. TypeOK'
  <2>1. TopicTypes /\ PersisterTypes /\ CountTypes
    BY <1>1, TypeParts
  <2>2. promised' \in [Names -> {"none", "paused", "unpaused"}]
    BY <1>1, <1>2, PromiseTypes
  <2>3. backing' \in [Names -> {"file", "memory", "nothing"}]
    BY <1>2, <2>1 DEF TopicTypes
  <2>4. TopicTypes'
    BY <1>3, <2>1, <2>2, <2>3 DEF TopicTypes
  <2>5. PersisterTypes'
    BY <1>2, <1>3, <2>1, FileFacts, SameMap DEF PersisterTypes
  <2>6. CountTypes'
    BY <1>2, <1>3, <2>1 DEF CountTypes
  <2>7. QED
    BY <1>3, <2>4, <2>5, <2>6, TypePartsNext
<1>6. DraftInv'
  BY <1>3 DEF DraftInv
(* What was read of a live topic is what will be in the file.              *)
<1>7. \A n \in Live :
        /\ n \in DOMAIN draft /\ draft[n] \in Entry
        /\ (draft[n].paused <=> Object(n) \in paused) \/ Pausing(Object(n))
        /\ \/ draft[n].channels = channelMap[Object(n)]
           \/ up # "up" \/ notices > 0 \/ Object(n) \in exitFlag \/ Deleting(Object(n))
  <2>1. draft \in [DOMAIN draft -> Entry]
    BY <1>1, FileFacts DEF TypeOK
  <2>2. QED
    BY <1>1, <1>2, <2>1 DEF DraftInv
<1>8. FileInv'
  <2>1. SUFFICES ASSUME up' = "up", NEW n \in Live
                 PROVE  LET t == Object(n) IN
                        \/ t \in exitFlag \/ notices > 0 \/ Pausing(t) \/ Deleting(t)
                        \/ n \in DOMAIN draft /\ draft[n] = [paused |-> t \in paused, channels |-> channelMap[t]]
    BY <1>2, <1>3, <1>4 DEF FileInv, EntryOf
  <2> DEFINE t == Object(n)
  <2>2. up = "up"
    BY <1>3, <2>1
  <2>3. SUFFICES ASSUME t \notin exitFlag, ~(notices > 0), ~Pausing(t), ~Deleting(t)
                 PROVE  draft[n] = [paused |-> t \in paused, channels |-> channelMap[t]]
    BY <1>7
  <2>4. /\ draft[n] \in [paused : BOOLEAN, channels : SUBSET Channels]
        /\ draft[n].paused <=> t \in paused
        /\ draft[n].channels = channelMap[t]
    BY <1>7, <2>2, <2>3 DEF Entry
  <2>5. draft[n].paused = (t \in paused)
    BY <2>4
  <2>6. draft[n] = [paused |-> draft[n].paused, channels |-> draft[n].channels]
    BY <2>4
  <2>7. QED
    BY <2>4, <2>5, <2>6
<1>9. PauseInv'
  <2>1. SUFFICES ASSUME NEW n \in Names, promised'[n] # "none"
                 PROVE  /\ backing'[n] # "memory"
                        /\ backing'[n] = "file" =>
                             /\ n \in DOMAIN draft /\ Flag(draft[n].paused) = promised'[n]
                             /\ n \in Live /\ Flag(Object(n) \in paused) = promised'[n] /\ ~Pausing(Object(n))
    BY <1>2, <1>3, <1>4, <1>5 DEF PauseInv, Flag, TypeOK
  <2>2. /\ promised'[n] = IF Answered(n) THEN Flag(Object(n) \in paused) ELSE promised[n]
        /\ backing'[n] = IF Answered(n) \/ backing[n] = "memory" THEN "file" ELSE backing[n]
    BY <1>1, <1>2, PromiseTypes
  <2>3. ASSUME backing'[n] = "file"
        PROVE  n \in Live /\ Flag(Object(n) \in paused) = promised'[n] /\ ~Pausing(Object(n))
    <3>1. CASE Answered(n)
      BY <1>1, <2>2, <3>1, AnsweredFacts
    <3>2. CASE ~Answered(n)
      <4>1. promised'[n] = promised[n] /\ backing[n] # "nothing"
        BY <2>2, <2>3, <3>2
      <4>2. QED
        BY <1>1, <1>3, <2>1, <4>1 DEF PauseInv
    <3>3. QED
      BY <3>1, <3>2
  <2>4. n \in Live /\ ~Pausing(Object(n)) =>
          n \in DOMAIN draft /\ (draft[n].paused <=> Object(n) \in paused)
    BY <1>7
  <2>5. n \in Live /\ ~Pausing(Object(n)) => Flag(draft[n].paused) = Flag(Object(n) \in paused)
    BY <2>4 DEF Flag
  <2>6. QED
    BY <2>2, <2>3, <2>4, <2>5
<1>10. QED
  BY <1>3, <1>5, <1>6, <1>8, <1>9 DEF IInv
-----------------------------------------------------------------------------
(* The life of the process.                                                *)

LEMMA EndedStep ==
  ASSUME IInv, Ended, kills' \in 0..MaxKills
  PROVE  IInv'
<1>1. TypeOK /\ PauseInv /\ MaxGen \in Nat \ {0}
  BY MetaAssumption DEF IInv
<1>2. /\ up' = "down" /\ topicMap' = [n \in Names |-> 0] /\ made' = [n \in Names |-> 0]
      /\ exitFlag' = {} /\ paused' = {} /\ channelMap' = [t \in Topics |-> {}]
      /\ notices' = 0 /\ holder' = "free" /\ unread' = {} /\ draft' = NoFile
      /\ pc' = [h \in Handlers |-> NoRequest] /\ at' = [h \in Handlers |-> <<>>]
      /\ backing' = [n \in Names |-> IF backing[n] = "memory" THEN "nothing" ELSE backing[n]]
      /\ UNCHANGED <<promised, file, failed, requests, fails>>
  BY DEF Ended, NoTopic
<1>3. TypeOK'
  <2>1. TopicTypes /\ PersisterTypes /\ CountTypes
    BY <1>1, TypeParts
  <2>2. TopicTypes'
    BY <1>1, <1>2, <2>1 DEF TopicTypes
  <2>3. PersisterTypes'
    BY <1>2, <2>1, FileFacts DEF PersisterTypes
  <2>4. HandlerTypes'
    BY <1>2 DEF HandlerTypes, PcType
  <2>5. CountTypes'
    BY <1>2, <2>1 DEF CountTypes
  <2>6. QED
    BY <2>2, <2>3, <2>4, <2>5, TypePartsNext
<1>4. LockInv'
  <2>1. "free" \notin Handlers
    BY MetaAssumption
  <2>2. QED
    BY <1>2, <2>1 DEF LockInv, NoRequest
<1>5. DraftInv' /\ FileInv'
  BY <1>2 DEF DraftInv, FileInv
<1>6. PauseInv'
  <2>1. \A n \in Names : backing'[n] # "memory" /\ (backing'[n] = "file" => backing[n] = "file")
    BY <1>2
  <2>2. QED
    BY <1>1, <1>2, <2>1 DEF PauseInv, Flag
<1>7. QED
  BY <1>3, <1>4, <1>5, <1>6 DEF IInv

LEMMA LoadStep ==
  ASSUME IInv, LoadMetadata
  PROVE  IInv'
<1>1. TypeOK /\ LockInv /\ PauseInv /\ MaxGen \in Nat \ {0}
  BY MetaAssumption DEF IInv
<1>2. /\ up = "down" /\ up' = "up" /\ failed' = FALSE
      /\ topicMap' = [n \in Names |-> IF n \in DOMAIN file THEN 1 ELSE 0] /\ made' = topicMap'
      /\ paused' = {<<n, 1>> : n \in {m \in DOMAIN file : file[m].paused}}
      /\ channelMap' = [t \in Topics |-> IF t[1] \in DOMAIN file /\ t[2] = 1
                                           THEN file[t[1]].channels ELSE {}]
      /\ UNCHANGED <<exitFlag, promised, backing, notices, holder, unread, draft, file, pc, at>> /\ CountsKept
  BY DEF LoadMetadata, handlers, bounds, CountsKept
<1>3. DOMAIN file \subseteq Names /\ file \in [DOMAIN file -> Entry]
  BY <1>1, FileFacts DEF TypeOK
<1>4. holder = "free" /\ unread = {} /\ draft = NoFile /\ \A h \in Handlers : pc[h] = NoRequest
  BY <1>1, <1>2 DEF LockInv
<1>5. 1 \in Gens /\ \A n \in Names : <<n, 1>> \in Topics
  BY <1>1 DEF Topics, Gens
<1>6. Live' = DOMAIN file /\ \A n \in DOMAIN file : Object(n)' = <<n, 1>>
  <2>1. \A n \in Names : topicMap'[n] = IF n \in DOMAIN file THEN 1 ELSE 0
    BY <1>2
  <2>2. Live' = {n \in Names : topicMap'[n] # 0}
    BY DEF Live, NoTopic
  <2>3. \A n : Object(n)' = <<n, topicMap'[n]>>
    BY DEF Object
  <2>4. \A n \in Names : topicMap'[n] # 0 <=> n \in DOMAIN file
    BY <2>1
  <2>5. Live' = DOMAIN file
    BY <1>3, <2>2, <2>4
  <2>6. \A n \in DOMAIN file : topicMap'[n] = 1
    BY <1>3, <2>1
  <2>7. QED
    BY <2>3, <2>5, <2>6
<1>7. \A n \in DOMAIN file : <<n, 1>> \in paused' <=> file[n].paused
  BY <1>2
<1>8. \A n \in DOMAIN file : channelMap'[<<n, 1>>] = file[n].channels
  BY <1>2, <1>3, <1>5
<1>9. TypeOK'
  <2>1. TopicTypes /\ PersisterTypes
    BY <1>1, TypeParts
  <2>2. channelMap' \in [Topics -> SUBSET Channels]
    <3>1. \A n \in DOMAIN file : file[n].channels \in SUBSET Channels
      BY <1>3 DEF Entry
    <3>2. QED
      BY <1>2, <3>1
  <2>3. paused' \subseteq Topics
    BY <1>2, <1>3, <1>5
  <2>4. topicMap' \in [Names -> 0..MaxGen] /\ \A n \in Names : topicMap'[n] <= made'[n]
    BY <1>1, <1>2
  <2>5. TopicTypes'
    BY <1>2, <2>1, <2>2, <2>3, <2>4 DEF TopicTypes
  <2>6. PersisterTypes'
    BY <1>2, <1>4, <2>1 DEF PersisterTypes
  <2>7. HandlerTypes'
    BY <1>1, <1>2, TypeParts DEF HandlerTypes
  <2>8. CountTypes'
    BY <1>1, <1>2, TypeKeep
  <2>9. QED
    BY <2>5, <2>6, <2>7, <2>8, TypePartsNext
<1>10. LockInv'
  BY <1>1, <1>2 DEF LockInv
<1>11. DraftInv'
  BY <1>2, <1>4 DEF DraftInv
<1>12. FileInv'
  <2>1. SUFFICES ASSUME NEW n \in DOMAIN file
                 PROVE  file[n] = [paused |-> <<n, 1>> \in paused', channels |-> channelMap'[<<n, 1>>]]
    BY <1>2, <1>6, ZenonT(40) DEF FileInv, EntryOf
  <2>2. file[n] \in [paused : BOOLEAN, channels : SUBSET Channels]
    BY <1>3 DEF Entry
  <2>3. file[n].paused = (<<n, 1>> \in paused')
    BY <1>7, <2>2
  <2>4. file[n] = [paused |-> file[n].paused, channels |-> file[n].channels]
    BY <2>2
  <2>5. QED
    BY <1>8, <2>3, <2>4
<1>13. PauseInv'
  <2>1. \A t : ~Pausing(t)'
    BY <1>2, <1>4 DEF Pausing, NoRequest
  <2>2. SUFFICES ASSUME NEW n \in Names, promised[n] # "none"
                 PROVE  backing[n] # "nothing" =>
                          /\ n \in DOMAIN file /\ Flag(file[n].paused) = promised[n]
                          /\ n \in Live' /\ Flag(Object(n)' \in paused') = promised[n]
    BY <1>2, <2>1 DEF PauseInv, Flag
  <2>3. backing[n] # "nothing" => n \in DOMAIN file /\ Flag(file[n].paused) = promised[n]
    BY <1>1, <1>2, <2>2 DEF PauseInv, TypeOK
  <2>4. backing[n] # "nothing" => Flag(<<n, 1>> \in paused') = Flag(file[n].paused)
    BY <1>7, <2>3 DEF Flag
  <2>5. QED
    BY <1>6, <2>3, <2>4
<1>14. QED
  BY <1>9, <1>10, <1>11, <1>12, <1>13 DEF IInv

-----------------------------------------------------------------------------
(* The theorems.                                                           *)

LEMMA InvInit == Init => IInv
<1>1. SUFFICES ASSUME Init PROVE IInv
  OBVIOUS
<1>2. /\ up = "up" /\ topicMap = [n \in Names |-> 0] /\ made = [n \in Names |-> 0]
      /\ exitFlag = {} /\ paused = {} /\ promised = [n \in Names |-> "none"]
      /\ backing = [n \in Names |-> "file"]
      /\ channelMap = [t \in Topics |-> {}]
      /\ notices = 0 /\ holder = "free" /\ unread = {} /\ draft = NoFile
      /\ file = NoFile /\ failed = FALSE
      /\ pc = [h \in Handlers |-> NoRequest] /\ at = [h \in Handlers |-> <<>>]
      /\ requests = 0 /\ kills = 0 /\ fails = 0
  BY <1>1 DEF Init, NoTopic
<1>3. Live = {}
  BY <1>2 DEF Live, NoTopic
<1>4. TypeOK
  <2>1. TopicTypes
    BY <1>2, MetaAssumption DEF TopicTypes
  <2>2. PersisterTypes
    BY <1>2, FileFacts DEF PersisterTypes
  <2>3. HandlerTypes
    BY <1>2 DEF HandlerTypes, PcType
  <2>4. CountTypes
    BY <1>2, MetaAssumption DEF CountTypes
  <2>5. QED
    BY <2>1, <2>2, <2>3, <2>4, TypeParts
<1>5. LockInv
  <2>1. "free" \notin Handlers
    BY MetaAssumption
  <2>2. QED
    BY <1>2, <2>1 DEF LockInv, NoRequest
<1>6. DraftInv /\ FileInv
  BY <1>2, <1>3 DEF DraftInv, FileInv
<1>7. PauseInv
  BY <1>2 DEF PauseInv
<1>8. QED
  BY <1>4, <1>5, <1>6, <1>7 DEF IInv

LEMMA StutterStep ==
  ASSUME IInv, UNCHANGED vars
  PROVE  IInv'
<1>1. TypeOK /\ LockInv /\ DraftInv /\ FileInv /\ PauseInv /\ notices \in Nat
  BY DEF IInv, TypeOK
<1>2. TopicsKept /\ PersisterKept /\ CountsKept /\ UNCHANGED <<up, pc, at, notices>>
  BY DEF vars, TopicsKept, PersisterKept, CountsKept
<1>3. UNCHANGED <<topicMap, exitFlag, paused, promised, backing, channelMap, holder, unread, draft, file, failed>>
  BY <1>2 DEF TopicsKept, PersisterKept
<1>4. (\A t : Pausing(t)' <=> Pausing(t)) /\ (\A t : Deleting(t)' <=> Deleting(t))
  BY <1>2 DEF Pausing, Deleting
<1>5. TypeOK'
  BY <1>1, <1>2, <1>3, TypeKeep, TypePartsNext
<1>6. LockInv'
  BY <1>1, <1>2, <1>3 DEF LockInv
<1>7. \A t \in Topics : Told(t)
  BY <1>2, <1>3, <1>4 DEF Told
<1>8. DraftInv' /\ FileInv'
  BY <1>1, <1>2, <1>3, <1>7, Tell
<1>9. PauseInv'
  BY <1>1, <1>2, <1>3, <1>4, PauseKeep
<1>10. QED
  BY <1>5, <1>6, <1>8, <1>9 DEF IInv

LEMMA ServeStep ==
  ASSUME IInv, NEW h \in Handlers, Serve(h)
  PROVE  IInv'
BY ServeGetChannel, ServeDeleteChannel, ServeOther, ServePause, BeginSteps, ServeDeleteTopic, ServeRemoveTopic DEF Serve

LEMMA InvStep == IInv /\ [Next]_vars => IInv'
<1>1. SUFFICES ASSUME IInv, [Next]_vars PROVE IInv'
  OBVIOUS
<1>2. CASE NotifyPersist \/ Exit
  BY <1>1, <1>2, BeginSteps
<1>3. CASE NotifyDropped
  BY <1>1, <1>3, DroppedStep
<1>4. CASE Persist
  BY <1>1, <1>4, ReadPausedStep, ReadChannelsStep, WriteStep, WriteFailsStep DEF Persist
<1>5. ASSUME NEW n \in Names, GetTopic(n) \/ \E h \in Handlers, r \in Requests : Find(h, n, r) PROVE IInv'
  BY <1>1, <1>5, GetTopicStep, FindStep
<1>6. ASSUME NEW h \in Handlers, Serve(h) PROVE IInv'
  BY <1>1, <1>6, ServeStep
<1>7. CASE ExitDone \/ Kill
  <2>1. Ended /\ kills' \in 0..MaxKills
    BY <1>1, <1>7, MetaAssumption DEF ExitDone, Kill, IInv, TypeOK
  <2>2. QED
    BY <1>1, <2>1, EndedStep
<1>8. CASE LoadMetadata
  BY <1>1, <1>8, LoadStep
<1>9. CASE UNCHANGED vars
  BY <1>1, <1>9, StutterStep
<1>10. QED
  BY <1>1, <1>2, <1>3, <1>4, <1>5, <1>6, <1>7, <1>8, <1>9 DEF Next, Process

(* The invariant that the others follow from.                              *)
THEOREM Invariance == Spec => []IInv
<1>1. IInv /\ [Next]_vars => IInv'
  BY InvStep
<1>2. QED
  BY InvInit, <1>1, PTL DEF Spec

(* Every variable has its type; a topic in the map exists.                 *)
THEOREM TypesKept == Spec => []TypeOK
<1>1. IInv => TypeOK
  BY DEF IInv
<1>2. QED
  BY <1>1, Invariance, PTL

(* When no notice, persister or half-told change is under way, nsqd.dat has *)
(* exactly the flags and channels of the topics that are not being deleted: *)
(* no order of Notify goroutines, readers and handlers loses a change.      *)
THEOREM QuietFileExactHolds == Spec => []QuietFileExact
<1>1. IInv => QuietFileExact
  <2>1. SUFFICES ASSUME IInv, Quiet, NEW n \in Live, Object(n) \notin exitFlag
                 PROVE  n \in DOMAIN file /\ file[n] = EntryOf(Object(n))
    BY DEF QuietFileExact
  <2>2. FileInv
    BY <2>1 DEF IInv
  <2>3. /\ up = "up" /\ notices = 0 /\ holder = "free" /\ ~failed
        /\ ~Pausing(Object(n)) /\ ~Deleting(Object(n))
    BY <2>1 DEF Quiet, Pausing, Deleting
  <2>4. ~(notices > 0)
    BY <2>3
  <2>5. QED
    BY <2>1, <2>2, <2>3, <2>4 DEF FileInv
<1>2. QED
  BY <1>1, Invariance, PTL

(* An answered pause or unpause is undone only in one way: the handler's   *)
(* own write failed, which it ignores, and the process ended before any    *)
(* later write succeeded.  Whatever else is persisted, fails or is killed, *)
(* the running process has the flag, and the file has it as soon as one    *)
(* write has succeeded.                                                    *)
THEOREM PauseUndoneOnlyByFailedWriteHolds == Spec => []PauseUndoneOnlyByFailedWrite
<1>1. IInv => PauseUndoneOnlyByFailedWrite
  BY DEF IInv, PauseInv, PauseUndoneOnlyByFailedWrite, Honoured
<1>2. QED
  BY <1>1, Invariance, PTL

(* Until a write fails, every promised flag rests on the file.             *)
BackingInv == fails = 0 => \A n \in Names : backing[n] = "file"

LEMMA BackingStep ==
  ASSUME IInv, BackingInv, [Next]_vars
  PROVE  BackingInv'
<1>1. fails \in Nat
  BY DEF IInv, TypeOK
<1>2. CASE UNCHANGED <<backing, fails>>
  BY <1>2 DEF BackingInv
<1>3. CASE Persist
  <2>1. CASE \E n \in Names : ReadPaused(n) \/ ReadChannels(n)
    BY <2>1 DEF ReadPaused, ReadChannels, topics, bounds, BackingInv
  <2>2. CASE WriteFile
    BY <2>2 DEF WriteFile, BackingInv
  <2>3. CASE WriteFileFails
    <3>1. fails' = fails + 1
      BY <2>3 DEF WriteFileFails
    <3>2. QED
      BY <1>1, <3>1 DEF BackingInv
  <2>4. QED
    BY <1>3, <2>1, <2>2, <2>3 DEF Persist
<1>4. CASE ExitDone \/ Kill
  BY <1>4 DEF ExitDone, Kill, Ended, BackingInv
<1>5. ASSUME NEW h \in Handlers, Serve(h) PROVE UNCHANGED <<backing, fails>>
  <2>1. CASE GetChannel(h) \/ DeleteChannel(h) \/ DeleteChannelMissing(h) \/ DeleteChannelNotify(h)
    BY <2>1 DEF GetChannel, DeleteChannel, DeleteChannelMissing, DeleteChannelNotify, topics, bounds
  <2>2. CASE Pause(h) \/ PausePersist(h)
    BY <2>2 DEF Pause, PausePersist, topics, bounds
  <2>3. CASE DeleteTopic(h) \/ DeleteTopicExiting(h) \/ DeleteTopicChannels(h) \/ RemoveTopic(h)
    BY <2>3 DEF DeleteTopic, DeleteTopicExiting, DeleteTopicChannels, RemoveTopic, topics, bounds
  <2>4. QED
    BY <1>5, <2>1, <2>2, <2>3 DEF Serve
<1>6. ASSUME NEW n \in Names, GetTopic(n) \/ \E h \in Handlers, r \in Requests : Find(h, n, r)
      PROVE  UNCHANGED <<backing, fails>>
  BY <1>6 DEF GetTopic, Find, topics
<1>7. CASE NotifyPersist \/ NotifyDropped \/ Exit \/ LoadMetadata \/ UNCHANGED vars
  <2>1. UNCHANGED <<backing, fails>>
    BY <1>7 DEF NotifyPersist, NotifyDropped, Exit, LoadMetadata, vars, topics, bounds
  <2>2. QED
    BY <1>2, <2>1
<1>8. QED
  BY <1>2, <1>3, <1>4, <1>5, <1>6, <1>7 DEF Next, Process

(* As long as no metadata write has failed, an answered pause or unpause    *)
(* survives every process failure.  (A failed write breaks this, since the  *)
(* handler ignores it and answers all the same.)                            *)
THEOREM PauseSurvivesHolds == Spec => [](fails = 0 => PauseSurvives)
<1>1. Init => BackingInv
  BY DEF Init, BackingInv
<1>2. IInv /\ BackingInv /\ [Next]_vars => BackingInv'
  BY BackingStep
<1>3. IInv /\ BackingInv => (fails = 0 => PauseSurvives)
  BY DEF IInv, PauseInv, BackingInv, PauseSurvives, Honoured
<1>4. QED
  BY <1>1, <1>2, <1>3, Invariance, PTL DEF Spec

-----------------------------------------------------------------------------
(* One deleter at a time.                                                  *)

DeleteSteps == {"deltopic", "empty", "remove"}

LEMMA DeleteKeep ==
  ASSUME DeleteInv, UNCHANGED topicMap,
         \A h \in Handlers : pc'[h] \in DeleteSteps => pc[h] \in DeleteSteps /\ at'[h] = at[h]
  PROVE  DeleteInv'
<1>1. \A n : Object(n)' = Object(n)
  BY SameMap
<1>2. QED
  BY <1>1 DEF DeleteInv, DeleteSteps

LEMMA DeleteStep ==
  ASSUME \A d, e \in Deleters : d = e, IInv, DeleteInv, [Next]_vars
  PROVE  DeleteInv'
<1>1. TypeOK /\ LockInv
  BY DEF IInv
<1>2. /\ pc \in [Handlers -> PcType] /\ at \in [Handlers -> Topics \cup {<<>>}]
      /\ topicMap \in [Names -> 0..MaxGen]
      /\ \A h \in Handlers : pc[h] # NoRequest => at[h] \in Topics
  BY <1>1 DEF TypeOK, PcType
<1>3. \A h \in Handlers : pc[h] \in DeleteSteps =>
        h \in Deleters /\ at[h] \in Topics /\ at[h][1] \in Names /\ topicMap[at[h][1]] # 0 /\ Object(at[h][1]) = at[h]
  <2>1. SUFFICES ASSUME NEW h \in Handlers, pc[h] \in DeleteSteps
                 PROVE  h \in Deleters /\ at[h] \in Topics /\ at[h][1] \in Names /\ topicMap[at[h][1]] # 0 /\
                        Object(at[h][1]) = at[h]
    OBVIOUS
  <2>2. at[h] \in Topics
    BY <1>2, <2>1 DEF DeleteSteps, NoRequest
  <2>3. at[h][1] \in Names /\ at[h][2] \in 1..MaxGen
    BY <1>1, <2>2, ObjectFacts
  <2>4. h \in Deleters /\ Object(at[h][1]) = at[h]
    BY <2>1 DEF DeleteInv, DeleteSteps
  <2>5. topicMap[at[h][1]] = at[h][2]
    BY <2>4 DEF Object
  <2>6. QED
    BY <2>2, <2>3, <2>4, <2>5
<1>4. CASE NotifyPersist \/ NotifyDropped \/ Exit \/ UNCHANGED vars
  <2>1. UNCHANGED <<topicMap, pc, at>>
    BY <1>4 DEF NotifyPersist, NotifyDropped, Exit, vars, topics, handlers
  <2>2. QED
    BY <2>1, DeleteKeep
<1>5. CASE Persist
  <2>1. ASSUME NEW n \in Names, ReadPaused(n) \/ ReadChannels(n) PROVE UNCHANGED <<topicMap, pc, at>>
    BY <2>1 DEF ReadPaused, ReadChannels, topics, handlers
  <2>2. CASE AfterPersist
    <3>1. /\ pc' = [h \in Handlers |-> IF holder = h THEN NoRequest ELSE pc[h]]
          /\ UNCHANGED <<topicMap, at>>
      BY <2>2 DEF AfterPersist
    <3>2. QED
      BY <3>1, DeleteKeep DEF DeleteSteps, NoRequest
  <2>3. QED
    BY <1>5, <2>1, <2>2, DeleteKeep DEF Persist, WriteFile, WriteFileFails
<1>6. ASSUME NEW n \in Names, GetTopic(n) PROVE DeleteInv'
  <2>1. topicMap[n] = 0 /\ topicMap' = [topicMap EXCEPT ![n] = made[n] + 1] /\ UNCHANGED <<pc, at>>
    BY <1>6 DEF GetTopic, handlers, NoTopic
  <2>2. SUFFICES ASSUME NEW h \in Handlers, pc[h] \in DeleteSteps
                 PROVE  h \in Deleters /\ <<at[h][1], topicMap'[at[h][1]]>> = at[h]
    BY <2>1 DEF DeleteInv, DeleteSteps, Object
  <2>3. at[h][1] # n
    BY <1>3, <2>1, <2>2
  <2>4. topicMap'[at[h][1]] = topicMap[at[h][1]]
    BY <1>2, <1>3, <2>1, <2>2, <2>3
  <2>5. QED
    BY <1>3, <2>2, <2>4 DEF Object
<1>7. ASSUME NEW n \in Names, NEW h \in Handlers, NEW r \in Requests, Find(h, n, r) PROVE DeleteInv'
  <2>1. /\ pc' = [pc EXCEPT ![h] = r] /\ at' = [at EXCEPT ![h] = Object(n)] /\ UNCHANGED topicMap
        /\ r = "deltopic" => h \in Deleters
    BY <1>7 DEF Find, topics
  <2>2. \A m : Object(m)' = Object(m)
    BY <2>1, SameMap
  <2>3. r \notin {"empty", "remove"}
    BY DEF Requests
  <2>4. SUFFICES ASSUME NEW k \in Handlers, pc'[k] \in DeleteSteps
                 PROVE  k \in Deleters /\ Object(at'[k][1]) = at'[k]
    BY <2>2 DEF DeleteInv, DeleteSteps
  <2>5. CASE k = h
    <3>1. r = "deltopic" /\ at'[k] = Object(n)
      BY <1>2, <2>1, <2>3, <2>4, <2>5 DEF DeleteSteps
    <3>2. QED
      BY <2>1, <2>5, <3>1 DEF Object
  <2>6. CASE k # h
    BY <1>2, <1>3, <2>1, <2>4, <2>6
  <2>7. QED
    BY <2>5, <2>6
<1>8. ASSUME NEW h \in Handlers, Serve(h) PROVE DeleteInv'
  <2>1. CASE RemoveTopic(h)
    <3>1. pc[h] = "remove" /\ pc' = [pc EXCEPT ![h] = NoRequest]
      BY <2>1 DEF RemoveTopic, Goto
    <3>2. \A k \in Handlers : pc'[k] \notin DeleteSteps
      BY <1>2, <1>3, <3>1 DEF DeleteSteps, NoRequest
    <3>3. QED
      BY <3>2 DEF DeleteInv, DeleteSteps
  <2>2. CASE ~RemoveTopic(h)
    <3>1. /\ UNCHANGED <<topicMap, at>>
          /\ \/ pc' = [pc EXCEPT ![h] = NoRequest]
             \/ pc' = [pc EXCEPT ![h] = "notify"]
             \/ pc' = [pc EXCEPT ![h] = "persist"]
             \/ pc' = [pc EXCEPT ![h] = "persisting"]
             \/ pc[h] = "deltopic" /\ pc' = [pc EXCEPT ![h] = "empty"]
             \/ pc[h] = "deltopic" /\ pc' = [pc EXCEPT ![h] = "remove"]
             \/ pc[h] = "empty" /\ pc' = [pc EXCEPT ![h] = "remove"]
      <4>1. CASE GetChannel(h) \/ DeleteChannel(h) \/ DeleteChannelMissing(h) \/ DeleteChannelNotify(h)
        BY <4>1 DEF GetChannel, DeleteChannel, DeleteChannelMissing, DeleteChannelNotify, Goto, topics
      <4>2. CASE Pause(h) \/ PausePersist(h)
        BY <4>2 DEF Pause, PausePersist, Goto, topics
      <4>3. CASE DeleteTopic(h) \/ DeleteTopicExiting(h) \/ DeleteTopicChannels(h)
        BY <4>3 DEF DeleteTopic, DeleteTopicExiting, DeleteTopicChannels, Goto, topics
      <4>4. QED
        BY <1>8, <2>2, <4>1, <4>2, <4>3 DEF Serve
    <3>2. \A k \in Handlers : pc'[k] \in DeleteSteps => pc[k] \in DeleteSteps /\ at'[k] = at[k]
      BY <1>2, <3>1 DEF DeleteSteps, NoRequest
    <3>3. QED
      BY <3>1, <3>2, DeleteKeep
  <2>3. QED
    BY <2>1, <2>2
<1>9. CASE ExitDone \/ Kill
  <2>1. pc' = [h \in Handlers |-> NoRequest]
    BY <1>9 DEF ExitDone, Kill, Ended
  <2>2. QED
    BY <2>1 DEF DeleteInv, NoRequest
<1>10. CASE LoadMetadata
  <2>1. up = "down" /\ UNCHANGED pc
    BY <1>10 DEF LoadMetadata, handlers
  <2>2. QED
    BY <1>1, <2>1 DEF LockInv, DeleteInv, NoRequest
<1>11. QED
  BY <1>4, <1>5, <1>6, <1>7, <1>8, <1>9, <1>10 DEF Next, Process

(* As long as topics are deleted one at a time, a topic that is being      *)
(* deleted stays in the map until the last step, so that nothing creates a *)
(* new topic of its name under the deletion.  (Two deleters at once break  *)
(* this: the second ignores the error of topic.Delete() and removes the    *)
(* name while the first is still at work.)                                 *)
THEOREM OldGoneFirstHolds ==
  ASSUME \A d, e \in Deleters : d = e
  PROVE  Spec => []OldGoneFirst
<1>1. Init => DeleteInv
  BY DEF Init, DeleteInv, NoRequest
<1>2. IInv /\ DeleteInv /\ [Next]_vars => DeleteInv'
  BY DeleteStep
<1>3. DeleteInv => OldGoneFirst
  BY DEF DeleteInv, OldGoneFirst
<1>4. QED
  BY <1>1, <1>2, <1>3, Invariance, PTL DEF Spec
=============================================================================
