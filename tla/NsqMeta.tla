------------------------------ MODULE NsqMeta ------------------------------
(***************************************************************************)
(* The topic map of one nsqd process and the metadata file that brings it  *)
(* back after a restart: src/nsq-master/nsqd/nsqd.go, with the HTTP        *)
(* handlers that pause and delete.                                         *)
(*                                                                         *)
(* A change of a topic or of its channels calls Notify, whose goroutine    *)
(* later takes the server's lock and rewrites the file from the topic map, *)
(* one topic after the other; a pause rewrites the file before its handler *)
(* returns.  Handlers keep a pointer to a topic that another handler may   *)
(* meanwhile have deleted, so a topic is an object <<name, generation>>.   *)
(* The process can be killed anywhere and starts again from the file.      *)
(*                                                                         *)
(* Ephemeral topics and channels are left out (the file skips them), and   *)
(* so is the pause flag of a channel, which follows the path of a topic's. *)
(***************************************************************************)
EXTENDS Naturals, FiniteSets

CONSTANTS
  Names,        \* topic names
  Channels,     \* channel names
  Handlers,     \* goroutines that serve requests
  Deleters,     \* those of them that may serve a topic deletion
  MaxGen,       \* generations of a topic name in one life of the process (bound)
  MaxRequests,  \* requests in the whole run (bound)
  MaxKills,     \* kills and shutdowns of the process (bound)
  MaxFails      \* metadata writes that fail (bound)

ASSUME MetaAssumption ==
  /\ MaxGen \in Nat \ {0} /\ MaxRequests \in Nat /\ MaxKills \in Nat /\ MaxFails \in Nat
  /\ Deleters \subseteq Handlers /\ IsFiniteSet(Channels)
  /\ Handlers \cap {"notify", "exit", "free"} = {}     \* `holder' tells them apart

Gens      == 1..MaxGen
NoTopic   == 0
Requests  == {"channel", "delchannel", "pause", "unpause", "deltopic"}
\* what the file records of a topic
Entry     == [paused : BOOLEAN, channels : SUBSET Channels]
Files     == UNION {[S -> Entry] : S \in SUBSET Names}
NoFile    == [n \in {} |-> [paused |-> FALSE, channels |-> {}]]
NoRequest == "idle"

VARIABLES
  up,          \* the process: "up", "exiting" (exitChan closed), "down"
  topicMap,    \* [Names -> generation in the map or NoTopic]
  made,        \* [Names -> generations created in this life]
  exitFlag,    \* topics whose exit() has begun
  paused,      \* topics that are paused
  promised,    \* [Names -> flag left by the pause requests that returned] (history)
  backing,     \* [Names -> what that flag rests on: see Answered] (history)
  channelMap,  \* [Names \X Gens -> SUBSET Channels]
  notices,     \* Notify goroutines that have not got the server's lock
  holder,      \* who holds the server's lock to persist: a handler, "notify", "exit" or "free"
  unread,      \* parts of the topic map PersistMetadata has still to read
  draft,       \* the file it is putting together
  file,        \* nsqd.dat
  failed,      \* the last attempt to write it failed
  pc,          \* [Handlers -> what the handler does next]
  at,          \* [Handlers -> the topic object it holds]
  requests, kills, fails   \* how many there were (bounds)

vars == <<up, topicMap, made, exitFlag, paused, promised, backing, channelMap, notices, holder,
          unread, draft, file, failed, pc, at, requests, kills, fails>>
topics    == <<topicMap, made, exitFlag, paused, promised, backing, channelMap>>
persister == <<holder, unread, draft, file, failed>>
handlers  == <<pc, at>>
bounds    == <<requests, kills, fails>>

Topics == Names \X Gens
Live   == {n \in Names : topicMap[n] # NoTopic}
Object(n) == <<n, topicMap[n]>>

\* the file that the topic map of this moment calls for
EntryOf(t) == [paused |-> t \in paused, channels |-> channelMap[t]]

Init ==
  /\ up = "up" /\ topicMap = [n \in Names |-> NoTopic] /\ made = [n \in Names |-> 0]
  /\ exitFlag = {} /\ paused = {} /\ promised = [n \in Names |-> "none"]
  /\ backing = [n \in Names |-> "file"]
  /\ channelMap = [t \in Topics |-> {}]
  /\ notices = 0 /\ holder = "free" /\ unread = {} /\ draft = NoFile
  /\ file = NoFile /\ failed = FALSE
  /\ pc = [h \in Handlers |-> NoRequest] /\ at = [h \in Handlers |-> <<>>]
  /\ requests = 0 /\ kills = 0 /\ fails = 0

-----------------------------------------------------------------------------
(* Notify and PersistMetadata.                                             *)

\* PersistMetadata has to read of every topic the flag and then the channels
Parts == {<<n, part>> : n \in Live, part \in {"paused", "channels"}}

BeginPersist(who) ==
  /\ holder = "free"
  /\ holder' = who
  /\ unread' = Parts
  /\ draft' = NoFile
  /\ UNCHANGED <<file, failed>>

\* Mutant of NotifyPersist: a notice gives up when somebody is persisting already.
NotifyPersistSkips ==
  /\ up # "down" /\ notices > 0
  /\ IF holder = "free" THEN BeginPersist("notify") ELSE UNCHANGED persister
  /\ notices' = notices - 1
  /\ UNCHANGED <<up, topics, handlers, bounds>>

\* Notify's goroutine, once the lookup loop has taken its notice
NotifyPersist ==
  /\ up # "down" /\ notices > 0
  /\ BeginPersist("notify")
  /\ notices' = notices - 1
  /\ UNCHANGED <<up, topics, handlers, bounds>>

\* once exitChan is closed, a notice may be dropped instead
NotifyDropped ==
  /\ up = "exiting" /\ notices > 0
  /\ notices' = notices - 1
  /\ UNCHANGED <<up, topics, persister, handlers, bounds>>

\* topic.IsPaused(), which takes no lock
ReadPaused(n) ==
  /\ <<n, "paused">> \in unread
  /\ unread' = unread \ {<<n, "paused">>}
  /\ draft' = [m \in DOMAIN draft \cup {n} |->
                 IF m = n THEN [paused |-> Object(n) \in paused, channels |-> {}] ELSE draft[m]]
  /\ UNCHANGED <<up, topics, notices, holder, file, failed, handlers, bounds>>

\* the range over channelMap, under the topic's lock
ReadChannels(n) ==
  /\ <<n, "channels">> \in unread /\ <<n, "paused">> \notin unread
  /\ unread' = unread \ {<<n, "channels">>}
  /\ draft' = [draft EXCEPT ![n].channels = channelMap[Object(n)]]
  /\ UNCHANGED <<up, topics, notices, holder, file, failed, handlers, bounds>>

\* after PersistMetadata: a pause handler and Notify's goroutine unlock,
\* Exit() closes every topic first and closes exitChan afterwards
AfterPersist ==
  /\ holder' = "free"
  /\ pc' = [h \in Handlers |-> IF holder = h THEN NoRequest ELSE pc[h]]
  /\ up' = IF holder = "exit" THEN "exiting" ELSE up
  /\ exitFlag' = IF holder = "exit" THEN exitFlag \cup {Object(n) : n \in Live} ELSE exitFlag
  /\ UNCHANGED <<topicMap, made, paused, channelMap, notices, unread, at, requests, kills>>

\* The last handler that is pausing or unpausing the topic is about to return:
\* doPauseTopic answers 200 whether or not PersistMetadata succeeded.  From then
\* on the flag is promised, and rests on
\*   "file"     a successful write that has recorded it,
\*   "memory"   the running process alone, as the handler's own write failed and
\*              none has succeeded since,
\*   "nothing"  nothing any more: that process has ended.
Answered(n) ==
  \E h \in Handlers :
    /\ holder = h /\ at[h] = Object(n)
    /\ \A k \in Handlers \ {h} : pc[k] = "persist" => at[k] # Object(n)
Flag(b) == IF b THEN "paused" ELSE "unpaused"
Promise == promised' = [n \in Names |-> IF Answered(n) THEN Flag(Object(n) \in paused) ELSE promised[n]]

\* writeSyncFile and os.Rename
WriteFile ==
  /\ holder # "free" /\ unread = {}
  /\ file' = draft
  /\ failed' = FALSE
  /\ draft' = NoFile
  /\ AfterPersist
  /\ Promise
  /\ backing' = [n \in Names |-> IF Answered(n) \/ backing[n] = "memory" THEN "file" ELSE backing[n]]
  /\ UNCHANGED fails

\* either of them fails: the error is logged, or ignored by a pause handler,
\* which answers its request all the same
WriteFileFails ==
  /\ holder # "free" /\ unread = {}
  /\ fails < MaxFails
  /\ fails' = fails + 1
  /\ failed' = TRUE
  /\ draft' = NoFile
  /\ AfterPersist
  /\ Promise
  /\ backing' = [n \in Names |-> IF Answered(n) THEN "memory" ELSE backing[n]]
  /\ UNCHANGED file

-----------------------------------------------------------------------------
(* Requests.  Whoever looks a topic up waits for a persister to unlock.    *)

\* GetTopic() of a name that is not in the map; NewTopic calls Notify before
\* the topic is in the map, under the server's lock
GetTopic(n) ==
  /\ up # "down" /\ holder = "free" /\ requests < MaxRequests
  /\ topicMap[n] = NoTopic /\ made[n] < MaxGen
  /\ made' = [made EXCEPT ![n] = @ + 1]
  /\ topicMap' = [topicMap EXCEPT ![n] = made[n] + 1]
  /\ notices' = notices + 1
  /\ requests' = requests + 1
  /\ UNCHANGED <<up, exitFlag, paused, promised, backing, channelMap, persister, handlers, kills, fails>>

\* GetExistingTopic(), or the lookup that DeleteExistingTopic begins with
Find(h, n, r) ==
  /\ up # "down" /\ holder = "free" /\ requests < MaxRequests
  /\ pc[h] = NoRequest /\ topicMap[n] # NoTopic
  /\ r = "deltopic" => h \in Deleters
  /\ pc' = [pc EXCEPT ![h] = r]
  /\ at' = [at EXCEPT ![h] = Object(n)]
  /\ requests' = requests + 1
  /\ UNCHANGED <<up, topics, notices, persister, kills, fails>>

Goto(h, next) == pc' = [pc EXCEPT ![h] = next]

\* Mutant of GetChannel: NewChannel does not notify.
GetChannelSilent(h) ==
  /\ up # "down" /\ pc[h] = "channel"
  /\ \E c \in Channels : channelMap' = [channelMap EXCEPT ![at[h]] = @ \cup {c}]
  /\ Goto(h, NoRequest)
  /\ UNCHANGED <<up, topicMap, made, exitFlag, paused, promised, backing, notices, persister, at, bounds>>

\* getOrCreateChannel(): NewChannel calls Notify before the channel is in the
\* map, under the topic's lock
GetChannel(h) ==
  /\ up # "down" /\ pc[h] = "channel"
  /\ \E c \in Channels :
       /\ channelMap' = [channelMap EXCEPT ![at[h]] = @ \cup {c}]
       /\ notices' = notices + Cardinality({c} \ channelMap[at[h]])
  /\ Goto(h, NoRequest)
  /\ UNCHANGED <<up, topicMap, made, exitFlag, paused, promised, backing, persister, at, bounds>>

\* DeleteExistingChannel(): out of the map, then channel.Delete() notifies
DeleteChannel(h) ==
  /\ up # "down" /\ pc[h] = "delchannel"
  /\ \E c \in channelMap[at[h]] : channelMap' = [channelMap EXCEPT ![at[h]] = @ \ {c}]
  /\ Goto(h, "notify")
  /\ UNCHANGED <<up, topicMap, made, exitFlag, paused, promised, backing, notices, persister, at, bounds>>

DeleteChannelMissing(h) ==
  /\ up # "down" /\ pc[h] = "delchannel" /\ channelMap[at[h]] # Channels
  /\ Goto(h, NoRequest)
  /\ UNCHANGED <<up, topics, notices, persister, at, bounds>>

DeleteChannelNotify(h) ==
  /\ up # "down" /\ pc[h] = "notify"
  /\ notices' = notices + 1
  /\ Goto(h, NoRequest)
  /\ UNCHANGED <<up, topics, persister, at, bounds>>

\* doPauseTopic: the flag is stored, and the file written, before it returns
Pause(h) ==
  /\ up # "down" /\ pc[h] \in {"pause", "unpause"}
  /\ paused' = IF pc[h] = "pause" THEN paused \cup {at[h]} ELSE paused \ {at[h]}
  /\ promised' = [n \in Names |-> IF Object(n) = at[h] THEN "none" ELSE promised[n]]
  /\ Goto(h, "persist")
  /\ UNCHANGED <<up, topicMap, made, exitFlag, backing, channelMap, notices, persister, at, bounds>>

\* Mutant of PausePersist: the handler waits for a lock that it holds itself.
PausePersistReentrant(h) ==
  /\ up # "down" /\ pc[h] = "persist" /\ holder = h
  /\ BeginPersist(h)
  /\ Goto(h, "persisting")
  /\ UNCHANGED <<up, topics, notices, at, bounds>>

PausePersist(h) ==
  /\ up # "down" /\ pc[h] = "persist"
  /\ BeginPersist(h)
  /\ Goto(h, "persisting")
  /\ UNCHANGED <<up, topics, notices, at, bounds>>

\* Mutant of DeleteTopic: the topic leaves the map before it is deleted.
DeleteTopicRemovesFirst(h) ==
  /\ up # "down" /\ pc[h] = "deltopic" /\ at[h] \notin exitFlag /\ holder = "free"
  /\ exitFlag' = exitFlag \cup {at[h]}
  /\ topicMap' = [topicMap EXCEPT ![at[h][1]] = NoTopic]
  /\ notices' = notices + 1
  /\ Goto(h, "empty")
  /\ UNCHANGED <<up, made, paused, promised, backing, channelMap, persister, at, bounds>>

\* topic.Delete(): exit(true) raises the flag and notifies ...
DeleteTopic(h) ==
  /\ up # "down" /\ pc[h] = "deltopic" /\ at[h] \notin exitFlag
  /\ exitFlag' = exitFlag \cup {at[h]}
  /\ notices' = notices + 1
  /\ Goto(h, "empty")
  /\ UNCHANGED <<up, topicMap, made, paused, promised, backing, channelMap, persister, at, bounds>>

\* ... or returns an error, which DeleteExistingTopic ignores
DeleteTopicExiting(h) ==
  /\ up # "down" /\ pc[h] = "deltopic" /\ at[h] \in exitFlag
  /\ Goto(h, "remove")
  /\ UNCHANGED <<up, topics, notices, persister, at, bounds>>

\* every channel is deleted under the topic's lock, then the queues are
DeleteTopicChannels(h) ==
  /\ up # "down" /\ pc[h] = "empty"
  /\ notices' = notices + Cardinality(channelMap[at[h]])
  /\ channelMap' = [channelMap EXCEPT ![at[h]] = {}]
  /\ Goto(h, "remove")
  /\ UNCHANGED <<up, topicMap, made, exitFlag, paused, promised, backing, persister, at, bounds>>

\* Mutant of RemoveTopic: the server's lock is not taken.
RemoveTopicUnlocked(h) ==
  /\ up # "down" /\ pc[h] = "remove"
  /\ topicMap' = [topicMap EXCEPT ![at[h][1]] = NoTopic]
  /\ promised' = [promised EXCEPT ![at[h][1]] = "none"]
  /\ Goto(h, NoRequest)
  /\ UNCHANGED <<up, made, exitFlag, paused, backing, channelMap, notices, persister, at, bounds>>

\* delete(n.topicMap, topicName): by name, whatever topic has it now
RemoveTopic(h) ==
  /\ up # "down" /\ pc[h] = "remove" /\ holder = "free"
  /\ topicMap' = [topicMap EXCEPT ![at[h][1]] = NoTopic]
  /\ promised' = [promised EXCEPT ![at[h][1]] = "none"]
  /\ Goto(h, NoRequest)
  /\ UNCHANGED <<up, made, exitFlag, paused, backing, channelMap, notices, persister, at, bounds>>

-----------------------------------------------------------------------------
(* The life of the process.                                                *)

\* Exit(): the listeners are closed, the requests being served go on
Exit ==
  /\ up = "up" /\ kills < MaxKills
  /\ BeginPersist("exit")
  /\ kills' = kills + 1
  /\ UNCHANGED <<up, topics, notices, handlers, requests, fails>>

\* what a process that has ended leaves behind: the file
Ended ==
  /\ up' = "down"
  /\ topicMap' = [n \in Names |-> NoTopic] /\ made' = [n \in Names |-> 0]
  /\ exitFlag' = {} /\ paused' = {} /\ channelMap' = [t \in Topics |-> {}]
  /\ backing' = [n \in Names |-> IF backing[n] = "memory" THEN "nothing" ELSE backing[n]]
  /\ notices' = 0 /\ holder' = "free" /\ unread' = {} /\ draft' = NoFile
  /\ pc' = [h \in Handlers |-> NoRequest] /\ at' = [h \in Handlers |-> <<>>]
  /\ UNCHANGED <<promised, file, failed, requests, fails>>

\* Exit() waits for the Notify goroutines and returns
ExitDone ==
  /\ up = "exiting" /\ notices = 0 /\ holder = "free"
  /\ Ended
  /\ UNCHANGED kills

Kill ==
  /\ up # "down" /\ kills < MaxKills
  /\ Ended
  /\ kills' = kills + 1

\* Mutant of LoadMetadata: t.Paused is not looked at.
LoadMetadataUnpaused ==
  /\ up = "down"
  /\ up' = "up"
  /\ made' = [n \in Names |-> IF n \in DOMAIN file THEN 1 ELSE 0]
  /\ topicMap' = made'
  /\ channelMap' = [t \in Topics |-> IF t[1] \in DOMAIN file /\ t[2] = 1
                                       THEN file[t[1]].channels ELSE {}]
  /\ failed' = FALSE
  /\ UNCHANGED <<exitFlag, paused, promised, backing, notices, holder, unread, draft, file, handlers, bounds>>

\* LoadMetadata, whose Notify calls do not persist, then PersistMetadata: the
\* file it writes says what the file it read said
LoadMetadata ==
  /\ up = "down"
  /\ up' = "up"
  /\ made' = [n \in Names |-> IF n \in DOMAIN file THEN 1 ELSE 0]
  /\ topicMap' = made'
  /\ paused' = {<<n, 1>> : n \in {m \in DOMAIN file : file[m].paused}}
  /\ channelMap' = [t \in Topics |-> IF t[1] \in DOMAIN file /\ t[2] = 1
                                       THEN file[t[1]].channels ELSE {}]
  /\ failed' = FALSE
  /\ UNCHANGED <<exitFlag, promised, backing, notices, holder, unread, draft, file, handlers, bounds>>

-----------------------------------------------------------------------------
Persist == \/ \E n \in Names : ReadPaused(n) \/ ReadChannels(n)
           \/ WriteFile \/ WriteFileFails

Serve(h) == \/ GetChannel(h) \/ DeleteChannel(h) \/ DeleteChannelMissing(h) \/ DeleteChannelNotify(h)
            \/ Pause(h) \/ PausePersist(h)
            \/ DeleteTopic(h) \/ DeleteTopicExiting(h) \/ DeleteTopicChannels(h) \/ RemoveTopic(h)

Process == Exit \/ ExitDone \/ Kill \/ LoadMetadata

Next == \/ NotifyPersist \/ NotifyDropped \/ Persist
        \/ \E n \in Names : GetTopic(n) \/ \E h \in Handlers, r \in Requests : Find(h, n, r)
        \/ \E h \in Handlers : Serve(h)
        \/ Process

Spec == Init /\ [][Next]_vars

\* goroutines are scheduled, and a Go mutex cannot be withheld for ever from one
\* that waits for it; a process that is down is started again
FairSpec ==
  /\ Spec /\ WF_vars(Persist) /\ SF_vars(NotifyPersist)
  /\ \A h \in Handlers : SF_vars(Serve(h))
  /\ WF_vars(ExitDone) /\ WF_vars(LoadMetadata)

-----------------------------------------------------------------------------
(* Properties.                                                             *)

\* Every variable has its type; a topic in the map exists.
TypeOK ==
  /\ up \in {"up", "exiting", "down"}
  /\ topicMap \in [Names -> 0..MaxGen] /\ made \in [Names -> 0..MaxGen]
  /\ exitFlag \subseteq Topics /\ paused \subseteq Topics
  /\ promised \in [Names -> {"none", "paused", "unpaused"}]
  /\ backing \in [Names -> {"file", "memory", "nothing"}]
  /\ channelMap \in [Topics -> SUBSET Channels]
  /\ notices \in Nat /\ holder \in Handlers \cup {"notify", "exit", "free"}
  /\ unread \subseteq Parts
  /\ draft \in Files /\ file \in Files /\ failed \in BOOLEAN
  /\ pc \in [Handlers -> Requests \cup
              {NoRequest, "notify", "persist", "persisting", "empty", "remove"}]
  /\ at \in [Handlers -> Topics \cup {<<>>}]
  /\ \A h \in Handlers : pc[h] # NoRequest => at[h] \in Topics
  /\ requests \in 0..MaxRequests /\ kills \in 0..MaxKills /\ fails \in 0..MaxFails
  /\ \A n \in Names : topicMap[n] <= made[n]

Quiet == /\ up = "up" /\ notices = 0 /\ holder = "free" /\ ~failed
         /\ \A h \in Handlers : pc[h] \notin {"notify", "persist"}

\* When no notice, persister or half-told change is under way, the file has
\* for every topic of the map that is not being deleted exactly its pause flag
\* and its channels: no order of Notify goroutines and readers loses a change
\* (Notify is called before the map is changed, and relies on the locks).
QuietFileExact ==
  Quiet => \A n \in Live : Object(n) \notin exitFlag =>
             n \in DOMAIN file /\ file[n] = EntryOf(Object(n))

\* the process has the topic, with the flag that was promised
Honoured(n) == n \in Live /\ Flag(Object(n) \in paused) = promised[n]

\* Once the requests to pause or unpause a topic have been answered, a process
\* failure does not undo what they left (the comment at http.go:394-395): every
\* later process has the topic with that flag, until the next such request or
\* its deletion.
PauseSurvives ==
  \A n \in Names : promised[n] # "none" /\ up # "down" => Honoured(n)

\* The one way in which an answered pause or unpause is undone: the handler's own
\* write fails, which it ignores (http.go:396), and the process ends before any
\* later write succeeds.  Otherwise, whatever else is persisted, fails or is
\* killed meanwhile, the running process has the flag, and once one write has
\* succeeded the file keeps it for every later process.
PauseUndoneOnlyByFailedWrite ==
  \A n \in Names : promised[n] # "none" =>
    /\ backing[n] = "file" => n \in DOMAIN file /\ Flag(file[n].paused) = promised[n]
    /\ up # "down" /\ backing[n] # "nothing" => Honoured(n)

\* While a topic is being deleted it stays in the map, so that what is written
\* to it fails and does not create a new topic of the name (the comment at
\* nsqd.go:541-543).
OldGoneFirst ==
  \A h \in Handlers : pc[h] = "empty" => Object(at[h][1]) = at[h]

\* A request that has begun is answered, unless the process ends: the server's
\* lock is always released, also when writing the file fails.
RequestsReturn == \A h \in Handlers : pc[h] # NoRequest ~> pc[h] = NoRequest

\* A channel that was created reaches the file, unless it or its topic is
\* deleted, a write fails or the process ends first.
ChannelReachesFile ==
  \A n \in Names, g \in Gens, c \in Channels :
    (topicMap[n] = g /\ c \in channelMap[<<n, g>>])
      ~> (\/ n \in DOMAIN file /\ c \in file[n].channels
          \/ topicMap[n] # g \/ c \notin channelMap[<<n, g>>] \/ failed \/ up # "up")

=============================================================================
