# Verification of Go_Cocurrent

TLA+ models of the concurrent core of this repository, checked with TLC and,
for the results listed below, proved with TLAPS. Paths are relative to the
repository; `nsqd/` stands for `src/nsq-master/nsqd/`, `bolt/` for
`src/bolt-master/`.

## 1. Inventory

The repository collects several Go programs. It has one sentence of
documentation of its own, so the reference is the code with its tests and
comments.

| Part | State it keeps | Operations | What is hard | What makes it correct |
|---|---|---|---|---|
| worker pool (`并发原始版本`, `test`, `test1…`, `测试打印速度`) | the pool of idle workers' channels, one channel per worker | submit, dispatch, hand over, do, stop | a goroutine per job, all racing for the pool; a pool of fixed size; stopping a worker | a worker's channel goes to one job at a time; registration never blocks; each job runs once |
| nsqd channel (`nsqd/channel.go`, `in_flight_pqueue.go`, `internal/pqueue`) | memory queue, backend queue, in-flight map and heap, deferred map and heap, clients, flags | put, deliver, finish, requeue, touch, defer, time out, pause, empty, close, delete | map and heap have separate locks; the pumps take no channel lock; heap entries are removed through an index kept in the message | no message lost or duplicated; each in-flight one times out; counters exact; nobody sleeps through a wakeup |
| nsqd client and protocol (`client_v2.go`, `protocol_v2.go`) | state, RDY, in-flight count, ready token | SUB, RDY, FIN, REQ, TOUCH, CLS, PUB, MPUB, DPUB, IDENTIFY, AUTH, NOP | two goroutines per connection that share the counters; commands that arrive late | RDY respected; a late command changes nothing |
| nsqd topic (`topic.go`) | memory and backend queue, channel map and the pump's copy of it, pause and exit flags | publish, pump, get/delete channel, pause, empty, start, exit | pump, channel creation and exit wait for each other; the pump works with an old copy of the map; partly failing MPUB | every channel gets each message; the count is exact; no deadlock on exit |
| nsqd server (`nsqd.go`) | topic map, metadata file, scan worker pool | load, persist, notify, delete topic, exit, scan loop | metadata written while it changes; failing writes; a killed process | what was acknowledged is there after a restart |
| nsqd HTTP interface (`http.go`) | none of its own | create, delete, pause, empty | handlers keep pointers to topics others delete | requests return; a pause that returned is not undone |
| nsqd listener, options, statistics (`tcp.go`, `options.go`, `stats.go`, `statsd.go`) | configuration | accept, report | none of its own | not modelled: I/O around the operations above |
| GUID factory (`guid.go`) | last timestamp, sequence | NewGUID | clock that stands still or goes back, sequence overflow | unique, increasing |
| lookup connection and nsqlookupd (`nsqd/lookup.go`, `lookup_peer.go`, `nsqlookupd/`) | registrations, producers, tombstones, last ping | register, unregister, ping, tombstone, lookup | reconnects, entries that expire | the registry converges to what nsqd has |
| bolt (`bolt/`) | meta pages, freelist, pending pages, the mapping, open transactions | begin, put, delete, commit, rollback, batch | readers' snapshots against page reuse, a crash during commit | isolation, durability, no page both free and reachable |
| matching engine (`src/matching_engine-master`) | order book, price trees | buy, sell, cancel | partial fills, price and time priority, cancels of matched orders | prices cross properly, each order handled once (its coordinator only forwards messages) |
| stop and context samples (`并发如何停止运行`, `并发停止2`, `并发停止3`, `context使用`) | a flag, an exit channel, a context | stop, cancel, time out | unsynchronised flag, an answer that races its timeout | not modelled: twenty-line samples |
| klever model registry | objects in Kubernetes and an ORMB registry | create, extract, convert | the services it calls | not modelled: most of it is those services |
| lzma2, http2curl, gojsonpointer, gojsonreference, mousetrap, myproject | none shared | sequential functions | byte arithmetic, strings | not modelled: a codec's streams are out of TLC's reach, the rest has no state |

How the parts of nsqd interact: a topic's pump copies each message into every
channel (`PutMessage`, `PutMessageDeferred`); each client has a message pump
(takes from the channel and sends) and an IO loop (executes commands); a pool of
scan workers calls `processInFlightQueue` and `processDeferredQueue`; HTTP
handlers pause, empty and delete; every creation and deletion calls `Notify`,
whose goroutine rewrites the metadata file; shutdown closes. They share the
channel's maps, heaps and Go channels and each client's counters; a token in
`ReadyStateChan` wakes a pump that is not listening. bolt is a library of its
own: the goroutines of its caller run read transactions next to one write
transaction.

## 2. Modules

| Module | Models | Lines of the code |
|---|---|---|
| `WorkerPool` | producer, dispatcher, job goroutines, workers and `Stop` | `并发原始版本/main.go`, `test/main.go` |
| `WorkerPoolProofs` | theorems about it | |
| `NsqChannel` | one channel with its clients, the topic pump as its source, one scan worker, the admin handlers | `nsqd/channel.go`, `in_flight_pqueue.go`, parts of `client_v2.go`, `protocol_v2.go`, `message.go`, `topic.go`, `nsqd.go`, `internal/pqueue/pqueue.go` |
| `MCNsqChannel` | the symmetry for TLC | |
| `NsqChannelProofs` | types of `NsqChannel`, lemmas on the heap and on `put` | |
| `NsqOnePlaceProofs` | no loss, no duplication | |
| `NsqClientProofs` | what a channel guarantees its clients: nobody orphaned, no lost wakeup, exact counts | |
| `NsqReachProofs` | no message out of reach: of a close, of the queue scan; what became of a message is final | |
| `NsqTopic`, `MCNsqTopic` | one topic with its publishers, pump, callers and exit | `nsqd/topic.go`, its callers in `protocol_v2.go`, `http.go`, `nsqd.go` |
| `NsqTopicProofs` | theorems about it | |
| `NsqMeta` | topic map, metadata file, the handlers that change them, shutdown, kill and restart | `nsqd/nsqd.go`, parts of `topic.go`, `channel.go`, `http.go` |
| `NsqMetaProofs` | theorems about it | |
| `BoltStore` | what bolt promises: an abstract snapshot store | `bolt/doc.go`, `bolt/README.md` |
| `Bolt`, `MCBolt` | transactions, freelist, allocation, commit, recovery; refines `BoltStore` | `bolt/db.go`, `tx.go`, `freelist.go`, parts of `node.go`, `bucket.go` |
| `BoltProofs` | no page reuse, consistency, and the refinement | |

Three views of nsqd fit together at the calls between them: `NsqTopic` sees of a
channel that it accepts or refuses a message, `NsqChannel` takes those messages
from a pump that offers each once, and `NsqMeta` sees of topics and channels
that they exist, are paused and are deleted. They are not composed in one state
space: a topic with its channels would have all the interleavings of both.

### WorkerPool

`pool` is `Dispatcher.WorkerPool`, a sequence of the workers whose channel is in
it; `phase[j]` and `holds[j]` belong to the goroutine `dispatch` spawns for job
`j`; `wpc[w]` says where worker `w` is in `Start`. Handing a job over is a
rendezvous on an unbuffered channel, hence one step of two goroutines. `quitting`
are the goroutines that `Stop` spawned and that still wait to send; `Stoppable`
are the workers somebody may stop.

### NsqChannel

A step is one critical section or one atomic operation of one goroutine. The
program counters are `tpc` (topic pump), `ppc[c]` and `iopc[c]` (a client's pump
and IO loop), `spc` (scan worker), `epc` (`Empty`), `xpc` (`exit`). What a
goroutine holds between two steps is in `tobj`, `pobj`, `ioobj`, `sobj`.

* **Objects.** `<<m, g>>` is the g-th `*Message` allocated for message `m`:
  `decodeMessage` allocates a new one, with `index` 0 and no client. Old and new
  object are told apart because FIN finds the new one by ID while a heap may
  still contain the old one.
* **Heap.** `pq` counts the entries of an object, `idx` abstracts `msg.index`:
  `none` is -1, `at` points to its own entry, `zero` is the initial value of a
  fresh object, `stale` points into a heap that `initPQ` has replaced.
  `removeFromInFlightPQ` with `zero` or `stale` removes whatever entry is there.
  An index out of range panics, and the model has no next step for it.
* **Map and heap are separate**: `PumpPush` and `PumpAdd`, `IoPop` and
  `IoRemove`, `ScanShift` and `ScanPop` are separate steps, as their locks are.
* **Empty** is five steps under `c.Lock` (in-flight, deferred, clients, memory,
  backend). `exit` marks the channel, visits the clients, then empties (delete)
  or flushes (close).
* **History**: `fate[m]` records whether a message is owed (`live`) or why it no
  longer is; `known[c]` are the IDs a client has been sent, for a client can only
  answer those; `quiet` says that a close began after all clients had left.

What is abstracted, and why it is sound for the properties:

* Queues are bags: a channel promises no order. Time is left out: anything in a
  heap may be found expired, which includes every timing the code allows.
* `put` is one step: its non-blocking send and its backend write touch one queue
  each. `PutMessage`'s test and its `put` are one step, because `Empty` needs
  `c.Lock` and a topic closes its channels only after its pump has ended.
* The loops over the clients in `doPause`, `Empty` and `exit` are one step each.
  `ScanTimedOut` merges the lookup of the client with its decrement; `Cls` merges
  `SetReadyCount` and the store of the state.
* A SUB that finds its ephemeral channel exiting retries on a new channel; for
  this channel the client is gone. The topic is not part of this module: where it
  is ephemeral (`EphemeralTopic`), a SUB may find it exiting at any moment, which
  includes every moment at which it really is.
* With `CorruptRecords`, a record read from the backend may be one that does not
  decode: the pump logs it and goes on, and the message is gone (`dropped`).
* `Empty` asks a backend that has been closed in vain: what is in it stays there.
* `MemQueueSize = 0` leaves `memoryMsgChan` nil, so that `put` always writes to the
  backend. A backend record that sampling drops counts as a decode.
* Statistics, attempts, logging, framing and the wire format are left out.

The constants `Emptying`, `Pausing`, `ExitModes`, `Deferring`, `Sampling`,
`SendFails`, `BackendFails`, `Ephemeral`, `EphemeralTopic`, `CorruptRecords` and
`Commands` say which behaviours an
instance has; the proofs hold for every choice of them, except where section 4
names a hypothesis. `MaxDecodes` and
`MaxReturns` are bounds, not code: how often a message is read from disk and how
many REQ and TOUCH commands there are (timeouts are not bounded).

### NsqTopic

`chans`, `armed`, `msg` and `todo` are the local variables of `messagePump`
(`chans`, the nil-or-not queues, the message in hand, what its loop has left);
`ppc` says where it is: before `Start`, copying the map, reading the pause flag,
at its select, in its loop. `pub[p]` is a `PutMessages` between its exit check
and its last `put`, all of it under the topic's read lock; `call[c]` is a
`GetChannel`, `DeleteExistingChannel`, `doPause` or `Empty`; `xpc` is `exit`.
A send on an unbuffered channel (`channelUpdateChan`, `pauseChan`) is one step of
the sender and the pump. The write side of the lock is held inside single
actions only, so it is a guard (`ReadLocked`) of those actions.

* A channel is an object number: `channelMap` leads from a name to it, `gone` are
  those told to exit, `now` and `later` what each accepted at once or deferred.
* A message is an id and whether it is deferred. The backend holds ids only,
  because `WriteTo` does not encode the deferral: what is read back is not deferred.
* The range over `channelMap` in `exit(false)` takes no lock. `RangeClose` visits
  in any order what is in the map, must visit what was there from the beginning
  (`due`) and may or may not visit the rest, as a Go map range does. That the
  runtime may also report a concurrent map access is not modelled.
* History: `ready[m]` are the channels whose `GetChannel` had returned when `m` was
  published; `thrown` what was emptied, corrupt or refused by a flush.

### NsqMeta

A topic is `<<name, generation>>`, since a handler's pointer may outlive the
map's entry. `holder` is who holds the server's lock in order to persist;
`PersistMetadata` reads each topic's flag without its lock and then its channels
under it (`ReadPaused`, `ReadChannels`), so that other goroutines act in
between, and then writes and renames (`WriteFile`, one step: a process that dies
before the rename leaves the old file). `notices` counts the `Notify` goroutines
that wait. `pc[h]` and `at[h]` are the step and the topic of an HTTP or protocol
handler. `promised` is history: the flag that the answered pause requests of a
topic left, forgotten when another begins. `doPauseTopic` answers whether its write
succeeded or not, so `WriteFile` and `WriteFileFails` both promise; `backing` says
what the promise rests on: the `file`, or only this process's `memory`, or `nothing`
once a process that had it in memory only has ended.

Left out: ephemeral topics and channels (the file skips them), a channel's pause
flag (the same path as a topic's), and loss of power: the file is synced and the
directory is not, so after a power failure either file may be there.

### BoltStore and Bolt

`BoltStore` has the contents a new transaction sees (`db`), those the last
successful `Commit` was given to leave (`durable`) and each read transaction's snapshot.
`Bolt` maps to it: `db` is what the current meta page leads to, `durable` the
history variable `acked`, which becomes, when `Commit` returns nil, what that
transaction put (`wrote`), so that a commit that drops one of its writes is not a
step of the store; a snapshot is what the reader's own meta leads to *in the
file as it is now*. That a snapshot is stable is thus a consequence of which
pages are reused, which is what the code has to get right.

* `file` and `meta` are what the mapping shows, `disk` and `dmeta` what was synced.
  A crash keeps any subset of the unsynced pages; a meta page may also be torn.
* The tree has a root and one leaf per key. `node.spill` frees a page and allocates
  its successor, leaves first, and the freelist page last, as in `Commit`; deeper
  trees repeat that step. Splitting, rebalancing, buckets and cursors change which
  pages are in the tree and not how they are replaced.
* A leaf's value is the number of the transaction that wrote it.
* `MapSizes` are the sizes `mmapSize` can return, scaled down so that a commit has to
  remap while readers are open. `Faults` says which calls may fail.
* `rwlock` is the single writer; `metalock` and the waiting remap (`mmaplock.Lock`,
  which keeps new readers out) are modelled, for their order could deadlock.

## 3. Runs

| Run | Instance | Shows |
|---|---|---|
| `WorkerPool` | 2 workers, 4 jobs, pool of 2, one worker may be stopped | types, `OneToken`, `RegisterNeverBlocks`, `AtMostOnce`; under fairness `HandedOverIsExecuted` and `StopLosesAtMostOne` |
| `WorkerPoolStop` | the instance of `WorkerPool`, fair | *violated* `EveryJobExecuted` |
| `NsqRaces` | 2 messages, 1 client, memory queue of 2, RDY, FIN, REQ, delayed REQ, TOUCH, CLS, pause (333,056 states) | types, `ExactlyOnePlace`, `RemovesOwnEntry`, `TimeoutCovered`, `CountExact`, `NoLostWakeup`, `RdyRespected` |
| `NsqClose` | 1 message, 1 client, close and delete, `Empty`, deferred publishing, sampling, failing sends, one decode, corrupt records (6 million states) | `ExactlyOnePlace` up to the flush; `QuietCloseKeepsAll`: a close after the clients have left keeps what is owed |
| `NsqEphemeral` | 2 clients, at most one consumer, ephemeral channel and topic (61,000 states) | `NoOrphanSubscriber` |
| `NsqTimeouts` | 1 message, 1 client, FIN, REQ, delayed REQ, failing sends and backend, corrupt records, fair (12,000 states) | `ExactlyOnePlace`, `GoneClientReturns`, `DeferredReturns` |
| `NsqDecodeTimeout` | 2 messages, no memory queue, two decodes | *violated* `TimeoutCovered` |
| `NsqTopic` | 2 messages, 2 channel names, 3 channel objects, 1 publisher, 2 callers with 3 calls, memory queue of 1, failing backend, close and delete, ephemeral or not (3 million states) | `PumpSeesMap`, `NoMissedChannel`, `DeferralKept`, `CountIsAccepted`, `Accounted`, `DeleteLeavesNothing`, `LostOnlyUnderDelete`, no deadlock |
| `NsqTopicLive` | 1 message, 1 name, 2 callers with 3 calls, close, fair (127,000 states) | `CallsReturn`, `Drains` |
| `NsqMeta` | 1 topic name in 2 generations, 1 channel, 2 handlers of which one deletes topics, 4 requests, 1 kill or shutdown, 1 failing write, fair (169,000 states) | `QuietFileExact`, `PauseUndoneOnlyByFailedWrite`, `OldGoneFirst`, `RequestsReturn`, `ChannelReachesFile` |
| `NsqMetaDelete` | the same with two deleters | *violated* `OldGoneFirst` |
| `Bolt` | 2 keys, 2 readers, 3 write transactions, 1 crash, remaps at 6 and 10 pages, failing writes (1.3 million states) | `NoPageReuse`, `CheckClean`, `NoDoubleFree`, `ImplementsStore`, no deadlock |

Why the bounds are enough. A race in the channel is between one holder of a
message and one or two others: the pump, the IO loop and the scan worker of one
client already give three; that the counts stay right when the late answer of a
previous owner meets the delivery to another client is left to the theorem
`CountExactHolds`, which is for any number of clients. A second message is there
for the heap (an entry removed in the place of another) and for RDY. Memory queues of 0, 1 and 2 make `put` take either
branch. One return with unbounded timeouts lets a message go round again. In the
pool, four jobs for two workers make goroutines wait for a worker and workers
register again. In the topic, three calls are create, delete and create again
while the pump holds a copy made before, and two messages fill the memory queue
and spill, and form a batch that fails half way. In the metadata, two generations
are what a stale pointer needs; the instance with two topic names (1.7 million
states, safety only) gives the same results. In bolt a page is freed by one
transaction, released when the next begins and reused by it or by the third,
while one reader is older than the first and another lies between.

Deadlock is checked where nothing but the system itself ends a behaviour
(`NsqRaces`, `NsqTimeouts`, `NsqTopic`, `Bolt`). It is off where the system may stop (a closed channel, a deleted ephemeral one, a pool whose jobs
are done) and in `NsqTopicLive` and the `NsqMeta` runs, whose requests run out; there
`CallsReturn` and `RequestsReturn` say that nobody is left waiting, as
`StopLosesAtMostOne` does for the pool.

### Fairness

`WorkerPool`: weak fairness of every goroutine's next step and of the producer,
since the Go scheduler runs what can run; strong fairness of `Obtain`, since
goroutines blocked on a channel queue up first in, first out. Nothing is assumed
of `Stop` and `Quit`.

`NsqChannel`: weak fairness of the scan worker (the scan loop calls it for ever)
and of goroutines between a map and its heap; strong fairness of shifting a given
entry, since its priority is fixed while those of later ones grow, so it cannot
be passed over for ever. Nothing is assumed of clients, commands or the network.

`NsqTopic`: weak fairness of `Start`, of the pump, of a put, a call and an exit that
have begun, since goroutines that can run do run. Nobody has to publish, to call
or to exit.

`NsqMeta`: weak fairness of whoever is persisting, of the end of `Exit` and of the
restart; strong fairness of a `Notify` goroutine and of a handler, since Go's mutex
hands itself over to a goroutine that has waited long (starvation mode). Nobody
has to make a request, fail or be killed.

### Findings

* `WorkerPoolStop`: a stopped worker returns with its channel in the pool; the job
  goroutine that takes the channel waits for ever, although another worker is idle
  (`test/main.go:43`). The comment in lines 87-88 has it obtain a channel "that is
  available" and wait "until a worker is idle". What holds all the same: a job that
  a worker has received is executed, and one stop costs at most one job.
* `NsqDecodeTimeout`: a FIN for a previous delivery, arriving between the push and
  the heap insertion of a message read back from disk, removes another message's
  heap entry: that one is in flight and never times out (`nsqd/channel.go:435`). So
  `TimeoutCovered` and `RemovesOwnEntry` are claimed for objects from memory.
* `NsqMetaDelete`: with two deletions of one topic, the second gets the error of
  `topic.Delete`, ignores it and removes the topic from the map while the first is
  still deleting channels (`nsqd/nsqd.go:544`), so that a new topic of the name can
  be there at the same time, which the comment in lines 541-543 wants to exclude.

Observed while modelling, and the reason why some properties are stated the way
they are:

* `doPauseTopic` ignores the error of `PersistMetadata` and answers as if the pause
  were in the file (`nsqd/http.go:397`); a process failure then undoes it, which the
  comment in lines 394-395 excludes. `PauseSurvives` states that comment as it is; as
  an invariant of the instance `NsqMeta` TLC refutes it with one failing write and one
  kill. What the run checks is `PauseUndoneOnlyByFailedWrite`: nothing else undoes an
  answered pause, and a later write that succeeds mends it.
* When a put of an MPUB fails half way, the earlier messages stay queued and the
  publisher is told of a failure (`nsqd/topic.go:206`, `PutFails`); the comment in
  `protocol_v2.go:853-855` says that no messages are queued then. `CountIsAccepted` and
  `Accounted` say that the counter and the queues agree about what was queued.
* An fdatasync that fails after `writeMeta`'s write (`bolt/tx.go:558`) makes rollback
  read the freelist of the new meta and forget the transaction's pending pages; the
  next transaction overwrites pages of an open reader, whom `bolt/README.md:130-131`
  promises a consistent view. With `"metasync"` added to `Faults` TLC refutes
  `ImplementsStore`; the run `Bolt` and the theorems leave this fault out.
* A channel's `flush` does not write a message that a pump or an IO loop has in hand
  (`nsqd/channel.go:186`, against line 211). `QuietCloseKeepsAll` is the part that
  holds, and `ExactlyOnePlace` ends where the flush begins.
* `Empty` between a pump's push and its `SendingMessage` leaves the client's
  in-flight count wrong (`channel.go:194`; `channel_test.go:173` expects zero), and
  `removeFromInFlightPQ` can use an index into a heap that has been replaced. So
  `RemovesOwnEntry` and `CountExact` are claimed without `Empty`.
* A `put` whose exit check came before the topic's exit can reach the memory queue
  after `flush` has emptied it, and stays there (`topic.go:199`, `:394`): `Accounted`
  says it has a place, not that the place is on disk. `Delete` takes the lock, which
  is why `DeleteLeavesNothing` holds.
* A message can be offered to no live channel while a deletion is on its way, and
  is then gone; `LostOnlyUnderDelete` says that this is the only time.
* A deferred message that spills to the backend is delivered at once (`message.go`
  does not encode the deferral): `DeferralKept` excepts it.
* A deleted topic's notices may all be persisted before the topic leaves the map
  (`nsqd.go:547`), and nothing persists afterwards: after a restart it is back.
  `QuietFileExact` therefore speaks of the topics that are in the map.

## 4. Proofs

Every safety property of the passing runs is also a theorem. The theorems hold
for every value of the constants that satisfies the named assumptions of the
modules: finite sets, bounds in `Nat`, flags Boolean, nil values outside their
sets, `PoolCap >=` the number of workers, handlers that are not called `notify`,
`exit` or `free` (`holder` would confuse them), a mapping size larger than the
model's file (`mmapSize` always finds one). A hypothesis beyond these is named
below with the code that makes it necessary.

**WorkerPool.** `WorkerPoolTypes`, `WorkerPoolOneToken`, `WorkerPoolAtMostOnce`,
`WorkerPoolRegisterNeverBlocks`. The inductive invariant is `TypeOK /\ OneToken /\
JobOwned`. `AtMostOnce` is not inductive: it needs that a job is with one
goroutine or one worker or executed, which is `JobOwned`. `RegisterNeverBlocks` adds
a counting argument: the pool is an injective sequence of workers without the
registering one, so it is shorter than the number of workers.

**NsqChannel.** One invariant rests on the other:

* `NsqChannelTypes`. `TypeOK` is not inductive: a step such as `IoRemove` uses the
  object in hand, and an index `at` must mean that there is an entry to remove,
  else a count could become negative. `Base` adds these two facts (`HandsFull`,
  `IndexedIsQueued`).
* `NsqChannelExactlyOnePlace`. `OnePlace` states, message by message, that the places
  exclude each other (`Flat`) and that no queue has a message twice (`Single`). Steps
  that move nothing are settled by one lemma (`QuietKept`); each of the others moves
  a message from one place to one other. It is proved with `Empty`, failures,
  deferral and decodes included, up to the moment a closing channel flushes.
* `DecisionsFinalHold` follows from it: a step changes the fate only of a message
  that has a place or is new, so what was finished, dropped or emptied stays so.
* `ClientInvHolds`. `ClientInv` says where the two goroutines of a client can be in
  each of its states, and that a scan in progress keeps `exit()` out.
* `NoOrphanSubscriberHolds` needs only `ClientInv`; `NoLostWakeupHolds` needs also
  `OnePlace`, because the scan notifies the owner of the message it holds, and only
  `OnePlace` excludes that a pump changes that owner meanwhile.
* `CountExactHolds`, `RdyRespectedHolds`, while the channel is open. Hypotheses:
  `Emptying = FALSE` (`Empty` zeroes the counts while commands are half done) and
  `BackendFails = FALSE` (a REQ whose `put` fails skips `RequeuedMessage`,
  `protocol_v2.go:738`). `CountInv` adds that TOUCH puts back a message of its own
  client, and that the count is below the largest ready count while a pump has a
  message in hand; `FreshInv` says that a client that joins owns nothing. The proof
  follows, actor by actor, the number of messages in flight to a client
  (`Cardinality`) and the three lags.
* `QuietCloseKeepsAllHolds`. `QuietInv`: during a close that began quietly nobody but
  `exit()` and the handlers can act, and what is owed is in the backend or where
  `flush()` has yet to look. `OnePlace` gives its beginning.
* `DeferredCoveredHolds` needs no hypothesis. `RemovesOwnEntryHolds` and
  `TimeoutCoveredHolds`, while the channel is open, assume `Emptying = FALSE` (stale
  indices) and `MaxDecodes = 0` (nothing is read back from disk, so a message has one
  object): the run `NsqDecodeTimeout` shows that without the second they fail.
  `IndexInv` says that a message's index is written before its client can name it;
  `CoverInv` that an entry which a FIN removes belongs to a decided message.

**NsqTopic.** `TypesKept`, `PumpSeesMapHolds`, `NoMissedChannelHolds`,
`DeferralKeptHolds`, `CountIsAcceptedHolds`, `AccountedHolds`,
`DeleteLeavesNothingHolds` and the action property `LostOnlyUnderDeleteHolds` follow
from one invariant, which has a part for each thing the topic shares: the map and
the objects it leads to (`ChansInv`), the pump's copy of it (`PumpSeesMap`, already
inductive relative to `ChansInv`) and whom the message in hand still has to go to
(`ServesInv`, `OfferInv`), the batches under way (`BatchInv`), the one place of every
id (`PlaceInv`, from which `Accounted` is a counting argument), the deferral
(`DeferInv`), the counter (`CountInv`) and the exit (`ExitInv`).

**NsqMeta.** `TypesKept`, `QuietFileExactHolds` and
`PauseUndoneOnlyByFailedWriteHolds` follow from
`LockInv /\ DraftInv /\ FileInv /\ PauseInv`. The file is put together while requests go
on, so it is the draft in the persister's hands that needs describing: each part
of it that was read is up to date, or a notice or a handler is waiting to have
the file written again (`DraftInv`); the same holds of the file (`FileInv`).
`PauseSurvivesHolds` is the promise of `doPauseTopic`'s comment in full, as long as no
write has failed (`fails = 0`; a failed write that the handler ignores breaks it, see
"Findings"): until then every promise rests on the file (`BackingInv`).
`OldGoneFirstHolds` assumes that no two handlers delete topics; with two it fails
(run `NsqMetaDelete`).

**Bolt.** `TypesKept`, `NoPageReuseHolds`, `CheckCleanHolds`, `NoDoubleFreeHolds` and
`BoltImplementsStore` (each step of `Bolt` is a step of `BoltStore` or a stutter). The
hypothesis is `"metasync" \notin Faults`: when the sync of a meta page that is already
written fails, read transactions do not keep their snapshots (see "Findings"). The
argument is about the meta that a crash would bring back: its tree, its freelist page and the
pages on that freelist partition the file; an open write transaction takes pages
only from that freelist or from the end of the file and puts what it replaces
under its own id, so that nothing it writes can be seen before the new meta is
there; and a reader's snapshot consists of pages that are neither free nor
allocated, because pages freed after it began are still pending. That `Commit` leaves
what it was given is a second invariant on top (`WroteInv`): a key that was put is
still to be spilled or is on a new leaf, and every other key has its old leaf.

Only model-checked, because fairness and `ENABLED` are out of the prover's reach:
`HandedOverIsExecuted`, `StopLosesAtMostOne`,
`GoneClientReturns`, `DeferredReturns`, `CallsReturn`, `Drains`, `RequestsReturn`, `ChannelReachesFile`, and the absence of deadlock.

### Not modelled

* nsqd: IDENTIFY, AUTH, framing, TLS and compression; the message's wire format;
  the scan loop's choice of channels and its pool of workers; statistics; the
  GUID factory; nsqlookupd and the connection to it; nsqadmin and the tools.
* bolt: buckets, cursors, node splitting and rebalancing, `Batch`, `Close`, the
  command line tool, a freelist of more than 65,534 pages.
* The matching engine; the stop and context samples.
* klever (most of its behaviour is that of Kubernetes and ORMB), lzma2 (byte streams
  out of TLC's reach), the small libraries and the skeleton (no state), and the
  vendored dependencies, which are most of the repository's lines.

## 5. Plan

In order of importance:

1. The matching engine's order book against the reference matcher of its tests.
2. `InFlightPqueue` as an algorithm, checked against "the smallest entry" and the
   index field; the GUID factory with its integer widths.
3. nsqlookupd's registration database and the lookup peer's reconnects.
4. Protocol states of `ClientV2` (IDENTIFY, SUB, CLS, PUB family); the scan loop's
   worker pool; bolt's `Batch`.
