# A TLA+ model of the load balancer and its workers

The program is a replicated in-memory key-value store for Windows, in C.  Clients
send PUT and GET to a load balancer over TCP; the load balancer sends each request
to the next worker in round-robin order and the worker's answer back to the
client; workers replicate what they store to each other.  This directory holds
TLA+ modules of the parts where threads meet, TLC configurations that check them
on small instances, and theorems proved with TLAPS.  Source paths below are
relative to `src/`.

## 1. The system

| Component | State | Operations | Meets |
|---|---|---|---|
| Client request queue (`LoadBalancer/ClientRequestQueue.c`) | ring buffer of 64, `head`, `tail`, `count`, semaphores `notEmpty`, `notFull`, a lock | Put, Take, Return | every client receiver puts; the request dispatcher takes, and returns what it could not send |
| Worker response queue (`WorkerResponseQueue.c`) | the same | Put, Take | every worker receiver puts; the response dispatcher takes |
| Worker list (`WorkerList.c`) | circular list, round-robin pointer `current`, `isReady`, two semaphores, a lock | AddWorker, RemoveWorker, GetNextWorker, SetWorkerReady, BroadcastNewWorkerJoined, SendWorkerRegistryToSingleWorker | worker receivers, the dispatcher, client receivers (count) |
| Client pool (`ClientThreadPool.c`) | 8 slots (socket, id, available), `count`, a semaphore, a lock | Assign, Return, GetClientSocketByClientId (no lock) | client listener, client receivers, response dispatcher |
| Worker pool (`WorkerThreadPool.c`) | 8 slots | Assign, Return | worker listener, worker receivers |
| Threads of the load balancer | locals: `hasRequest`, `hasWorker`, `clientSocket`, ... | listeners, receivers (one per connection), two dispatchers, input handler, main | the above; `finishSignal` stops them |
| Hash table (`Worker/HashTable.c`) | 32 buckets of entries, a lock each | HasHashTable, SetHashTable, GetHashTable, ExportHashTableToPeer | the worker's receiver, its peer listener, its export thread |
| Peer manager (`Worker/PeerManager.c`) | peers with id, socket, `isConnected`, `peerLock` | AddPeer, BroadcastData, RemoveDisconnectedPeer, GetPeerConnection | the worker's receiver and export thread |
| Threads of a worker (`Worker/`) | export queue and its semaphore, `finishSignal` | receiver, peer listener, export thread, input handler, main | load balancer, other workers |
| Client program (`Client/`) | counters, pause flag, finish semaphore | sender, receiver, input handler, main | load balancer |
| Protocol and network library (`Lib/`) | none | header and payload as two sends, retries, encoders | everything |

What is hard here: every queue operation is a wait, a critical section and a
release that other threads come between; waits time out after 100 ms and callers
treat that in different ways; workers die while requests are with them; two
threads find out and both clean up; a pool is read without its lock; a counting
semaphore is shared by more threads than it has permits for; replication between
workers runs beside registration.  `PROJECT.json` ("hazards") lists each case at
its line with the properties that cover it.

What makes each component correct:

* queues: no entry is lost, duplicated or overtaken; permits and contents agree;
* worker list: well formed, round robin fair, registered workers know each other, a
  lost worker leaves the list unless a permit was wasted;
* pool and response delivery: a slot belongs to one client, a response goes to its
  client and to no other;
* request path: an accepted request is answered once or lost for a reason;
* shutdown: 'q' stops every thread (in a worker: if its peers read what it sends);
* export queue: every queued export is carried out, under the same condition;
* replication: what a worker undertook to send its peers reaches them unless two of its
  threads mix their messages, an export is complete when its end is read, a peer's
  copy never replaces another peer's copy (it may replace what a STORE put there between
  HasHashTable and SetHashTable);
* client: the session ends, the pause is respected, "All responses received." is true but
  for responses that were meant for another client;
* protocol: messages are read whole and in order, a decoder undoes its encoder and
  refuses what is cut.

## 2. Modules

| Module | Models | Checked by | Proofs |
|---|---|---|---|
| `FifoQueue` | what a queue promises: a bounded FIFO (abstract) | as `ImplementsFifo` | |
| `BoundedQueue` | the ring buffer and its semaphores, implements `FifoQueue` | `MCBoundedQueue` | `LoadBalancerProofs` |
| `WorkerRegistry` | the worker list, the worker receivers that register and remove, the dispatcher that chooses and removes | `MCWorkerRegistry` | `WorkerRegistryProofs` |
| `ResponseDelivery` | client pool, listener, client receivers, response dispatcher | `MCResponseDelivery`, 2 cfgs | `ResponseDeliveryProofs` |
| `RequestPath` | the composition: request queue, dispatcher, workers, response queue | `MCRequestPath` | `RequestPathProofs` |
| `LoadBalancerShutdown` | finish flag and semaphore, every loop that polls it, main | `MCLoadBalancerShutdown`, 2 cfgs | `LoadBalancerProofs` |
| `WorkerThreads` | the worker's threads, export queue, stop | `MCWorkerThreads` | `WorkerThreadsProofs` |
| `Replication` | hash tables, peer tables, broadcast, export and peer listener of all workers, and the load balancer introducing them | `MCReplication`, `MCReplicationUnheard` | `ReplicationProofs` |
| `ClientSession` | the client program's threads and counters | `MCClientSession` | `ClientSessionProofs` |
| `Framing` | one direction of a connection: headers and payloads of several writers, partial sends, retries | `MCFraming` | `ProtocolProofs` |
| `WireFormat` | the payload of every message: encoders and decoders as operators | `MCFraming` (its ASSUME) | `ProtocolProofs` |

How they fit: `RequestPath` uses the queues as FIFOs, which `BoundedQueue` shows
they are; its rotation with `permits` is `WorkerRegistry` with each list operation
as one step; its last step, a response reaching the client, is what
`ResponseDelivery` takes apart.  `Replication` takes registration as it ends in
`WorkerRegistry` (in list order, with one export source) and follows the data.  The
environment of `ClientSession` answers, refuses or loses a request, as `RequestPath` and
`ResponseDelivery` allow, and may also send a response that was meant for another
client, which `delivery_wrong_client` shows it does.  Between load balancer, workers and
clients a message is sent in one step: `Framing` says when that is justified (one lock, no
send given up) and what is read otherwise; `WireFormat` says what is in the payload.
Between workers, where broadcast and export write to one socket without a common lock,
`Replication` sends header and payload in two steps.  The two shutdown modules leave the
work of a round out and keep where each loop polls and, in `WorkerThreads`, the calls in
it that need not return.

Conventions.  A program counter per thread names the place *before* the next
step; a critical section is one step because all it touches is guarded by that
lock; `WaitForSingleObject` with a timeout is two actions or disjuncts, one taking a
permit, one only when there is none; `ReleaseSemaphore` at the maximum changes
nothing (`Released`).  A comment names the function each action models, and the
table "map" in `PROJECT.json` its lines.  A definition introduced by "Slip" is
not part of any specification: it is a plausible bug, used to see that a property
would notice it.

### BoundedQueue
`queue`, `head`, `tail`, `count`, `notEmpty`, `notFull` are the struct's fields; `pc`,
`request`, `result` stand for each thread's call.  Put is `PutWait` or `PutTimeout`,
`Insert`, `SignalNotEmpty`; Take is `TakeWait` or `TakeTimeout`, `Remove`,
`SignalNotFull`; Return shares Put's last two steps.  `Dispatched` is the dispatcher
clearing the entry it has sent; nothing makes it do that, for while no worker is ready the
dispatcher loops with the entry it holds (`WorkerClientRequestDispatcherThread.c:50-61`).

### WorkerRegistry
The circular list is a sequence from `head`; `current` is a member.  A worker `w`
stands for its connection and its receiver thread, which goes through the steps of
`MSG_WORKER_READY` in order.  `alive`, `peers` and `asked` are the worker's side: is
its end of the connection up, whom has it been told of, was anybody asked to
export to it.  `passed` is a history variable for round-robin fairness.

### ResponseDelivery
One listener, one receiver per client, one response dispatcher whose lookup is two
reads (`Lookup`, `ReadSocket`) without the lock and whose `clientSocket` survives
from one response to the next.  Client ids are never reused, as in the listener.

### RequestPath
`status` is what the client's receiver did; then a request is in `queue`, held by the
dispatcher, in a worker's `inbox` or `outbox`, in `responses`, answered or lost.
`lost` is a history variable naming where.  `Crash` keeps any prefix of the
responses under way.  A send to a worker that is gone succeeds in vain, fails with
-1 or fails with -2; only the last removes the worker.  A send to a worker that runs may
be refused too (`SendRefused`: -1 for an empty key, which ReceivePut and ReceiveGet let
through, or from a SendBuffer that gives up): the request goes back to the queue and the
worker stays.  A request that is settled or turned away is asked again (`Repeat`), so that
the traffic never has to end.

### LoadBalancerShutdown, WorkerThreads
`finishSignal` counts permits.  In the load balancer receivers of clients and workers
poll it too; in a worker the peer listener polls it in two nested loops, and the
export thread has a semaphore of its own.  A worker's sockets to its peers block
(`PeerManager.c:124`): the receiver's BroadcastData (`ReceiverStored`), the export
(`ExportReturns`), and whatever waits for the bucket the export thread has locked
(`ListenerStored`, `StatusShown`), are places of their own that a thread need not leave.
Both programs wait for a key after their clean-up; the models end there ("cleaned").

### Replication
`table`, `peers`, `exports`, `link` and `chan` are a worker's hash table, peer table,
export queue and outgoing connections; `serving` is the one connection its listener
reads and `backlog` those it has not accepted.  `StoreRequest` is SetHashTable and the
beginning of BroadcastData; `receiver` is where that is: whether it is in the loop
(`casting`, which stands for `peerLock`), the `item` it sends, the index of the `next`
peer, and the peers it `lost`.  `NotifyHeader` and `Notify` are one round of the loop,
`EndBroadcast` its end, and then each lost peer is taken out by a `RemoveDisconnectedPeer` of its own, under the
lock again: the export thread may see the array between two of them.  `Introduce` sends
a new worker the whole list, itself included, as SendWorkerRegistryEntries does;
`AddPeer` passes over the worker itself.  An export goes through the buckets (`EnterBucket`, `SendEntry`)
with the lock of the bucket kept (`Locked`) while it sends; `ReceiveEntry` is
HasHashTable and `SetEntry` the SetHashTable that follows, two critical sections of
the listener.  A connection takes `Buffer` messages, then the writer waits: the
sockets of peers block.  A put is its own value, so that overwriting shows.  `due`
and `snapshot` are histories.

A message to a peer is a header (`NotifyHeader`, `ExportHeader`) and then a payload (`Notify`,
`SendStart`, `SendEntry`); an end has no payload.  `sending` says which threads of a worker
are in between.  When one of them sends a header to a peer to which the other has sent
only a header, the connection is `mixed` from there: what was whole before is still read,
what comes after is read as an entry with any key and value, as something that is
passed over, or as nothing, upon which the listener closes (`Misread`).  The two threads
are not kept from this by anything (`HashTable.c:403` has no `peerLock`).

### ClientSession
Each thread's place and the counters; `finishSignal` as above, but every thread may
also end without a permit.  `GetPauseSender` and the send are two steps, with
SetPauseSender possibly in between; `hasty` counts the requests sent in spite of the
pause.  A send may fail at any time (`SendFails`).  The load balancer is an environment that
answers, refuses with SERVER_BUSY, loses, shuts down or closes, and that sends answers
meant for other clients (`AnswerOther`, counted in `foreign`): the client counts any
response without looking at its key.  main ends in two steps, the summary and then a key.

### Framing and WireFormat
A header is two units and a payload any number; `SafeSend` and `SafeReceive` move any
part of what is left, `SafeSendBlocks` and `SafeReceiveIdles` are the retries that move
nothing, `GiveUp` is SendBuffer's -1 with half a message sent.  `lockOf` is chosen at the
beginning: one lock for all writers of the socket (a worker to the load balancer) or
several (dispatcher and receivers to one worker, broadcast and export to one peer).
A reader that gets units that do not make a message has read `Garbled`: it closes, as
the code does at a length that is too large, or goes on with whatever type and length
the units happen to give.

`WireFormat` has an operator per Send and Receive function, over sequences of bytes.
`Decoded(type, b, size)` is the reader's switch; `b` may hold more than the payload,
because ProtocolReceive fills one buffer again and again.  An error text is cut by the
writer at MAX_ERROR_MSG_SIZE and by the reader at 255 (`Cut`).

## 3. Runs

| Run | Instance | Shows |
|---|---|---|
| `queue` | 2 putters, 2 takers, 2 items, capacity 2 | permits and contents agree in every interleaving; refinement of `FifoQueue`, from which ring and slots follow; every entry is taken as long as the takers' hands get free |
| `registry` | 4 workers, `MAX_WORKERS` 2 | list well formed; a removal that got its permit finds a node; a worker that is gone stays listed only for a permit wasted by a double removal; registered workers know each other; an export was asked for all but one of them; round robin fair |
| `delivery` | 3 clients, 2 slots | pool consistent, live client addressed, queued response delivered |
| `delivery_wrong_client` | same | **violated**: a response reaches another client |
| `path` | 2 requests, repeated, 3 workers, queues of 2 and 1 | each accepted request exists once; losses have a cause; accepted requests are settled while a listed worker runs, under the two premises below |
| `shutdown` | 5 threads, 1 connection | 'q' stops the process; what the permits fall short by |
| `shutdown_hang` | 2 connections | **violated**: main waits for ever |
| `worker` | 3 export targets, queue of 2 | permits suffice, signals match requests; as long as sends to peers return, the worker stops and exports are served |
| `replication` | 2 workers, 2 keys in 2 buckets, 2 puts, connections of 1 message, 1 worker may end | nothing a broadcast or export owes is skipped unless messages were mixed; an export is complete; a peer's copy replaces no peer's copy |
| `replication_unheard` | 3 workers, 1 key, 1 put, connections of 1 message | **violated**: a peer's notification is never read |
| `session` | 2 PUTs and 2 GETs, 1 foreign answer | permits suffice, pause respected, completion off by the foreign answers at most, the session ends |
| `framing` | 2 writers, 3 messages (payloads of 2, 0 and 1), connection of 2 units, 1 retry, 1 or 2 locks | on an orderly stream messages are whole, in order and arrive; first, every payload with texts of up to 2 characters read back and refused when cut |

The violated runs are the project's findings; each quotes the sentence of the
repository it contradicts.  Three more places where a doc is looser than the code are
stated as properties that hold instead: README.md:32 ("unregisters it by removing
it from the Worker List") as `StaleNodesExplained`, which counts the workers that stay
listed against the permits wasted; README.md:48 ("it blocks") as `LossExplained`,
which names the workers that have gone or refused a send as the cause; README.md:157
("threads finished") is out of the model once main has freed the context.

**Premises.**  Some properties hold under a premise, and the program does not see to it:

* `EveryEntryIsTaken`: every taker gets rid of what it holds again and again.  Without a
  ready worker the dispatcher keeps one entry for ever.
* `AcceptedSettled`: again and again some listed worker lives; `RefusalsEnd`, sends to
  live workers are not refused for ever (a request with an empty key is); `Steady`, in the long
  run every listed worker lives or no client sends.  Without `Steady` TLC finds a starving
  request at once: with a dead worker that stays listed beside a live one and two
  requests, the rotation offers the one always to the dead node, and Return puts it behind the
  other.
* `QueuedExportServed`, `WorkerStops`: `SendsReturn`, no send to a peer hangs.  It may:
  `replication_unheard` shows a peer that is never read, and then 'q' does not end the worker.
* `NothingSkipped`: the messages on the connection were not mixed.  They may be, and
  `replication` goes through that (`Misread` is among the steps it takes); with the premise the
  property says that this is the only way to lose what is owed while both workers
  run.  What is on a connection that nobody reads counts as on its way: whether it
  is read is the question of `PeersHeard`.
* `ExportComplete` needs none: an end that is read out of mixed bytes is not one that was sent.
* `CompleteMeansVerified` counts the answers that were another client's.
* `MessagesWhole`, `MessagesArrive`: an orderly stream, one lock and no send given up.

**Bounds.** A queue of two wraps after two puts and is full and empty in the same
run, so that waits fail on both sides, and two takers compete for an entry. Four
workers over a list of two make `AddWorker` time out, two removals of one worker
waste the permit of another, and later workers take the places of earlier ones.
Three clients over two slots make a slot change hands while a response is looked up;
`MaxRequests` bounds the requests per client. In `path` three workers are needed for one to
stay listed, dead, beside another that lives, and room for both requests for one to be
returned behind the other.  Two requests do not fill that queue: that a put or a return
meets a full one is covered by the theorems, for any number of requests, while the
response queue of one does fill.  The workers join in a fixed order (`JoinInOrder`), for they
are alike before they do. In `replication` two keys in two buckets let a store come
between the buckets of an export and two puts let one key be stored at both workers;
a connection of one message blocks every second send, and the theorems hold for any size.
Two action constraints (`PromptFirst`, `HalfFirst`) take a step that only its own thread notices
(accepting a connection, reading an export's mark, the end of the broadcast's loop, an
entry that is passed over, the payload of a header that is not mixed) before any other: it
neither prevents nor is prevented by another thread's step, the end of its worker apart,
which stays possible at any time.  A third is a bound (`MisreadLate`): mixed bytes are read as
an entry only after their writer has ended, until then they break the connection or
are passed over.  That leaves 634 000 states up to symmetry; the theorems are about all of
them. `replication_unheard`
needs a third worker, whose connection waits behind the second's; it is narrowed, by
action constraints that let everything settle before the next worker joins, to find
its counterexample quickly. In `framing` the first message is longer than the connection, so
its sends are cut; one message has no payload; one retry lets sends and receives give
up; error texts are cut at 3 by the writer and at 2 by the reader. Two GETs are the least that
makes "all" differ from "one" in `session`, and `MaxForeign` bounds the answers meant for other
clients to one, the least that makes the client stop too early. Workers
and clients do not come back under the same name: a restarted process has a new id,
so it is another element.

**Deadlock** is checked except where the process really ends (`shutdown*`, `worker`,
`session`) or may have nothing left to do (`path`: requests settled, workers gone;
`replication*`: every put stored and copied; `framing`: every message sent).
`ResponseDelivery` has an explicit `Quiet` step for that state, so a deadlock
anywhere else would be found.

**Fairness.**  Weak fairness of each thread's own steps: the loops poll without end
and critical sections are short.  In `BoundedQueue` only the second halves of calls
and the takers' waits are fair: nothing makes a client send, and nothing makes a taker
dispose of the entry it holds.  In `RequestPath` nothing makes a worker join or die or a
live worker fall silent, a client ask again or a send be refused.  In the shutdown modules
nobody is made to press 'q'.  In `LoadBalancerShutdown` every polling loop comes round,
because its sockets do not block and a receive or send ends within 5000 polls; in
`WorkerThreads` the returns from BroadcastData and from an export are not fair, nor is a
wait for a bucket's lock while an export is on.  In `Replication` every worker's receiver,
listener and export thread is fair as a whole, puts and ends are not; in `ClientSession`
the client's threads are, the load balancer and the keyboard are not, so that a
request may stay unanswered; in `Framing` a thread inside ProtocolSend or
ProtocolReceive goes on, nobody has to send.

## 4. Proofs

Every invariant the passing runs check is also proved, for all values of the constants,
and so are the action properties and the refinement that the table of theorems
in `PROJECT.json` names.

* `LoadBalancerProofs`, the queue.  `QueueInv` is inductive: types; `PermitsConserved` (free
  slots plus `notFull` permits plus calls in progress add up, and the same for
  entries); the ring equation and the set of filled slots; and what each thread in a
  call holds.  `PermitsConserved` is needed for `PermitsHonoured` (a call past its
  wait counts among the slots), and that for the ring: it rules out the branches of
  a full or empty queue.  From it follow the invariants of the runs and
  `QueueImplementsFifo`: `Insert` is an append to the contents read from `head`,
  `Remove` takes their first element, every other step leaves them alone.  Assumed:
  `QueueAssumption` (finite, disjoint thread sets, a positive capacity).
* `LoadBalancerProofs`, the shutdown.  `QuitInv` counts the permits taken: each thread that
  has stopped took one, a receiver at most one.  `PermitsAreEnough` holds for any number of
  connections: the permits left fall short of the threads that still run by less than the
  receivers that have ended.  With one connection they therefore suffice, with two they
  may not, which is `shutdown_hang`.
* `WorkerThreadsProofs`.  `ThreadInv` joins the permit count (`Needs` per place, two
  inside the peer listener's loops, wherever a send may hang) with the equation between export permits and
  queued requests, and the fact that the signal's sender polls no more.
* `WorkerRegistryProofs`.  `RegistryInv` is a conjunction of named parts.  `ListInv` adds to
  `ListWellFormed` that a worker not yet added is not listed and that no worker is
  listed twice; `RemovalsBacked` needs that every permit was released by an AddWorker
  that has linked its node.  `MeetInv` orders two workers by who linked first: the
  later one's broadcast and the earlier one's registry cover each other; `SeedInv` is
  the same argument for exports.  `TurnInv` says which workers a ready worker may have
  been passed by: those before it in the ring from `current`.  `StaleNodesExplained` is not
  inductive: the dispatcher may let go of a worker whose receiver is gone, and
  a permit may have come back meanwhile.  `SpentInv` counts such a worker from the
  moment its receiver gives up (`Leaving`): workers leaving, permits and signals
  to come are never more than the nodes, and the workers leaving are at least those
  the property counts.
* `ResponseDeliveryProofs`.  `DeliveryInv`: `OwnerInv` says which receivers can exist yet
  (clients come in order), `PoolConsistent` counts permits against free slots and calls
  in progress, and `WayInv` follows a response through the dispatcher's lookup: as long
  as the client is served its slot has not changed since the lookup began.
* `ClientSessionProofs`.  `SessionInv`.  `Accounted` equates, for PUTs and GETs each, what
  was sent, and what came that was another client's, with what is open, refused, answered and
  under way, or counted; when as many GET responses are counted as there are messages, what
  is unsent, open or refused is made up for by foreign ones, which is
  `CompletionMeansVerified`.  `PermitInv` counts
  the permits left against the threads that have not ended.
* `RequestPathProofs`.  `PathInv`.  Counting places step by step would need the cardinality of
  seven sets at once; the proof instead says what each queue, inbox and thread holds
  (`Contents`), that these contents are disjoint and make up the accepted requests
  (`OneSpot`), and that no queue names a request twice.  `MoveOnce` and `StopLosesOnce` show
  that a step which moves requests keeps that, so that each action has only to say what
  it moves; at the end `OnceCounted` turns it into `EachRequestOnce`.  `PlaceInv` knows that a
  worker chosen or listed has joined and that a request in the dispatcher's hands to be
  returned was sent to a worker that is gone or was refused, which gives `LossExplained`.
* `ReplicationProofs`.  `ReplicationInvariant` has seventeen parts.  With twenty-four actions and
  nineteen variables the usual case split per part would be mostly frame
  conditions; `Framed` says once which actions change which variable, and each part has
  a lemma "parts it needs, the part itself and `Framed` give the part in the next state"
  that looks only at the actions that touch it.
  - `Whole` pairs are those whose messages were never mixed; a pair that is whole after a
    step was whole before (`WholeBefore`), and the parts that say what a connection is good for
    speak of whole pairs.  That a header may hang between two of another thread's sends costs
    nothing else: only the payload puts a message on the connection.
  - `NothingSkipped` becomes inductive with where the open connections are (`PeersLinked`,
    `LinksServed`: an open, whole connection to a worker that runs is the one its listener
    reads or waits in its backlog), that a broadcast only loses peers that ended
    (`LostAreGone`, so that a `RemoveDisconnectedPeer` never shifts a peer that runs out of
    reach of the loop), that an export's target is a connected peer (`TargetsKnown`), and
    that what is due is stored (`DueStored`).  A key that is due is then shown to pass
    from the queue of exports to the exporter, from there or from the broadcast to
    the connection, and from the connection to the listener and the table
    (`QueuedKept`, `ExportingKept`, `CastingKept`, `ComingKept`): each of these either keeps
    it or hands it on.
  - `ExportComplete` speaks of `snapshot`, which a second export to the same worker would
    overwrite while the end of the first is still unread.  `NotYet` and `AskedOnce` show that
    this cannot happen: the load balancer asks for an export to a worker once, and the
    request is at one stage at a time - in the inbox, in the export queue, with the
    exporter, or told by an end on the connection.  `ExportsCover` says that a key of the
    snapshot is stored at the peer, on its way on the connection, or still before the
    exporter; `EndsCover` that it is stored or ahead of the end.
  - `PeerDataKept` needs `OwnOverwritten`: a key that is stored although the listener found it
    missing was stored by a STORE that was dispatched to this worker (`StoresBacked`).
* `ProtocolProofs`, framing.  `FramingInv`: as long as the stream is orderly there are
  offsets (`Traced`), one for each message begun, such that what is on the connection or in
  the reader's hands is exactly what those messages put there (`Spells`), from the last
  unit consumed to the last unit sent (`Reaches`).  A send that is cut moves the end, a
  receive that is cut moves the beginning, and the reader's next header or payload can
  only be that of the next message.  The offsets are a witness and not a recursive sum
  over the messages, which would need induction over data.
* `ProtocolProofs`, payloads.  `Holds(b, at, s)` says that a buffer has bytes `s` at an offset; a
  lemma per kind of field says what its reader returns there, `KeyBehind` and
  `KeyValueBehind` that the last texts fit exactly when the payload is whole, and a lemma
  per message puts them together.  `ReadersUndoWriters` and `CutPayloadsAreRefused` follow
  for all limits below 65536, all texts, ids and ports; of an error text the beginning is read
  back, although it is cut twice (`CutText`) (`LimitsAssumption`,
  `NumbersAssumption`, `BytesAssumption`).

Each proof assumes only the named assumption of its module, which TLC evaluates for
the constants of every run that extends it.

Only model-checked: the liveness properties (`EveryEntryIsTaken`,
`QueuedResponseDelivered`, `AcceptedSettled`, `QuitStops`, `QueuedExportServed`, `WorkerStops`,
`SessionEnds`, `MessagesArrive`), because fairness and ENABLED are outside the prover's
reach, and the three violated ones.

## 5. What is not modelled, and the plan

Not modelled: NULL arguments, failing `malloc`/`CreateThread`/`CreateSemaphore` and the
start-up of the programs (sequential, fail before threads meet), among it a worker
whose peer port is taken; logging; the figures the client prints; `IterateWorkersOnce`,
`GetWorkerById`, `FinalizePeerRegistryUpdate`, `ReplaceHashTable` and `RemoveHashTable`
(never called); a connection that fails between two processes that run; what a thread
does with a freed context or a socket handle that was used again; how long a bounded
wait takes.

The list of `WorkerRegistry` is a sequence: the `next` pointers of the C code are read
and written under one lock only, so that pointers would add sequential detail.

Left of the plan: theorems about how the modules fit together (that the list operations
`RequestPath` takes as one step are those of `WorkerRegistry`, that its queues are `FifoQueue`s
although dispatcher and receivers share them), which are argued in section 2 and not
stated in TLA+; a payload longer than the reader's buffer, which no encoder writes.
