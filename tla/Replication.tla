----------------------------- MODULE Replication -----------------------------
(***************************************************************************)
(* How the workers copy their data to each other: the hash table           *)
(* (Worker/HashTable.c), the table of peers (PeerManager.c), the receiver  *)
(* (ReceiverThread.c), the export thread (ExportThread.c) and the peer     *)
(* listener (PeerListenerThread.c) of every worker, and the part of the    *)
(* load balancer that introduces workers to each other (WorkerList.c,      *)
(* WorkerDataReceiverThread.c).                                            *)
(*                                                                         *)
(* A worker opens one connection to each peer and only writes to it; the   *)
(* peer's listener reads one connection until it ends, then accepts the    *)
(* next.  A put is its own value.  A worker that starts again is another   *)
(* element of Workers.                                                     *)
(*                                                                         *)
(* ProtocolSend writes a header and then a payload (Protocol.c:29,40).     *)
(* The receiver writes under peerLock, the export thread without it        *)
(* (PeerManager.c:68, HashTable.c:403): when one writes between the two    *)
(* halves of the other's message to the same peer, the connection is       *)
(* mixed, and what is read of it from there is anything.                   *)
(*                                                                         *)
(* Not modelled here: the permits and the capacity of the registry         *)
(* (WorkerRegistry), of the export queue and its signal (WorkerThreads);   *)
(* the bytes of a message and a send that gives up half-way (Framing);     *)
(* failing mallocs; GET, which changes nothing; two workers with one peer  *)
(* port.                                                                   *)
(***************************************************************************)
EXTENDS Integers, Sequences, FiniteSets, SequencesExt

CONSTANTS Workers,  \* the worker processes, each started and listening
          Keys, Puts,
          Buckets,  \* WORKER_HASH_TABLE_BUCKET_COUNT
          BucketOf, \* the hash function
          Buffer,   \* messages a connection takes before its writer blocks
          MaxStops, \* bound: worker processes that end
          None      \* no put, no key, no worker

ASSUME ReplicationAssumption == /\ Buckets \in Nat \ {0}
                                /\ BucketOf \in [Keys -> 1 .. Buckets]
                                /\ Buffer \in Nat \ {0}
                                /\ MaxStops \in Nat
                                /\ None \notin Puts \cup Keys \cup Workers

VARIABLES list,     \* the load balancer's ready workers, in list order
          stage,    \* what the load balancer has done for each worker
          at,       \* the worker each put was dispatched to
          alive,    \* the worker processes that run
          inbox,    \* messages from the load balancer each receiver has to read
          table,    \* hashTable of each worker: key -> put
          receiver, \* the receiver's place in BroadcastData
          peers,    \* peerManager->peers of each worker, in array order
          link,     \* link[w][v]: the connection w opened to v
          chan,     \* chan[w][v]: what is on it, whole, and not read
          sending,  \* the threads of each worker between a header and its payload
          mixed,    \* history: the pairs on whose connection messages were mixed
          backlog,  \* connections each listener has not accepted, oldest first
          serving,  \* the connection each listener reads
          listener, \* the peer's put that passed HasHashTable and is not set yet
          exports,  \* exportQueue of each worker
          exporter, \* the export thread of each worker
          due,      \* history: due[w][v], keys w undertook to send to v
          snapshot  \* history: snapshot[w][v], keys w had when its export to v began

balancerVars == <<list, stage, at>>
receiverVars == <<receiver, peers>>
streamVars == <<link, chan, backlog, sending, mixed>>
listenerVars == <<serving, listener>>
exportVars == <<exports, exporter>>
historyVars == <<due, snapshot>>
vars == <<balancerVars, alive, inbox, table, receiverVars, streamVars,
          listenerVars, exportVars, historyVars>>

Members == {list[i] : i \in 1 .. Len(list)}
Entry(w, export) == [type |-> "entry", peer |-> w, export |-> export]
Store(k, p) == [type |-> "store", key |-> k, put |-> p]
Inbound == [type : {"entry"}, peer : Workers, export : BOOLEAN]
             \cup [type : {"store"}, key : Keys, put : Puts]

Data(type, k, p) == [type |-> type, key |-> k, put |-> p]
Mark(type) == [type |-> type, key |-> None, put |-> None]
Messages == [type : {"entry", "notify"}, key : Keys, put : Puts]
              \cup [type : {"start", "end"}, key : {None}, put : {None}]

Nothing == [key |-> None, put |-> None]
Items == [key : Keys, put : Puts] \cup {Nothing}

Stored(w) == {k \in Keys : table[w][k] # None}
InBucket(w, b) == {k \in Stored(w) : BucketOf[k] = b}

\* The receiver in BroadcastData: whether it is in the loop (and holds
\* peerLock), what it sends, the index of the next peer, peersToRemove.
Quiet == [casting |-> FALSE, item |-> Nothing, next |-> 1, lost |-> << >>]
Idle == [pc |-> "idle", target |-> None, bucket |-> 1, todo |-> {}]

Pairs(x) == [w \in Workers |-> [v \in Workers |-> x]]

Init == /\ list = << >>
        /\ stage = [w \in Workers |-> "new"]
        /\ at = [p \in Puts |-> None]
        /\ alive = Workers
        /\ inbox = [w \in Workers |-> << >>]
        /\ table = [w \in Workers |-> [k \in Keys |-> None]]
        /\ receiver = [w \in Workers |-> Quiet]
        /\ peers = [w \in Workers |-> << >>]
        /\ link = Pairs("none")
        /\ chan = Pairs(<< >>)
        /\ backlog = [w \in Workers |-> << >>]
        /\ sending = [w \in Workers |-> {}]
        /\ mixed = {}
        /\ serving = [w \in Workers |-> None]
        /\ listener = [w \in Workers |-> Nothing]
        /\ exports = [w \in Workers |-> << >>]
        /\ exporter = [w \in Workers |-> Idle]
        /\ due = Pairs({})
        /\ snapshot = Pairs({})

-----------------------------------------------------------------------------
(* The load balancer.  WorkerRegistry has its steps one by one.            *)

\* AddWorker and SetWorkerReady.
Join(w) == /\ stage[w] = "new"
           /\ w \in alive
           /\ list' = Append(list, w)
           /\ stage' = [stage EXCEPT ![w] = "joined"]
           /\ UNCHANGED <<at, alive, inbox, table, receiverVars, streamVars,
                          listenerVars, exportVars, historyVars>>

\* BroadcastNewWorkerJoined, which asks the first other worker to export its
\* data, and SendWorkerRegistryToSingleWorker, which sends the whole list.
\* A STORE may be sent to w before its entries.
Introduce(w) ==
    LET source == list[IF list[1] = w THEN 2 ELSE 1]
        entries == [i \in 1 .. Len(list) |-> Entry(list[i], FALSE)]
    IN /\ stage[w] = "joined"
       /\ stage' = [stage EXCEPT ![w] = "serving"]
       /\ inbox' = [v \in Workers |->
                       IF v \notin Members \cap alive THEN inbox[v]
                       ELSE IF v = w THEN inbox[w] \o entries
                       ELSE Append(inbox[v], Entry(w, v = source))]
       /\ UNCHANGED <<list, at, alive, table, receiverVars, streamVars,
                      listenerVars, exportVars, historyVars>>

\* The dispatcher sends a STORE to any listed worker.
Dispatch(w, k, p) ==
                  /\ at[p] = None
                  /\ w \in Members \cap alive
                  /\ at' = [at EXCEPT ![p] = w]
                  /\ inbox' = [inbox EXCEPT ![w] = Append(@, Store(k, p))]
                  /\ UNCHANGED <<list, stage, alive, table, receiverVars, streamVars,
                                 listenerVars, exportVars, historyVars>>

\* The receiver thread of a worker that ended finds out.
RemoveWorker(w) == /\ stage[w] = "serving"
                   /\ w \notin alive
                   /\ \E i \in 1 .. Len(list) : list[i] = w /\ list' = RemoveAt(list, i)
                   /\ stage' = [stage EXCEPT ![w] = "removed"]
                   /\ UNCHANGED <<at, alive, inbox, table, receiverVars, streamVars,
                                  listenerVars, exportVars, historyVars>>

-----------------------------------------------------------------------------
(* A worker process ends, and everything in it.  What it wrote may still   *)
(* be read by its peers, or be lost.                                       *)
Stop(w) ==
    /\ w \in alive
    /\ Cardinality(Workers \ alive) < MaxStops
    /\ alive' = alive \ {w}
    /\ inbox' = [inbox EXCEPT ![w] = << >>]
    /\ receiver' = [receiver EXCEPT ![w] = Quiet]
    /\ peers' = [peers EXCEPT ![w] = << >>]
    /\ exports' = [exports EXCEPT ![w] = << >>]
    /\ exporter' = [exporter EXCEPT ![w] = Idle]
    /\ serving' = [serving EXCEPT ![w] = None]
    /\ listener' = [listener EXCEPT ![w] = Nothing]
    /\ backlog' = [backlog EXCEPT ![w] = << >>]
    /\ sending' = [sending EXCEPT ![w] = {}]
    /\ link' = [link EXCEPT ![w] = [v \in Workers |-> IF @[v] = "open" THEN "closed" ELSE @[v]]]
    /\ \E keep \in BOOLEAN :
          chan' = [u \in Workers |-> [v \in Workers |->
                      IF v = w \/ (u = w /\ ~keep) THEN << >> ELSE chan[u][v]]]
    /\ table' = [table EXCEPT ![w] = [k \in Keys |-> None]]
    /\ due' = [u \in Workers |-> [v \in Workers |-> IF w \in {u, v} THEN {} ELSE due[u][v]]]
    /\ UNCHANGED <<balancerVars, mixed, snapshot>>

-----------------------------------------------------------------------------
(* The receiver of w.                                                      *)

Reads(w, type) == /\ w \in alive
                  /\ ~receiver[w].casting /\ receiver[w].lost = << >>
                  /\ inbox[w] # << >>
                  /\ Head(inbox[w]).type = type
                  /\ inbox' = [inbox EXCEPT ![w] = Tail(@)]

Connected(w) == {v \in Range(peers[w]) : link[w][v] = "open"}

\* MSG_WORKER_ENTRY: AddPeer, then AddExportRequest if asked.  The worker
\* itself is passed over, and a known peer keeps its connection; a connection
\* that fails is never tried again.
AddPeer(w) ==
    LET v == Head(inbox[w]).peer
        asked == Head(inbox[w]).export
        new == v # w /\ v \notin Range(peers[w])
        connects == new /\ v \in alive
    IN /\ Reads(w, "entry")
       /\ peers' = [peers EXCEPT ![w] = IF new THEN Append(@, v) ELSE @]
       /\ link' = [link EXCEPT ![w][v] = IF connects THEN "open" ELSE @]
       /\ backlog' = [backlog EXCEPT ![v] = IF connects THEN Append(@, w) ELSE @]
       /\ exports' = [exports EXCEPT ![w] = IF asked THEN Append(@, v) ELSE @]
       /\ due' = [due EXCEPT ![w][v] = IF asked THEN @ \cup Stored(w) ELSE @]
       /\ UNCHANGED <<balancerVars, alive, table, receiver, chan, sending, mixed,
                      listenerVars, exporter, snapshot>>

\* The export thread holds the lock of one bucket while it sends its entries.
Locked(w, k) == exporter[w].todo # {} /\ BucketOf[k] = exporter[w].bucket - 1

\* MSG_STORE_REQUEST: SetHashTable, which replaces an older value, and the
\* beginning of BroadcastData, which holds peerLock until it is through.
StoreRequest(w) ==
    LET m == Head(inbox[w])
    IN /\ Reads(w, "store")
       /\ ~Locked(w, m.key)
       /\ table' = [table EXCEPT ![w][m.key] = m.put]
       /\ receiver' = [receiver EXCEPT ![w] =
                           [casting |-> TRUE, item |-> [key |-> m.key, put |-> m.put],
                            next |-> 1, lost |-> << >>]]
       /\ due' = [due EXCEPT ![w] = [v \in Workers |-> IF v \in Connected(w)
                                                       THEN @[v] \cup {m.key} ELSE @[v]]]
       /\ UNCHANGED <<balancerVars, alive, peers, streamVars, listenerVars, exportVars,
                      snapshot>>

\* The other end of w's connection to v is there: read, or waiting to be.
Heard(w, v) == v \in alive /\ (serving[v] = w \/ w \in Range(backlog[v]))

\* A thread of w has sent the header of a message to v and not its payload.
HalfSent(w, v) == \/ "receiver" \in sending[w] /\ peers[w][receiver[w].next] = v
                  \/ "exporter" \in sending[w] /\ exporter[w].target = v

Mixes(w, v) == mixed' = IF HalfSent(w, v) THEN mixed \cup {<<w, v>>} ELSE mixed

\* The header takes no room on the connection.
SendHeader(w, thread, v) == /\ Heard(w, v)
                            /\ thread \notin sending[w]
                            /\ sending' = [sending EXCEPT ![w] = @ \cup {thread}]
                            /\ Mixes(w, v)

\* Slip: the connection takes any number of messages.
SendsUnbounded(w, v, m) ==
    /\ Heard(w, v)
    /\ chan' = IF <<w, v>> \in mixed' THEN chan ELSE [chan EXCEPT ![w][v] = Append(@, m)]

\* A message goes on the connection when there is room, and waits when not.
Sends(w, v, m) ==
    /\ Heard(w, v)
    /\ Len(chan[w][v]) < Buffer
    /\ chan' = IF <<w, v>> \in mixed' THEN chan ELSE [chan EXCEPT ![w][v] = Append(@, m)]

SendPayload(w, thread, v, m) == /\ thread \in sending[w]
                                /\ sending' = [sending EXCEPT ![w] = @ \ {thread}]
                                /\ UNCHANGED mixed
                                /\ Sends(w, v, m)

\* The next round of BroadcastData's loop: SendPeerNotify writes its header.
NotifyHeader(w) ==
    LET i == receiver[w].next
        v == peers[w][i]
    IN /\ receiver[w].casting
       /\ i <= Len(peers[w])
       /\ link[w][v] = "open"
       /\ SendHeader(w, "receiver", v)
       /\ UNCHANGED <<balancerVars, alive, inbox, table, receiverVars, link, chan, backlog,
                      listenerVars, exportVars, historyVars>>

\* Its payload follows.  A peer that is not connected is passed over; a send to
\* a peer that ended, or closed the connection, may fail.
Notify(w) ==
    LET i == receiver[w].next
        v == peers[w][i]
        gone == /\ sending' = [sending EXCEPT ![w] = @ \ {"receiver"}]
                /\ UNCHANGED <<chan, mixed>>
    IN /\ receiver[w].casting
       /\ i <= Len(peers[w])
       /\ \/ /\ link[w][v] = "open"
             /\ SendPayload(w, "receiver", v,
                            Data("notify", receiver[w].item.key, receiver[w].item.put))
             /\ receiver' = [receiver EXCEPT ![w].next = i + 1]
          \/ /\ ~Heard(w, v)
             /\ link[w][v] = "open"
             /\ receiver' = [receiver EXCEPT ![w].next = i + 1, ![w].lost = Append(@, v)]
             /\ gone
          \/ /\ ~Heard(w, v) \/ link[w][v] # "open"
             /\ receiver' = [receiver EXCEPT ![w].next = i + 1]
             /\ gone
       /\ UNCHANGED <<balancerVars, alive, inbox, table, peers, link, backlog, listenerVars,
                      exportVars, historyVars>>

\* The end of the loop: peerLock is left, peersToRemove is kept.
EndBroadcast(w) ==
    /\ receiver[w].casting
    /\ receiver[w].next > Len(peers[w])
    /\ receiver' = [receiver EXCEPT ![w].casting = FALSE, ![w].item = Nothing, ![w].next = 1]
    /\ UNCHANGED <<balancerVars, alive, inbox, table, peers, streamVars, listenerVars,
                   exportVars, historyVars>>

\* The next of peersToRemove: its connection is closed and the peers behind it
\* move up.  Other threads see the array between two removals.
RemoveDisconnectedPeer(w) ==
    LET v == Head(receiver[w].lost)
    IN /\ ~receiver[w].casting
       /\ receiver[w].lost # << >>
       /\ receiver' = [receiver EXCEPT ![w].lost = Tail(@)]
       /\ \E i \in 1 .. Len(peers[w]) : /\ peers[w][i] = v
                                        /\ peers' = [peers EXCEPT ![w] = RemoveAt(@, i)]
       /\ link' = [link EXCEPT ![w][v] = "closed"]
       /\ UNCHANGED <<balancerVars, alive, inbox, table, chan, backlog, sending, mixed,
                      listenerVars, exportVars, historyVars>>

-----------------------------------------------------------------------------
(* The peer listener of v.                                                 *)

Accept(v) == /\ serving[v] = None
             /\ backlog[v] # << >>
             /\ serving' = [serving EXCEPT ![v] = Head(backlog[v])]
             /\ backlog' = [backlog EXCEPT ![v] = Tail(@)]
             /\ UNCHANGED <<balancerVars, alive, inbox, table, receiverVars, link, chan,
                            sending, mixed, listener, exportVars, historyVars>>

\* The listener may take the next message of the connection it serves.
Ready(v) == /\ serving[v] # None
            /\ listener[v] = Nothing
            /\ chan[serving[v]][v] # << >>

\* Slip: HasHashTable is not asked.
ReceiveEntryUnchecked(v) ==
    LET m == Head(chan[serving[v]][v])
    IN /\ Ready(v)
       /\ m.put # None
       /\ chan' = [chan EXCEPT ![serving[v]][v] = Tail(@)]
       /\ listener' = [listener EXCEPT ![v] = [key |-> m.key, put |-> m.put]]
       /\ UNCHANGED <<balancerVars, alive, inbox, table, receiverVars, link, backlog, sending,
                      mixed, serving, exportVars, historyVars>>

\* MSG_DATA_ENTRY, MSG_PEER_NOTIFY: HasHashTable, under the bucket's lock; a
\* key that exists is ignored.
ReceiveEntry(v) ==
    LET m == Head(chan[serving[v]][v])
    IN /\ Ready(v)
       /\ m.put # None
       /\ ~Locked(v, m.key)
       /\ chan' = [chan EXCEPT ![serving[v]][v] = Tail(@)]
       /\ listener' = [listener EXCEPT ![v] = IF m.key \in Stored(v) THEN Nothing
                                               ELSE [key |-> m.key, put |-> m.put]]
       /\ UNCHANGED <<balancerVars, alive, inbox, table, receiverVars, link, backlog, sending,
                      mixed, serving, exportVars, historyVars>>

\* MSG_DATA_EXPORT_START, MSG_DATA_EXPORT_END: reported, no more.
ReceiveMark(v) == /\ Ready(v)
                  /\ Head(chan[serving[v]][v]).put = None
                  /\ chan' = [chan EXCEPT ![serving[v]][v] = Tail(@)]
                  /\ UNCHANGED <<balancerVars, alive, inbox, table, receiverVars, link, backlog,
                                 sending, mixed, listenerVars, exportVars, historyVars>>

\* SetHashTable, whatever has happened to the key since HasHashTable.
SetEntry(v) == LET m == listener[v]
               IN /\ m # Nothing
                  /\ ~Locked(v, m.key)
                  /\ table' = [table EXCEPT ![v][m.key] = m.put]
                  /\ listener' = [listener EXCEPT ![v] = Nothing]
                  /\ UNCHANGED <<balancerVars, alive, inbox, receiverVars, streamVars, serving,
                                 exportVars, historyVars>>

\* The connection has ended and everything on it was read.
Disconnect(v) == /\ serving[v] # None
                 /\ listener[v] = Nothing
                 /\ link[serving[v]][v] = "closed"
                 /\ chan[serving[v]][v] = << >>
                 /\ serving' = [serving EXCEPT ![v] = None]
                 /\ UNCHANGED <<balancerVars, alive, inbox, table, receiverVars, streamVars,
                                listener, exportVars, historyVars>>

\* A mixed connection, after what was whole on it: the bytes are an entry, or a
\* message that is passed over, or none (ProtocolReceive fails).
Misread(v) == /\ serving[v] # None
              /\ listener[v] = Nothing
              /\ <<serving[v], v>> \in mixed
              /\ chan[serving[v]][v] = << >>
              /\ \/ \E k \in Keys \ Stored(v), p \in Puts :
                       /\ ~Locked(v, k)
                       /\ listener' = [listener EXCEPT ![v] = [key |-> k, put |-> p]]
                       /\ UNCHANGED serving
                 \/ /\ serving' = [serving EXCEPT ![v] = None]
                    /\ UNCHANGED listener
              /\ UNCHANGED <<balancerVars, alive, inbox, table, receiverVars, streamVars,
                             exportVars, historyVars>>

-----------------------------------------------------------------------------
(* The export thread of w.                                                 *)

\* The next request: an empty table has nothing to export; GetPeerConnection
\* waits for peerLock, and the socket it returns is used without it.
TakeExport(w) ==
    LET v == Head(exports[w])
    IN /\ exporter[w].pc = "idle"
       /\ exports[w] # << >>
       /\ exports' = [exports EXCEPT ![w] = Tail(@)]
       /\ Stored(w) = {} \/ ~receiver[w].casting
       /\ exporter' = [exporter EXCEPT ![w] =
                           IF Stored(w) # {} /\ v \in Connected(w)
                           THEN [pc |-> "start", target |-> v, bucket |-> 1, todo |-> {}]
                           ELSE Idle]
       /\ UNCHANGED <<balancerVars, alive, inbox, table, receiverVars, streamVars,
                      listenerVars, historyVars>>

\* The header of the start, or of an entry.
ExportHeader(w) ==
    /\ exporter[w].pc = "start" \/ exporter[w].todo # {}
    /\ SendHeader(w, "exporter", exporter[w].target)
    /\ UNCHANGED <<balancerVars, alive, inbox, table, receiverVars, link, chan, backlog,
                   listenerVars, exportVars, historyVars>>

SendStart(w) ==
    LET v == exporter[w].target
    IN /\ exporter[w].pc = "start"
       /\ SendPayload(w, "exporter", v, Mark("start"))
       /\ exporter' = [exporter EXCEPT ![w].pc = "buckets"]
       /\ snapshot' = [snapshot EXCEPT ![w][v] = Stored(w)]
       /\ UNCHANGED <<balancerVars, alive, inbox, table, receiverVars, link, backlog,
                      listenerVars, exports, due>>

\* Slip: the loop begins with the second bucket.
EnterBucketLate(w) ==
    LET b == exporter[w].bucket
    IN /\ exporter[w].pc = "buckets"
       /\ exporter[w].todo = {}
       /\ b < Buckets
       /\ exporter' = [exporter EXCEPT ![w].bucket = b + 1, ![w].todo = InBucket(w, b + 1)]
       /\ UNCHANGED <<balancerVars, alive, inbox, table, receiverVars, streamVars, listenerVars,
                      exports, historyVars>>

\* The lock of the next bucket; it is kept until the bucket is through.
EnterBucket(w) ==
    LET b == exporter[w].bucket
    IN /\ exporter[w].pc = "buckets"
       /\ exporter[w].todo = {}
       /\ b <= Buckets
       /\ exporter' = [exporter EXCEPT ![w].bucket = b + 1, ![w].todo = InBucket(w, b)]
       /\ UNCHANGED <<balancerVars, alive, inbox, table, receiverVars, streamVars, listenerVars,
                      exports, historyVars>>

SendEntry(w) ==
    \E k \in exporter[w].todo :
       /\ SendPayload(w, "exporter", exporter[w].target, Data("entry", k, table[w][k]))
       /\ exporter' = [exporter EXCEPT ![w].todo = @ \ {k}]
       /\ UNCHANGED <<balancerVars, alive, inbox, table, receiverVars, link, backlog,
                      listenerVars, exports, historyVars>>

\* Slip: the end is told before the last bucket.
SendEndEarly(w) ==
    /\ exporter[w].pc = "buckets"
    /\ exporter[w].todo = {}
    /\ exporter[w].bucket >= Buckets
    /\ Mixes(w, exporter[w].target)
    /\ Sends(w, exporter[w].target, Mark("end"))
    /\ exporter' = [exporter EXCEPT ![w] = Idle]
    /\ UNCHANGED <<balancerVars, alive, inbox, table, receiverVars, link, backlog, sending,
                   listenerVars, exports, historyVars>>

\* The end is a header and no payload.
SendEnd(w) ==
    /\ exporter[w].pc = "buckets"
    /\ exporter[w].todo = {}
    /\ exporter[w].bucket > Buckets
    /\ Mixes(w, exporter[w].target)
    /\ Sends(w, exporter[w].target, Mark("end"))
    /\ exporter' = [exporter EXCEPT ![w] = Idle]
    /\ UNCHANGED <<balancerVars, alive, inbox, table, receiverVars, link, backlog, sending,
                   listenerVars, exports, historyVars>>

\* A send to a target that ended, or closed the connection, fails or is in
\* vain: the export is over.
ExportFails(w) == /\ exporter[w].pc \in {"start", "buckets"}
                  /\ ~Heard(w, exporter[w].target)
                  /\ exporter' = [exporter EXCEPT ![w] = Idle]
                  /\ sending' = [sending EXCEPT ![w] = @ \ {"exporter"}]
                  /\ UNCHANGED <<balancerVars, alive, inbox, table, receiverVars, link, chan,
                                 backlog, mixed, listenerVars, exports, historyVars>>

-----------------------------------------------------------------------------
Receives(w) == \/ AddPeer(w) \/ StoreRequest(w)
               \/ NotifyHeader(w) \/ Notify(w) \/ EndBroadcast(w) \/ RemoveDisconnectedPeer(w)
Listens(w) == \/ Accept(w) \/ ReceiveEntry(w) \/ ReceiveMark(w) \/ SetEntry(w)
              \/ Disconnect(w) \/ Misread(w)
Exports(w) == \/ TakeExport(w) \/ ExportHeader(w) \/ SendStart(w) \/ EnterBucket(w)
              \/ SendEntry(w) \/ SendEnd(w) \/ ExportFails(w)
Registers(w) == Join(w) \/ Introduce(w) \/ RemoveWorker(w)

Next == \/ \E w \in Workers : \/ Registers(w)
                              \/ Receives(w)
                              \/ Listens(w)
                              \/ Exports(w)
                              \/ Stop(w)
        \/ \E w \in Workers, k \in Keys, p \in Puts : Dispatch(w, k, p)

Spec == Init /\ [][Next]_vars

(* Every thread goes on when it can; no put has to come, no worker to end. *)
Fairness == \A w \in Workers : /\ WF_vars(Introduce(w) \/ RemoveWorker(w))
                               /\ WF_vars(Receives(w))
                               /\ WF_vars(Listens(w))
                               /\ WF_vars(Exports(w))

FairSpec == Spec /\ Fairness

-----------------------------------------------------------------------------
TypeOK == /\ list \in Seq(Workers)
          /\ stage \in [Workers -> {"new", "joined", "serving", "removed"}]
          /\ at \in [Puts -> Workers \cup {None}]
          /\ alive \subseteq Workers
          /\ inbox \in [Workers -> Seq(Inbound)]
          /\ table \in [Workers -> [Keys -> Puts \cup {None}]]
          /\ receiver \in [Workers -> [casting : BOOLEAN, item : Items,
                                       next : Nat \ {0}, lost : Seq(Workers)]]
          /\ peers \in [Workers -> Seq(Workers)]
          /\ link \in [Workers -> [Workers -> {"none", "open", "closed"}]]
          /\ chan \in [Workers -> [Workers -> Seq(Messages)]]
          /\ \A w, v \in Workers : Len(chan[w][v]) <= Buffer
          /\ backlog \in [Workers -> Seq(Workers)]
          /\ sending \in [Workers -> SUBSET {"receiver", "exporter"}]
          /\ mixed \subseteq Workers \X Workers
          /\ serving \in [Workers -> Workers \cup {None}]
          /\ listener \in [Workers -> Items]
          /\ exports \in [Workers -> Seq(Workers)]
          /\ exporter \in [Workers -> [pc : {"idle", "start", "buckets"},
                                       target : Workers \cup {None},
                                       bucket : 1 .. Buckets + 1, todo : SUBSET Keys]]
          /\ due \in [Workers -> [Workers -> SUBSET Keys]]
          /\ snapshot \in [Workers -> [Workers -> SUBSET Keys]]

\* k is on its way from w to v, or will be sent.
OnItsWay(w, v, k) ==
    \/ listener[v].key = k
    \/ /\ \E i \in 1 .. Len(chan[w][v]) : chan[w][v][i].key = k
       /\ serving[v] = w \/ w \in Range(backlog[v])
    \/ /\ receiver[w].casting
       /\ receiver[w].item.key = k
       /\ \E i \in receiver[w].next .. Len(peers[w]) : peers[w][i] = v
    \/ v \in Range(exports[w])
    \/ /\ exporter[w].target = v
       /\ \/ exporter[w].pc = "start"
          \/ k \in exporter[w].todo
          \/ BucketOf[k] >= exporter[w].bucket

\* A key w undertook to send to v, by an export or by a broadcast, is at v, will
\* be sent or is on a connection that v reads or has still to accept, as long as
\* both run.  The one way to lose it is that w's receiver and its export thread
\* write to v at once, as nothing keeps them from doing (HashTable.c:403).
NothingSkipped ==
    \A w, v \in alive : <<w, v>> \notin mixed =>
       \A k \in due[w][v] : k \in Stored(v) \/ OnItsWay(w, v, k)

\* When v is about to read the end of an export it has every key the exporter
\* had when the export began.  An end that is read of mixed bytes says nothing:
\* it is no longer one that was sent.
ExportComplete ==
    \A v \in Workers : /\ Ready(v)
                       /\ Head(chan[serving[v]][v]).type = "end"
                       => snapshot[serving[v]][v] \subseteq Stored(v)

\* Data from a peer never replaces a value that came from a peer: only a STORE
\* that arrived between HasHashTable and SetHashTable can be overwritten.
PeerDataKept ==
    [][\A v \in alive \cap alive', k \in Keys :
          /\ table[v][k] # None
          /\ at[table[v][k]] # v
          /\ table'[v][k] # table[v][k]
          => receiver'[v].item = [key |-> k, put |-> table'[v][k]]]_vars

\* Every notification a live worker has sent is heard by the peer.
PeersHeard ==
    \A w, v \in Workers, k \in Keys :
       (\E i \in 1 .. Len(chan[w][v]) : chan[w][v][i].key = k)
          ~> k \in Stored(v) \/ w \notin alive \/ v \notin alive
=============================================================================
