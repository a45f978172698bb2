----------------------------- MODULE RequestPath -----------------------------
(***************************************************************************)
(* The way of a client's request through the load balancer and back: the   *)
(* client's receiver thread (LoadBalancer/ClientDataReceiverThread.c), the *)
(* request queue, the dispatcher that sends it to the next worker          *)
(* (WorkerClientRequestDispatcherThread.c), the worker                     *)
(* (Worker/ReceiverThread.c), the receiver thread of that worker           *)
(* (WorkerDataReceiverThread.c), the response queue and the response       *)
(* dispatcher (ClientWorkerResponseDispatcherThread.c).                    *)
(*                                                                         *)
(* It composes what the other modules show piece by piece.  The queues are *)
(* FIFOs (BoundedQueue); an operation that times out does so on a full     *)
(* queue.  The worker list is the rotation the dispatcher goes through,    *)
(* with the permits that can make RemoveWorker time out (WorkerRegistry).  *)
(* A response that is taken reaches its client (ResponseDelivery).         *)
(*                                                                         *)
(* Not modelled: clients that leave, what a request asks for, shutdown, a  *)
(* send that gives up half-way through a message (Framing).  The branches  *)
(* for data that does not parse (107-111, 147-151) cannot be reached: the  *)
(* client's receiver thread parsed the same bytes before it queued them.   *)
(***************************************************************************)
EXTENDS Integers, SequencesExt

CONSTANTS Requests,         \* PUTs and GETs the clients send
          Workers,          \* worker processes that may join
          QueueCapacity,    \* CLIENT_REQUEST_QUEUE_CAPACITY
          ResponseCapacity, \* WORKER_RESPONSE_QUEUE_CAPACITY
          None              \* no request, no worker, no loss

\* Where the load balancer may lose a request it has accepted.
Losses == {"worker", "request queue", "response queue"}

ASSUME PathAssumption == /\ IsFiniteSet(Requests)
                         /\ IsFiniteSet(Workers)
                         /\ QueueCapacity \in Nat \ {0}
                         /\ ResponseCapacity \in Nat \ {0}
                         /\ None \notin Requests \cup Workers \cup Losses

VARIABLES status,     \* what the client's receiver thread did with each request
          queue,      \* the request queue
          dispatcher, \* where the dispatcher is in a round of its loop
          request,    \* the request it holds (hasRequest)
          target,     \* the worker it chose (hasWorker)
          list,       \* the listed workers, in the order their turn comes
          permits,    \* WorkerList.notEmpty
          conn,       \* the receiver thread of each worker
          alive,      \* the worker processes that run
          inbox,      \* requests on their way to each worker
          outbox,     \* responses on their way from each worker
          responses,  \* the response queue
          answers,    \* responses sent to the client, per request
          lost,       \* history: where an accepted request was lost
          refused     \* history: some send to a live worker returned -1

dispatcherVars == <<dispatcher, request, target>>
listVars == <<list, permits>>
workerVars == <<conn, alive, inbox, outbox>>
vars == <<status, queue, dispatcherVars, listVars, workerVars, responses, answers, lost, refused>>

Init == /\ status = [r \in Requests |-> "new"]
        /\ queue = << >>
        /\ dispatcher = "round"
        /\ request = None
        /\ target = None
        /\ list = << >>
        /\ permits = 0
        /\ conn = [w \in Workers |-> "none"]
        /\ alive = {}
        /\ inbox = [w \in Workers |-> << >>]
        /\ outbox = [w \in Workers |-> << >>]
        /\ responses = << >>
        /\ answers = [r \in Requests |-> 0]
        /\ lost = [r \in Requests |-> None]
        /\ refused = FALSE

Settled(r) == answers[r] > 0 \/ lost[r] # None
Lose(R, where) == lost' = [r \in Requests |-> IF r \in R THEN where ELSE lost[r]]

-----------------------------------------------------------------------------
(* A client's receiver thread.                                             *)

\* GetWorkerCount: without a worker the client is told SERVER_BUSY.
Check(r) == /\ status[r] = "new"
            /\ status' = [status EXCEPT ![r] = IF list = << >> THEN "rejected" ELSE "checked"]
            /\ UNCHANGED <<queue, dispatcherVars, listVars, workerVars, responses, answers, lost,
                           refused>>

\* PutClientRequestQueue; when it times out the client is told SERVER_BUSY.
Put(r) ==
    /\ status[r] = "checked"
    /\ IF Len(queue) < QueueCapacity
       THEN status' = [status EXCEPT ![r] = "accepted"] /\ queue' = Append(queue, r)
       ELSE status' = [status EXCEPT ![r] = "rejected"] /\ UNCHANGED queue
    /\ UNCHANGED <<dispatcherVars, listVars, workerVars, responses, answers, lost, refused>>

\* Once r is settled or turned away, the same is asked again.
Repeat(r) ==
    /\ status[r] = "rejected" \/ Settled(r)
    /\ status' = [status EXCEPT ![r] = "new"]
    /\ answers' = [answers EXCEPT ![r] = 0]
    /\ lost' = [lost EXCEPT ![r] = None]
    /\ UNCHANGED <<queue, dispatcherVars, listVars, workerVars, responses, refused>>

-----------------------------------------------------------------------------
(* The worker list.                                                        *)

\* A worker connects, says READY and is linked somewhere in the rotation.
Join(w) == /\ conn[w] = "none"
           /\ conn' = [conn EXCEPT ![w] = "serve"]
           /\ alive' = alive \cup {w}
           /\ \E i \in 1 .. Len(list) + 1 : list' = InsertAt(list, i, w)
           /\ permits' = permits + 1
           /\ UNCHANGED <<status, queue, dispatcherVars, inbox, outbox, responses, answers, lost,
                          refused>>

\* RemoveWorker; without a permit it times out and leaves the node there.
RemoveWorker(w) ==
    \/ permits = 0 /\ UNCHANGED listVars
    \/ /\ permits > 0
       /\ permits' = permits - 1
       /\ \/ \E i \in 1 .. Len(list) : list[i] = w /\ list' = RemoveAt(list, i)
          \/ w \notin ToSet(list) /\ UNCHANGED list

-----------------------------------------------------------------------------
(* The dispatcher.                                                         *)

\* TakeClientRequestQueue.
Take == /\ dispatcher = "round"
        /\ request = None
        /\ queue # << >>
        /\ request' = Head(queue)
        /\ queue' = Tail(queue)
        /\ UNCHANGED <<status, dispatcher, target, listVars, workerVars, responses, answers, lost,
                       refused>>

\* Slip: the search always starts at the same node.
ChooseStays == /\ dispatcher = "round"
               /\ request # None
               /\ target = None
               /\ list # << >>
               /\ target' = Head(list)
               /\ dispatcher' = "send"
               /\ UNCHANGED <<status, queue, request, listVars, workerVars, responses, answers,
                              lost, refused>>

\* GetNextWorker; without one the dispatcher tries again, holding its request.
Choose == /\ dispatcher = "round"
          /\ request # None
          /\ target = None
          /\ list # << >>
          /\ target' = Head(list)
          /\ list' = Append(Tail(list), Head(list))
          /\ dispatcher' = "send"
          /\ UNCHANGED <<status, queue, request, permits, workerVars, responses, answers, lost,
                         refused>>

NextRound == dispatcher' = "round" /\ request' = None /\ target' = None

\* SendStoreRequest / SendRetrieveRequest to a worker that runs.
Send == /\ dispatcher = "send"
        /\ target \in alive
        /\ inbox' = [inbox EXCEPT ![target] = Append(@, request)]
        /\ NextRound
        /\ UNCHANGED <<status, queue, listVars, conn, alive, outbox, responses, answers, lost,
                       refused>>

\* The worker is gone but its connection still takes the bytes.
SendInVain == /\ dispatcher = "send"
              /\ target \notin alive
              /\ conn[target] # "done"
              /\ NextRound
              /\ Lose({request}, "worker")
              /\ UNCHANGED <<status, queue, listVars, workerVars, responses, answers, refused>>

\* Slip: a result other than -2 and -3 is taken for success.
RefusalIgnored == /\ dispatcher = "send"
                  /\ target \in alive
                  /\ NextRound
                  /\ Lose({request}, "worker")
                  /\ refused' = TRUE
                  /\ UNCHANGED <<status, queue, listVars, workerVars, responses, answers>>

(* -1 though the worker runs: SendBuffer has found no room for 5000 polls  *)
(* (NetworkLib.c 139), or the key is empty, which ReceivePut and ReceiveGet*)
(* let in and ValidateKey refuses for every worker (Protocol.c 184, 224).  *)
(* The worker stays listed.                                                *)
SendRefused == /\ dispatcher = "send"
               /\ target \in alive
               /\ dispatcher' = "return"
               /\ refused' = TRUE
               /\ UNCHANGED <<status, queue, request, target, listVars, workerVars, responses,
                              answers, lost>>

(* The worker is gone and the send fails: with -1 (always, once the socket *)
(* is closed here), or with -2, after which it is removed from the list.   *)
SendFails == /\ dispatcher = "send"
             /\ target \notin alive
             /\ dispatcher' = "return"
             /\ \/ UNCHANGED listVars
                \/ conn[target] # "done" /\ RemoveWorker(target)
             /\ UNCHANGED <<status, queue, request, target, workerVars, responses, answers, lost,
                            refused>>

\* Slip: hasRequest is not cleared after the return.
ReturnKeepsRequest ==
    /\ dispatcher = "return"
    /\ IF Len(queue) < QueueCapacity
       THEN queue' = Append(queue, request) /\ UNCHANGED lost
       ELSE Lose({request}, "request queue") /\ UNCHANGED queue
    /\ dispatcher' = "round" /\ target' = None
    /\ UNCHANGED <<status, request, listVars, workerVars, responses, answers, refused>>

(* ReturnClientRequestQueue: the request becomes the youngest; the         *)
(* dispatcher forgets it even when the call timed out on a full queue.     *)
Return == /\ dispatcher = "return"
          /\ IF Len(queue) < QueueCapacity
             THEN queue' = Append(queue, request) /\ UNCHANGED lost
             ELSE Lose({request}, "request queue") /\ UNCHANGED queue
          /\ NextRound
          /\ UNCHANGED <<status, listVars, workerVars, responses, answers, refused>>

-----------------------------------------------------------------------------
(* A worker and its connection.                                            *)

\* The worker carries out its next request and answers.
Serve(w) == /\ w \in alive
            /\ inbox[w] # << >>
            /\ inbox' = [inbox EXCEPT ![w] = Tail(@)]
            /\ outbox' = [outbox EXCEPT ![w] = Append(@, Head(inbox[w]))]
            /\ UNCHANGED <<status, queue, dispatcherVars, listVars, conn, alive, responses,
                           answers, lost, refused>>

\* The process dies; of the responses under way the first n still arrive.
Crash(w) == /\ w \in alive
            /\ alive' = alive \ {w}
            /\ inbox' = [inbox EXCEPT ![w] = << >>]
            /\ \E n \in 0 .. Len(outbox[w]) :
                  /\ outbox' = [outbox EXCEPT ![w] = SubSeq(@, 1, n)]
                  /\ Lose(ToSet(inbox[w]) \cup ToSet(SubSeq(outbox[w], n + 1, Len(outbox[w]))),
                          "worker")
            /\ UNCHANGED <<status, queue, dispatcherVars, listVars, conn, responses, answers,
                           refused>>

\* Slip: a put that timed out is taken for success.
ReceiveIgnoresTimeout(w) ==
    /\ conn[w] = "serve"
    /\ outbox[w] # << >>
    /\ outbox' = [outbox EXCEPT ![w] = Tail(@)]
    /\ responses' = Append(responses, Head(outbox[w]))
    /\ UNCHANGED <<status, queue, dispatcherVars, listVars, conn, alive, inbox, answers, lost,
                   refused>>

(* MSG_STORE_RESPONSE, MSG_RETRIEVE_RESPONSE: PutWorkerResponseQueue; when *)
(* it times out the worker is sent an ERROR, which it only logs.           *)
ReceiveResponse(w) ==
    /\ conn[w] = "serve"
    /\ outbox[w] # << >>
    /\ outbox' = [outbox EXCEPT ![w] = Tail(@)]
    /\ IF Len(responses) < ResponseCapacity
       THEN responses' = Append(responses, Head(outbox[w])) /\ UNCHANGED lost
       ELSE Lose({Head(outbox[w])}, "response queue") /\ UNCHANGED responses
    /\ UNCHANGED <<status, queue, dispatcherVars, listVars, conn, alive, inbox, answers, refused>>

\* ProtocolReceive fails: RemoveWorker, and the loop is left.
ReceiveFails(w) ==
    /\ conn[w] = "serve"
    /\ outbox[w] = << >>
    /\ conn' = [conn EXCEPT ![w] = "close"]
    /\ RemoveWorker(w)
    /\ UNCHANGED <<status, queue, dispatcherVars, alive, inbox, outbox, responses, answers, lost,
                   refused>>

\* The worker is gone.
NoticesGone(w) == w \notin alive /\ ReceiveFails(w)

\* The worker runs but has sent nothing for 5000 polls.
FindsSilent(w) == w \in alive /\ ReceiveFails(w)

\* SHUTDOWN and SafeCloseSocket: a worker that still runs stops.
CloseConnection(w) ==
    /\ conn[w] = "close"
    /\ conn' = [conn EXCEPT ![w] = "done"]
    /\ alive' = alive \ {w}
    /\ inbox' = [inbox EXCEPT ![w] = << >>]
    /\ outbox' = [outbox EXCEPT ![w] = << >>]
    /\ Lose(ToSet(inbox[w]) \cup ToSet(outbox[w]), "worker")
    /\ UNCHANGED <<status, queue, dispatcherVars, listVars, responses, answers, refused>>

-----------------------------------------------------------------------------
\* The response dispatcher takes a response and sends it to its client.
Deliver == /\ responses # << >>
           /\ responses' = Tail(responses)
           /\ answers' = [answers EXCEPT ![Head(responses)] = @ + 1]
           /\ UNCHANGED <<status, queue, dispatcherVars, listVars, workerVars, lost, refused>>

-----------------------------------------------------------------------------
DispatcherStep == Take \/ Choose \/ Send \/ SendInVain \/ SendRefused \/ SendFails
                  \/ Return

Next == \/ \E r \in Requests : Check(r) \/ Put(r) \/ Repeat(r)
        \/ DispatcherStep
        \/ \E w \in Workers : \/ Join(w) \/ Serve(w) \/ Crash(w)
                              \/ ReceiveResponse(w) \/ NoticesGone(w) \/ FindsSilent(w)
                              \/ CloseConnection(w)
        \/ Deliver

Spec == Init /\ [][Next]_vars

(* The threads and the workers keep running; nothing makes a request be    *)
(* sent, a worker join or die, or a live worker be silent.                 *)
Fairness == /\ WF_vars(DispatcherStep)
            /\ WF_vars(Deliver)
            /\ \A r \in Requests : WF_vars(Put(r))
            /\ \A w \in Workers : /\ WF_vars(Serve(w))
                                  /\ WF_vars(ReceiveResponse(w))
                                  /\ WF_vars(NoticesGone(w))
                                  /\ WF_vars(CloseConnection(w))

FairSpec == Spec /\ Fairness

-----------------------------------------------------------------------------
(* Properties.                                                             *)

TypeOK == /\ status \in [Requests -> {"new", "checked", "accepted", "rejected"}]
          /\ queue \in Seq(Requests) /\ Len(queue) <= QueueCapacity
          /\ dispatcher \in {"round", "send", "return"}
          /\ request \in Requests \cup {None}
          /\ target \in Workers \cup {None}
          /\ list \in Seq(Workers)
          /\ permits \in 0 .. Cardinality(Workers)
          /\ conn \in [Workers -> {"none", "serve", "close", "done"}]
          /\ alive \subseteq Workers
          /\ inbox \in [Workers -> Seq(Requests)]
          /\ outbox \in [Workers -> Seq(Requests)]
          /\ responses \in Seq(Requests) /\ Len(responses) <= ResponseCapacity
          /\ answers \in [Requests -> Nat]
          /\ lost \in [Requests -> Losses \cup {None}]
          /\ refused \in BOOLEAN

\* The places where r is: a place for each copy of it.
In(place, w, s, r) == {<<place, w, i>> : i \in {j \in DOMAIN s : s[j] = r}}
Places(r) == In("queue", None, queue, r)
             \cup In("dispatcher", None, <<request>>, r)
             \cup (UNION {In("inbox", w, inbox[w], r) : w \in Workers})
             \cup (UNION {In("outbox", w, outbox[w], r) : w \in Workers})
             \cup In("responses", None, responses, r)
             \cup {<<"answered", None, i>> : i \in 1 .. answers[r]}
             \cup {<<"lost", None, 1>> : x \in {lost[r]} \ {None}}

(* A request that was accepted is in exactly one place until it is         *)
(* answered or lost: returns and retries never make a second copy, so no   *)
(* worker carries it out twice and its client gets at most one answer; a   *)
(* request that was turned away is nowhere                                 *)
(* (WorkerClientRequestDispatcherThread.c 72-152).                         *)
EachRequestOnce ==
    \A r \in Requests :
        Cardinality(Places(r)) = IF status[r] = "accepted" THEN 1 ELSE 0

Gone == {w \in Workers : conn[w] # "none" /\ w \notin alive}

(* An accepted request is lost on its way to the response queue only if a  *)
(* worker has gone or, at the request queue, if a send to a live worker    *)
(* was refused: nothing else makes the dispatcher return a request.        *)
LossExplained ==
    \A r \in Requests :
        /\ lost[r] = "worker" => Gone # {}
        /\ lost[r] = "request queue" => Gone # {} \/ refused

WorkerReady == ToSet(list) \cap alive # {}

\* From some time on no send to a live worker is refused.
RefusalsEnd == <>[][~SendRefused]_vars

(* From some time on every listed worker lives, or no client sends.        *)
Steady == <>[](ToSet(list) \subseteq alive) \/ <>[][UNCHANGED status]_vars

(* An accepted request does not wait for ever as long as there is a worker *)
(* to serve it and sends to live workers are not refused for ever, even if *)
(* dead workers stay listed beside it: the dispatcher returns the request  *)
(* and goes on in the rotation.  Dead nodes and steady traffic together    *)
(* are excluded (Steady): Return puts the request at the tail, so that the *)
(* rotation can offer it the dead node each time while others are sent.    *)
AcceptedSettled ==
    []<>WorkerReady /\ RefusalsEnd /\ Steady =>
        \A r \in Requests : (status[r] = "accepted") ~> Settled(r)
=============================================================================
