-------------------------- MODULE ResponseDelivery --------------------------
(***************************************************************************)
(* How a worker's response finds its client: the pool of client slots      *)
(* (LoadBalancer/ClientThreadPool.c), the listener that fills a slot for a *)
(* new client (ClientListenerThread.c), the receiver thread that empties   *)
(* it when the client goes (ClientDataReceiverThread.c), the worker        *)
(* receivers that queue responses (WorkerDataReceiverThread.c) and the     *)
(* thread that takes them, looks the client's socket up in the pool        *)
(* WITHOUT its lock and sends (ClientWorkerResponseDispatcherThread.c).    *)
(*                                                                         *)
(* The response queue is the FIFO that BoundedQueue implements.  A client  *)
(* is told apart by its id, which the listener never uses twice, and its   *)
(* socket is the same element.  Not modelled: failing malloc/CreateThread, *)
(* the request path (RequestPath), shutdown, the reuse of a closed socket's*)
(* handle by the system.                                                   *)
(***************************************************************************)
EXTENDS Integers, Sequences, FiniteSets

CONSTANTS NumClients,    \* clients that connect, one after the other
          MaxClients,    \* MAX_CLIENTS, the slots
          MaxRequests,   \* bound: requests per client
          QueueCapacity, \* WORKER_RESPONSE_QUEUE_CAPACITY
          None           \* INVALID_SOCKET, client id -1, no response

ASSUME DeliveryAssumption == /\ NumClients \in Nat
                             /\ MaxClients \in Nat \ {0}
                             /\ MaxRequests \in Nat
                             /\ QueueCapacity \in Nat \ {0}
                             /\ None \notin Int

Clients == 1 .. NumClients
Slots == 0 .. MaxClients - 1
Responses == [client : Clients, n : 1 .. MaxRequests]

VARIABLES clientIds,     \* ClientThreadPool.clientIds
          clientSockets, \* ClientThreadPool.clientSockets
          isAvailable,   \* the slots with isAvailable = 1
          count,         \* ClientThreadPool.count
          semaphore,     \* ClientThreadPool.semaphore: free slots
          nextClient,    \* the listener's clientId
          listener,      \* where the listener is
          receiver,      \* where each client's receiver thread is
          slot,          \* threadIndex of each receiver
          sent,          \* requests each client has had accepted
          pending,       \* responses the workers still owe
          responses,     \* the response queue
          dispatcher,    \* where the response dispatcher is
          response,      \* the response it took
          found,         \* the slot its search stopped at
          clientSocket,  \* its local clientSocket, set once and then only by a lookup
          received       \* the responses each client has received

poolVars == <<clientIds, clientSockets, isAvailable, count, semaphore>>
listenerVars == <<nextClient, listener>>
receiverVars == <<receiver, slot, sent>>
dispatcherVars == <<dispatcher, response, found, clientSocket>>
vars == <<poolVars, listenerVars, receiverVars, pending, responses, dispatcherVars, received>>

Init == /\ clientIds = [i \in Slots |-> None]
        /\ clientSockets = [i \in Slots |-> None]
        /\ isAvailable = Slots
        /\ count = 0
        /\ semaphore = MaxClients
        /\ nextClient = 1
        /\ listener = "accept"
        /\ receiver = [c \in Clients |-> "none"]
        /\ slot = [c \in Clients |-> None]
        /\ sent = [c \in Clients |-> 0]
        /\ pending = {}
        /\ responses = << >>
        /\ dispatcher = "take"
        /\ response = None
        /\ found = None
        /\ clientSocket = None
        /\ received = [c \in Clients |-> {}]

\* ReleaseSemaphore(pool->semaphore, 1): no effect at the maximum.
Released == IF semaphore < MaxClients THEN semaphore + 1 ELSE semaphore

-----------------------------------------------------------------------------
(* The listener.                                                           *)

\* The connection is closed without a slot; the client's id is spent or not.
Reject == /\ listener' = "accept"
          /\ receiver' = [receiver EXCEPT ![nextClient] = "rejected"]
          /\ nextClient' = nextClient + 1

\* SafeAccept, then the unlocked test of pool->count.
Accept == /\ listener = "accept"
          /\ nextClient \in Clients
          /\ IF count < MaxClients
             THEN listener' = "assign" /\ UNCHANGED <<nextClient, receiver>>
             ELSE Reject
          /\ UNCHANGED <<poolVars, slot, sent, pending, responses, dispatcherVars, received>>

\* Slip: a wait that timed out is taken for success.
AssignWaitIgnored ==
    /\ listener = "assign"
    /\ semaphore' = semaphore - 1
    /\ listener' = "assignEnter"
    /\ UNCHANGED <<nextClient, receiver, clientIds, clientSockets, isAvailable, count, slot,
                   sent, pending, responses, dispatcherVars, received>>

\* AssignClientDataReceiverThread: the wait on the semaphore.
AssignWait == /\ listener = "assign"
              /\ \/ /\ semaphore > 0
                    /\ semaphore' = semaphore - 1
                    /\ listener' = "assignEnter"
                    /\ UNCHANGED <<nextClient, receiver>>
                 \/ /\ semaphore = 0
                    /\ Reject
                    /\ UNCHANGED semaphore
              /\ UNCHANGED <<clientIds, clientSockets, isAvailable, count, slot, sent,
                             pending, responses, dispatcherVars, received>>

(* AssignClientDataReceiverThread: the critical section takes the first    *)
(* available slot and starts the receiver; with none left the client is    *)
(* rejected and the permit is gone.                                        *)
AssignEnter ==
    /\ listener = "assignEnter"
    /\ IF isAvailable = {}
       THEN Reject /\ UNCHANGED <<poolVars, slot>>
       ELSE LET i == CHOOSE j \in isAvailable : \A k \in isAvailable : j <= k IN
            /\ isAvailable' = isAvailable \ {i}
            /\ clientSockets' = [clientSockets EXCEPT ![i] = nextClient]
            /\ clientIds' = [clientIds EXCEPT ![i] = nextClient]
            /\ count' = count + 1
            /\ receiver' = [receiver EXCEPT ![nextClient] = "serve"]
            /\ slot' = [slot EXCEPT ![nextClient] = i]
            /\ listener' = "accept"
            /\ nextClient' = nextClient + 1
            /\ UNCHANGED semaphore
    /\ UNCHANGED <<sent, pending, responses, dispatcherVars, received>>

-----------------------------------------------------------------------------
(* A client's receiver thread.                                             *)

\* A PUT or GET is accepted and some worker will answer it.
Request(c) == /\ receiver[c] = "serve"
              /\ sent[c] < MaxRequests
              /\ sent' = [sent EXCEPT ![c] = @ + 1]
              /\ pending' = pending \cup {[client |-> c, n |-> sent[c] + 1]}
              /\ UNCHANGED <<poolVars, listenerVars, receiver, slot, responses,
                             dispatcherVars, received>>

Moves(c, from, to) == /\ receiver[c] = from
                      /\ receiver' = [receiver EXCEPT ![c] = to]
                      /\ UNCHANGED <<listenerVars, slot, sent, pending, responses,
                                     dispatcherVars, received>>

\* ProtocolReceive fails: SHUTDOWN is sent and the socket closed.
CloseClient(c) == Moves(c, "serve", "closed") /\ UNCHANGED poolVars

\* Slips: the counter is not decremented; the client id stays in the slot.
ReturnKeepsCount(c) == /\ Moves(c, "closed", "returned")
                       /\ isAvailable' = isAvailable \cup {slot[c]}
                       /\ clientSockets' = [clientSockets EXCEPT ![slot[c]] = None]
                       /\ clientIds' = [clientIds EXCEPT ![slot[c]] = None]
                       /\ UNCHANGED <<count, semaphore>>

ReturnKeepsId(c) == /\ Moves(c, "closed", "returned")
                    /\ isAvailable' = isAvailable \cup {slot[c]}
                    /\ clientSockets' = [clientSockets EXCEPT ![slot[c]] = None]
                    /\ count' = count - 1
                    /\ UNCHANGED <<clientIds, semaphore>>

(* ReturnClientDataReceiverThread: the critical section clears the slot.   *)
ReturnEnter(c) == /\ Moves(c, "closed", "returned")
                  /\ isAvailable' = isAvailable \cup {slot[c]}
                  /\ clientSockets' = [clientSockets EXCEPT ![slot[c]] = None]
                  /\ clientIds' = [clientIds EXCEPT ![slot[c]] = None]
                  /\ count' = count - 1
                  /\ UNCHANGED semaphore

\* ReturnClientDataReceiverThread: the release after the lock is left.
ReturnSignal(c) == /\ Moves(c, "returned", "done")
                   /\ semaphore' = Released
                   /\ UNCHANGED <<clientIds, clientSockets, isAvailable, count>>

-----------------------------------------------------------------------------
(* A worker's receiver thread: PutWorkerResponseQueue, or, when the queue  *)
(* stays full, an ERROR to the worker and the response is dropped.         *)
WorkerAnswers(r) == /\ r \in pending
                    /\ pending' = pending \ {r}
                    /\ responses' = IF Len(responses) < QueueCapacity
                                    THEN Append(responses, r) ELSE responses
                    /\ UNCHANGED <<poolVars, listenerVars, receiverVars,
                                   dispatcherVars, received>>

-----------------------------------------------------------------------------
(* The response dispatcher.                                                *)

\* The response is done with; the local clientSocket keeps its value.
NextResponse == dispatcher' = "take" /\ response' = None /\ found' = None

\* TakeWorkerResponseQueue.
TakeResponse == /\ dispatcher = "take"
                /\ responses # << >>
                /\ response' = Head(responses)
                /\ responses' = Tail(responses)
                /\ dispatcher' = "lookup"
                /\ UNCHANGED <<poolVars, listenerVars, receiverVars, pending,
                               found, clientSocket, received>>

\* Slip: the search stops one slot early.
LookupShort ==
    /\ dispatcher = "lookup"
    /\ IF \E i \in Slots \ {MaxClients - 1} : clientIds[i] = response.client
       THEN /\ found' = CHOOSE i \in Slots : clientIds[i] = response.client
            /\ dispatcher' = "read"
            /\ UNCHANGED response
       ELSE IF clientSocket = None
       THEN NextResponse
       ELSE dispatcher' = "send" /\ UNCHANGED <<response, found>>
    /\ UNCHANGED <<poolVars, listenerVars, receiverVars, pending, responses,
                   clientSocket, received>>

(* GetClientSocketByClientId: the search.  When no slot has the id,        *)
(* clientSocket keeps whatever the previous response left in it, and only  *)
(* INVALID_SOCKET stops the send.                                          *)
Lookup ==
    /\ dispatcher = "lookup"
    /\ IF \E i \in Slots : clientIds[i] = response.client
       THEN /\ found' = CHOOSE i \in Slots : clientIds[i] = response.client
            /\ dispatcher' = "read"
            /\ UNCHANGED response
       ELSE IF clientSocket = None
       THEN NextResponse
       ELSE dispatcher' = "send" /\ UNCHANGED <<response, found>>
    /\ UNCHANGED <<poolVars, listenerVars, receiverVars, pending, responses,
                   clientSocket, received>>

\* Slip: a socket the dispatcher already has is not read again.
ReadSocketOnce ==
    /\ dispatcher = "read"
    /\ clientSocket' = IF clientSocket = None THEN clientSockets[found] ELSE clientSocket
    /\ IF clientSocket' = None
       THEN NextResponse
       ELSE dispatcher' = "send" /\ UNCHANGED <<response, found>>
    /\ UNCHANGED <<poolVars, listenerVars, receiverVars, pending, responses, received>>

(* GetClientSocketByClientId: the read of the socket.  Without the lock    *)
(* the slot may have been cleared, or given to another client, since.      *)
ReadSocket ==
    /\ dispatcher = "read"
    /\ clientSocket' = clientSockets[found]
    /\ IF clientSocket' = None
       THEN NextResponse
       ELSE dispatcher' = "send" /\ UNCHANGED <<response, found>>
    /\ UNCHANGED <<poolVars, listenerVars, receiverVars, pending, responses, received>>

\* SendPutResponse / SendGetResponse; on a closed socket the send fails.
SendResponse ==
    /\ dispatcher = "send"
    /\ received' = IF receiver[clientSocket] = "serve"
                   THEN [received EXCEPT ![clientSocket] = @ \cup {response}]
                   ELSE received
    /\ NextResponse
    /\ UNCHANGED <<poolVars, listenerVars, receiverVars, pending, responses, clientSocket>>

-----------------------------------------------------------------------------
\* Every client has come and gone and nothing is left to do.
Quiet == /\ nextClient \notin Clients
         /\ \A c \in Clients : receiver[c] \in {"done", "rejected"}
         /\ pending = {} /\ responses = << >> /\ dispatcher = "take"
         /\ UNCHANGED vars

ListenerStep == Accept \/ AssignWait \/ AssignEnter
ReturnStep(c) == ReturnEnter(c) \/ ReturnSignal(c)
DispatcherStep == TakeResponse \/ Lookup \/ ReadSocket \/ SendResponse

Next == \/ ListenerStep
        \/ \E c \in Clients : Request(c) \/ CloseClient(c) \/ ReturnStep(c)
        \/ \E r \in pending : WorkerAnswers(r)
        \/ DispatcherStep
        \/ Quiet

Spec == Init /\ [][Next]_vars

\* The threads keep running; nothing makes a client connect, ask or leave.
Fairness == /\ WF_vars(AssignWait \/ AssignEnter)
            /\ WF_vars(DispatcherStep)
            /\ \A c \in Clients : WF_vars(ReturnStep(c))

FairSpec == Spec /\ Fairness

-----------------------------------------------------------------------------
(* Properties.                                                             *)

TypeOK == /\ clientIds \in [Slots -> Clients \cup {None}]
          /\ clientSockets \in [Slots -> Clients \cup {None}]
          /\ isAvailable \subseteq Slots
          /\ count \in 0 .. MaxClients
          /\ semaphore \in 0 .. MaxClients
          /\ nextClient \in 1 .. NumClients + 1
          /\ listener \in {"accept", "assign", "assignEnter"}
          /\ receiver \in [Clients -> {"none", "serve", "closed", "returned", "done",
                                       "rejected"}]
          /\ slot \in [Clients -> Slots \cup {None}]
          /\ sent \in [Clients -> 0 .. MaxRequests]
          /\ pending \subseteq Responses
          /\ responses \in Seq(Responses)
          /\ dispatcher \in {"take", "lookup", "read", "send"}
          /\ response \in Responses \cup {None}
          /\ found \in Slots \cup {None}
          /\ clientSocket \in Clients \cup {None}
          /\ received \in [Clients -> SUBSET Responses]

Returning == {c \in Clients : receiver[c] = "returned"}

(* The semaphore, the counter and the flags of the pool tell the same      *)
(* story, so the listener's permit always finds a slot: the client it has  *)
(* accepted is never turned away after its wait, and no permit leaks.      *)
PoolConsistent ==
    /\ count = MaxClients - Cardinality(isAvailable)
    /\ Cardinality(isAvailable)
         = semaphore + Cardinality(Returning) + (IF listener = "assignEnter" THEN 1 ELSE 0)
    /\ listener = "assignEnter" => isAvailable # {}

(* A receiver owns its slot from assignment to return: the slot names that *)
(* client and no other slot does, and a free slot names nobody.            *)
SlotsOwned ==
    /\ \A i \in Slots : i \in isAvailable <=> clientIds[i] = None
    /\ \A i \in Slots : clientIds[i] = clientSockets[i]
    /\ \A c \in Clients :
          receiver[c] \in {"serve", "closed"} <=> \E i \in Slots : clientIds[i] = c /\ slot[c] = i

(* A response whose client is still there goes to that client's socket,    *)
(* in spite of the unlocked lookup and the socket left from the response   *)
(* before.                                                                 *)
LiveClientAddressed ==
    dispatcher = "send" /\ receiver[response.client] = "serve"
        => clientSocket = response.client

(* A queued response is sent to its client, unless the client leaves.      *)
QueuedResponseDelivered ==
    \A r \in Responses :
        (\E i \in 1 .. Len(responses) : responses[i] = r)
            ~> (r \in received[r.client] \/ receiver[r.client] # "serve")

(* README.md:33: the response dispatcher thread delivers the response to   *)
(* the client: no client receives the response of another.                 *)
ResponseToItsClient == \A c \in Clients : \A r \in received[c] : r.client = c
=============================================================================
