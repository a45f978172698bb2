---------------------------- MODULE BoundedQueue ----------------------------
(***************************************************************************)
(* The circular buffer behind LoadBalancer/ClientRequestQueue.c (and, with *)
(* the same statements and without Return, WorkerResponseQueue.c).         *)
(*                                                                         *)
(* An operation is three steps that other threads may come between: the    *)
(* wait on one semaphore, the critical section, and the release of the     *)
(* other semaphore AFTER the lock is left.  The critical section is one    *)
(* step: all it touches is guarded by queue->lock.  A wait that times out  *)
(* (100 ms) leaves the queue alone and returns 0.                          *)
(*                                                                         *)
(* Not modelled: NULL arguments and failing Win32 calls (both return -1    *)
(* before any change).  A message (socket, client id, data, type) is one   *)
(* element of Items.                                                       *)
(***************************************************************************)
EXTENDS Integers, FiniteSets

CONSTANTS Putters,   \* threads that call Put: the client data receivers
          Takers,    \* threads that call Take and Return: the dispatcher
          Items,     \* the entries
          Nil,       \* no entry
          Capacity   \* CLIENT_REQUEST_QUEUE_CAPACITY

ASSUME QueueAssumption ==
    /\ IsFiniteSet(Putters)
    /\ IsFiniteSet(Takers)
    /\ Putters \cap Takers = {}
    /\ Nil \notin Items
    /\ Capacity \in Nat \ {0}

Threads == Putters \cup Takers
Slots == 0 .. Capacity - 1

VARIABLES queue,     \* the array of slots
          head,      \* next slot to take
          tail,      \* next slot to fill
          count,     \* occupied slots
          notEmpty,  \* semaphore: entries that may be taken
          notFull,   \* semaphore: slots that may be filled
          pc,        \* where each thread is in its call
          request,   \* the entry a thread passes to Put or Return, or got from Take
          result     \* what the thread's last call returned

ring == <<queue, head, tail, count>>
vars == <<queue, head, tail, count, notEmpty, notFull, pc, request, result>>

PCs == {"idle",      \* outside the queue
        "insert",    \* took a notFull permit, before EnterCriticalSection
        "inserted",  \* left the lock, before ReleaseSemaphore(notEmpty)
        "remove",    \* took a notEmpty permit, before EnterCriticalSection
        "removed"}   \* left the lock, before ReleaseSemaphore(notFull)

Init == /\ queue = [s \in Slots |-> Nil]
        /\ head = 0
        /\ tail = 0
        /\ count = 0
        /\ notEmpty = 0
        /\ notFull = Capacity
        /\ pc = [t \in Threads |-> "idle"]
        /\ request = [t \in Threads |-> Nil]
        /\ result = [t \in Threads |-> 1]

(* ReleaseSemaphore(s, 1): it fails, and changes nothing, at the maximum   *)
(* count the semaphore was created with; no caller looks at its result.    *)
Released(permits) == IF permits < Capacity THEN permits + 1 ELSE permits

\* Slip: the index is not wrapped.
NextSlotUnwrapped(s) == s + 1

\* The slot after s.
NextSlot(s) == (s + 1) % Capacity

-----------------------------------------------------------------------------
(* Put and Return.                                                         *)

\* The call returns r to a thread that keeps no entry.
GivesUp(t, r) == /\ pc' = [pc EXCEPT ![t] = "idle"]
                 /\ request' = [request EXCEPT ![t] = Nil]
                 /\ result' = [result EXCEPT ![t] = r]

\* PutClientRequestQueue, up to the wait on notFull that succeeds.
PutWait(t) == /\ t \in Putters
              /\ pc[t] = "idle"
              /\ notFull > 0
              /\ notFull' = notFull - 1
              /\ pc' = [pc EXCEPT ![t] = "insert"]
              /\ \E x \in Items : request' = [request EXCEPT ![t] = x]
              /\ UNCHANGED <<ring, notEmpty, result>>

\* PutClientRequestQueue: the wait on notFull times out.
PutTimeout(t) == /\ t \in Putters
                 /\ pc[t] = "idle"
                 /\ notFull = 0
                 /\ GivesUp(t, 0)
                 /\ UNCHANGED <<ring, notEmpty, notFull>>

\* ReturnClientRequestQueue, up to the wait on notFull that succeeds.
ReturnWait(t) == /\ t \in Takers
                 /\ pc[t] = "idle"
                 /\ request[t] # Nil
                 /\ notFull > 0
                 /\ notFull' = notFull - 1
                 /\ pc' = [pc EXCEPT ![t] = "insert"]
                 /\ UNCHANGED <<ring, notEmpty, request, result>>

\* ReturnClientRequestQueue: the wait times out, and the entry is lost.
ReturnTimeout(t) == /\ t \in Takers
                    /\ pc[t] = "idle"
                    /\ request[t] # Nil
                    /\ notFull = 0
                    /\ GivesUp(t, 0)
                    /\ UNCHANGED <<ring, notEmpty, notFull>>

(* The critical section of Put and Return copies the entry into the tail   *)
(* slot.  A thread that finds the queue full in spite of its wait returns  *)
(* 0 without giving its notFull permit back.                               *)
Insert(t) ==
    /\ pc[t] = "insert"
    /\ IF count >= Capacity
       THEN GivesUp(t, 0) /\ UNCHANGED ring
       ELSE /\ queue' = [queue EXCEPT ![tail] = request[t]]
            /\ tail' = NextSlot(tail)
            /\ count' = count + 1
            /\ pc' = [pc EXCEPT ![t] = "inserted"]
            /\ request' = [request EXCEPT ![t] = Nil]
            /\ UNCHANGED <<head, result>>
    /\ UNCHANGED <<notEmpty, notFull>>

\* Slip: nobody is told of the entry.
SilentInsert(t) == /\ pc[t] = "inserted"
                   /\ GivesUp(t, 1)
                   /\ UNCHANGED <<ring, notEmpty, notFull>>

\* After the lock is left: one more entry may be taken.
SignalNotEmpty(t) == /\ pc[t] = "inserted"
                     /\ notEmpty' = Released(notEmpty)
                     /\ GivesUp(t, 1)
                     /\ UNCHANGED <<ring, notFull>>

-----------------------------------------------------------------------------
(* Take.                                                                   *)

\* TakeClientRequestQueue, up to the wait on notEmpty that succeeds.
TakeWait(t) == /\ t \in Takers
               /\ pc[t] = "idle"
               /\ request[t] = Nil
               /\ notEmpty > 0
               /\ notEmpty' = notEmpty - 1
               /\ pc' = [pc EXCEPT ![t] = "remove"]
               /\ UNCHANGED <<ring, notFull, request, result>>

\* TakeClientRequestQueue: the wait on notEmpty times out.
TakeTimeout(t) == /\ t \in Takers
                  /\ pc[t] = "idle"
                  /\ request[t] = Nil
                  /\ notEmpty = 0
                  /\ GivesUp(t, 0)
                  /\ UNCHANGED <<ring, notEmpty, notFull>>

\* Slips: head is advanced before the entry is copied; head is not advanced.
RemovePastHead(t) ==
    /\ pc[t] = "remove"
    /\ count > 0
    /\ request' = [request EXCEPT ![t] = queue[NextSlot(head)]]
    /\ head' = NextSlot(head)
    /\ count' = count - 1
    /\ pc' = [pc EXCEPT ![t] = "removed"]
    /\ UNCHANGED <<queue, tail, notEmpty, notFull, result>>

(* The critical section copies the head slot into the caller's request;    *)
(* the slot keeps its contents.  A thread that finds the queue empty in    *)
(* spite of its wait returns 0 without giving its notEmpty permit back.    *)
Remove(t) ==
    /\ pc[t] = "remove"
    /\ IF count <= 0
       THEN GivesUp(t, 0) /\ UNCHANGED ring
       ELSE /\ request' = [request EXCEPT ![t] = queue[head]]
            /\ head' = NextSlot(head)
            /\ count' = count - 1
            /\ pc' = [pc EXCEPT ![t] = "removed"]
            /\ UNCHANGED <<queue, tail, result>>
    /\ UNCHANGED <<notEmpty, notFull>>

\* Slip: Take releases the semaphore it waited on.
SignalWrongSemaphore(t) == /\ pc[t] = "removed"
                           /\ notEmpty' = Released(notEmpty)
                           /\ pc' = [pc EXCEPT ![t] = "idle"]
                           /\ result' = [result EXCEPT ![t] = 1]
                           /\ UNCHANGED <<ring, notFull, request>>

\* After the lock is left: one more slot may be filled.
SignalNotFull(t) == /\ pc[t] = "removed"
                    /\ notFull' = Released(notFull)
                    /\ pc' = [pc EXCEPT ![t] = "idle"]
                    /\ result' = [result EXCEPT ![t] = 1]
                    /\ UNCHANGED <<ring, notEmpty, request>>

\* The dispatcher sent the request it took to a worker (hasRequest = 0).
Dispatched(t) == /\ t \in Takers
                 /\ pc[t] = "idle"
                 /\ request[t] # Nil
                 /\ request' = [request EXCEPT ![t] = Nil]
                 /\ UNCHANGED <<ring, notEmpty, notFull, pc, result>>

-----------------------------------------------------------------------------
InsertSteps(t) == Insert(t) \/ SignalNotEmpty(t)
PutSteps(t) == PutWait(t) \/ PutTimeout(t)
ReturnSteps(t) == ReturnWait(t) \/ ReturnTimeout(t)
TakeSteps(t) == TakeWait(t) \/ TakeTimeout(t) \/ Remove(t) \/ SignalNotFull(t)

ThreadStep(t) ==
    InsertSteps(t) \/ PutSteps(t) \/ ReturnSteps(t) \/ TakeSteps(t) \/ Dispatched(t)

Next == \E t \in Threads : ThreadStep(t)

Spec == Init /\ [][Next]_vars

(* A thread inside a call goes on, and a taker calls Take again whenever   *)
(* it holds nothing.  Nothing makes a client put, and nothing makes the    *)
(* dispatcher get rid of what it holds: while no worker is ready it keeps  *)
(* its request and goes round (WorkerClientRequestDispatcherThread.c 50-61).*)
Fairness == /\ \A t \in Threads : WF_vars(InsertSteps(t))
            /\ \A t \in Takers : WF_vars(TakeSteps(t))

FairSpec == Spec /\ Fairness

-----------------------------------------------------------------------------
(* Properties.                                                             *)

\* Each variable has its type; head, tail and count index the array.
TypeOK == /\ queue \in [Slots -> Items \cup {Nil}]
          /\ head \in Slots
          /\ tail \in Slots
          /\ count \in 0 .. Capacity
          /\ notEmpty \in 0 .. Capacity
          /\ notFull \in 0 .. Capacity
          /\ pc \in [Threads -> PCs]
          /\ request \in [Threads -> Items \cup {Nil}]
          /\ result \in [Threads -> {0, 1}]

At(label) == {t \in Threads : pc[t] = label}

(* Permits are neither lost nor created: every slot is free and counted by *)
(* notFull, occupied, or in the hands of a thread between its wait and its *)
(* critical section or between its critical section and its release; every *)
(* entry is counted by notEmpty or in such hands (ClientRequestQueue.c's   *)
(* waits at 74, 126, 176 and releases at 108, 160, 207).                   *)
PermitsConserved ==
    /\ notFull + Cardinality(At("insert")) + count + Cardinality(At("removed")) = Capacity
    /\ notEmpty + Cardinality(At("remove")) + Cardinality(At("inserted")) = count

(* A permit means what it says: a thread that got past a wait finds room,  *)
(* or an entry, when it enters the lock, so the "is full after semaphore   *)
(* signal" and "is empty after semaphore signal" branches, which would     *)
(* leak a permit, never run (ClientRequestQueue.c 89-95, 141-147, 190-194).*)
PermitsHonoured == /\ At("insert") # {} => count < Capacity
                   /\ At("remove") # {} => count > 0

(* The three indices agree: tail is count slots ahead of head.             *)
RingCoherent == tail = (head + count) % Capacity

(* Every slot between head and tail holds an entry: Take never hands its   *)
(* caller a slot nobody filled.                                            *)
OccupiedSlotsHoldItems ==
    \A i \in 0 .. Capacity - 1 : i < count => queue[(head + i) % Capacity] \in Items

\* The entries in the ring, oldest first.
Contents == [i \in 1 .. count |-> queue[(head + i - 1) % Capacity]]

\* The queue implements the FIFO of FifoQueue.
Fifo == INSTANCE FifoQueue WITH fifo <- Contents,
                                taken <- [t \in Takers |-> request[t]]
ImplementsFifo == Fifo!FifoSpec

(* As long as every taker gets rid of what it holds again and again, that  *)
(* is, as long as some worker is ready to be sent it, an entry in the ring *)
(* reaches a taker, even when takers keep putting back what they take and  *)
(* putters keep the ring full.  Without a ready worker the dispatcher      *)
(* keeps one entry and takes no other.                                     *)
EveryEntryIsTaken ==
    (\A t \in Takers : []<>(request[t] = Nil)) =>
        \A x \in Items :
            (\E i \in DOMAIN Contents : Contents[i] = x) ~> (\E t \in Takers : request[t] = x)
=============================================================================
