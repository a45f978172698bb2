------------------------------ MODULE FifoQueue ------------------------------
(***************************************************************************)
(* What the load balancer's two queues (LoadBalancer/ClientRequestQueue.c  *)
(* and WorkerResponseQueue.c) promise the threads that share them: a FIFO  *)
(* of at most Capacity entries.  An entry is appended at the tail or       *)
(* removed from the head in one step; a taker that could not use the entry *)
(* it took may put it back, at the tail.                                   *)
(* BoundedQueue models the code; BoundedQueueProofs shows it implements    *)
(* this module.                                                            *)
(***************************************************************************)
EXTENDS Naturals, Sequences

CONSTANTS Putters,   \* threads that put entries
          Takers,    \* threads that take entries
          Items,     \* the entries
          Nil,       \* no entry
          Capacity   \* CLIENT_REQUEST_QUEUE_CAPACITY

VARIABLES fifo,      \* the entries, oldest first
          taken      \* the entry each taker holds, or Nil

fifoVars == <<fifo, taken>>

FifoInit == /\ fifo = << >>
            /\ taken = [t \in Takers |-> Nil]

\* A putter's entry becomes the youngest one.
Append1(x) == /\ Len(fifo) < Capacity
              /\ fifo' = Append(fifo, x)
              /\ UNCHANGED taken

\* A taker receives the oldest entry.
RemoveHead(t) == /\ fifo # << >>
                 /\ taken[t] = Nil
                 /\ taken' = [taken EXCEPT ![t] = Head(fifo)]
                 /\ fifo' = Tail(fifo)

\* A taker gives its entry back: it becomes the youngest one.
GiveBack(t) == /\ taken[t] # Nil
               /\ Len(fifo) < Capacity
               /\ fifo' = Append(fifo, taken[t])
               /\ taken' = [taken EXCEPT ![t] = Nil]

\* A taker is done with its entry.
Discard(t) == /\ taken[t] # Nil
              /\ taken' = [taken EXCEPT ![t] = Nil]
              /\ UNCHANGED fifo

FifoNext == \/ \E x \in Items : Append1(x)
            \/ \E t \in Takers : RemoveHead(t) \/ GiveBack(t) \/ Discard(t)

FifoSpec == FifoInit /\ [][FifoNext]_fifoVars
=============================================================================
