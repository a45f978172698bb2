------------------------- MODULE LoadBalancerProofs -------------------------
(***************************************************************************)
(* Proofs about the load balancer's request queue (BoundedQueue), for any  *)
(* finite sets of threads and any capacity, and about its shutdown         *)
(* (LoadBalancerShutdown), for any number of listeners, dispatchers and    *)
(* connections.                                                            *)
(*                                                                         *)
(* The inductive invariant of the queue is QueueInv: the permits are       *)
(* conserved, the indices agree, and what lies between them are entries.   *)
(* That no thread meets a full (or empty) queue after its wait follows     *)
(* from the conservation of permits.  That of the shutdown is QuitInv: a   *)
(* permit of the finish signal is still there or went to a thread that     *)
(* has stopped.  It bounds what the receivers can take from the threads    *)
(* main waits for, whatever the number of connections; that two are too    *)
(* many is shown by the run MCLoadBalancerShutdownHang.                    *)
(***************************************************************************)
EXTENDS BoundedQueue, LoadBalancerShutdown, Sequences, FiniteSetTheorems, SequenceTheorems, TLAPS

-----------------------------------------------------------------------------
(* The request queue.                                                      *)

(* A thread about to copy an entry into the ring has one; a thread about   *)
(* to take one is a taker whose hands are free.                            *)
CallWellFormed(t) == /\ pc[t] = "insert" => request[t] \in Items
                     /\ pc[t] = "remove" => t \in Takers /\ request[t] = Nil

CallsWellFormed == \A t \in Threads : CallWellFormed(t)

QueueInv == /\ TypeOK
            /\ PermitsConserved
            /\ RingCoherent
            /\ CallsWellFormed
            /\ OccupiedSlotsHoldItems

-----------------------------------------------------------------------------
(* Arithmetic of the ring.                                                 *)

\* Indices wrap at most once.
LEMMA SlotValue ==
    ASSUME NEW C \in Nat \ {0}, NEW h \in 0 .. C - 1, NEW i \in 0 .. C
    PROVE  /\ (h + i) % C = IF h + i < C THEN h + i ELSE h + i - C
           /\ (h + i) % C \in 0 .. C - 1
  <1>1. CASE h + i < C
    <2>1. h + i \in 0 .. C - 1
      BY <1>1
    <2> QED BY <2>1, <1>1
  <1>2. CASE h + i >= C
    <2>1. h + i \in C .. 2 * C - 1
      BY <1>2
    <2>2. (h + i) % C = h + i - C
      BY <2>1
    <2> QED BY <2>2, <1>2
  <1> QED BY <1>1, <1>2

\* Fewer than C steps from a slot never lead to the same slot twice.
LEMMA SlotsDistinct ==
    ASSUME NEW C \in Nat \ {0}, NEW h \in 0 .. C - 1,
           NEW i \in 0 .. C - 1, NEW j \in 0 .. C - 1, i # j
    PROVE  (h + i) % C # (h + j) % C
  <1>1. i \in 0 .. C /\ j \in 0 .. C
    OBVIOUS
  <1>2. (h + i) % C = IF h + i < C THEN h + i ELSE h + i - C
    BY <1>1, SlotValue
  <1>3. (h + j) % C = IF h + j < C THEN h + j ELSE h + j - C
    BY <1>1, SlotValue
  <1> QED BY <1>2, <1>3

\* i steps from the slot after h are i + 1 steps from h.
LEMMA SlotAfter ==
    ASSUME NEW C \in Nat \ {0}, NEW h \in 0 .. C - 1, NEW i \in 0 .. C - 1
    PROVE  /\ (h + 1) % C \in 0 .. C - 1
           /\ (((h + 1) % C) + i) % C = (h + (i + 1)) % C
           /\ (((h + i) % C) + 1) % C = (h + (i + 1)) % C
  <1>1. 1 \in 0 .. C /\ i + 1 \in 0 .. C /\ i \in 0 .. C
    OBVIOUS
  <1>2. /\ (h + 1) % C = IF h + 1 < C THEN h + 1 ELSE h + 1 - C
        /\ (h + 1) % C \in 0 .. C - 1
    BY <1>1, SlotValue
  <1>3. /\ (h + i) % C = IF h + i < C THEN h + i ELSE h + i - C
        /\ (h + i) % C \in 0 .. C - 1
    BY <1>1, SlotValue
  <1>4. (h + (i + 1)) % C = IF h + (i + 1) < C THEN h + (i + 1) ELSE h + (i + 1) - C
    BY <1>1, SlotValue
  <1> DEFINE a == (h + 1) % C
             b == (h + i) % C
  <1>5. (a + i) % C = IF a + i < C THEN a + i ELSE a + i - C
    <2> HIDE DEF a
    <2> QED BY <1>1, <1>2, SlotValue DEF a
  <1>6. (b + 1) % C = IF b + 1 < C THEN b + 1 ELSE b + 1 - C
    <2> HIDE DEF b
    <2> QED BY <1>1, <1>3, SlotValue DEF b
  <1> QED BY <1>2, <1>3, <1>4, <1>5, <1>6

-----------------------------------------------------------------------------
(* Counting threads by where they are.                                     *)

LEMMA AtFinite ==
    ASSUME NEW label
    PROVE  IsFiniteSet(At(label)) /\ Cardinality(At(label)) \in Nat
  <1>1. IsFiniteSet(Threads)
    BY FS_Union, QueueAssumption DEF Threads
  <1>2. IsFiniteSet(At(label))
    BY <1>1, FS_Subset DEF At
  <1> QED BY <1>2, FS_CardinalityType

\* A thread that moves leaves one label and joins another.
LEMMA CountsAfterMove ==
    ASSUME pc \in [Threads -> PCs], NEW t \in Threads, NEW from, NEW to,
           pc[t] = from, from # to, pc' = [pc EXCEPT ![t] = to]
    PROVE  /\ Cardinality(At(from)') = Cardinality(At(from)) - 1
           /\ Cardinality(At(to)') = Cardinality(At(to)) + 1
           /\ \A other : other \notin {from, to} => At(other)' = At(other)
  <1>1. At(from)' = At(from) \ {t} /\ t \in At(from)
    BY DEF At
  <1>2. At(to)' = At(to) \cup {t} /\ t \notin At(to)
    BY DEF At
  <1>3. \A other : other \notin {from, to} => At(other)' = At(other)
    BY DEF At
  <1>4. Cardinality(At(from) \ {t}) = Cardinality(At(from)) - 1
    BY <1>1, AtFinite, FS_RemoveElement
  <1>5. Cardinality(At(to) \cup {t}) = Cardinality(At(to)) + 1
    BY <1>2, AtFinite, FS_AddElement
  <1> QED BY <1>1, <1>2, <1>3, <1>4, <1>5
-----------------------------------------------------------------------------
(* Type correctness.                                                       *)

LEMMA TypeInit == Init => TypeOK
  BY QueueAssumption DEF Init, TypeOK, Slots, PCs

LEMMA TypeStep == TypeOK /\ [Next]_vars => TypeOK'
  <1> SUFFICES ASSUME TypeOK, [Next]_vars PROVE TypeOK'
    OBVIOUS
  <1> USE QueueAssumption DEF TypeOK, Slots, PCs, ring, Released, GivesUp
  <1>1. ASSUME NEW t \in Threads, PutSteps(t) PROVE TypeOK'
    BY <1>1 DEF PutSteps, PutWait, PutTimeout
  <1>2. ASSUME NEW t \in Threads, ReturnSteps(t) PROVE TypeOK'
    BY <1>2 DEF ReturnSteps, ReturnWait, ReturnTimeout
  <1>3. ASSUME NEW t \in Threads, Insert(t) PROVE TypeOK'
    <2>1. NextSlot(tail) \in Slots
      BY SlotValue DEF NextSlot
    <2> QED BY <1>3, <2>1, SMTT(30) DEF Insert
  <1>4. ASSUME NEW t \in Threads, SignalNotEmpty(t) PROVE TypeOK'
    BY <1>4 DEF SignalNotEmpty
  <1>5. ASSUME NEW t \in Threads, TakeWait(t) \/ TakeTimeout(t) PROVE TypeOK'
    BY <1>5 DEF TakeWait, TakeTimeout
  <1>6. ASSUME NEW t \in Threads, Remove(t) PROVE TypeOK'
    <2>1. NextSlot(head) \in Slots
      BY SlotValue DEF NextSlot
    <2> QED BY <1>6, <2>1, SMTT(30) DEF Remove
  <1>7. ASSUME NEW t \in Threads, SignalNotFull(t) PROVE TypeOK'
    BY <1>7 DEF SignalNotFull
  <1>8. ASSUME NEW t \in Threads, Dispatched(t) PROVE TypeOK'
    BY <1>8 DEF Dispatched
  <1>9. CASE UNCHANGED vars
    BY <1>9 DEF vars
  <1> QED BY <1>1, <1>2, <1>3, <1>4, <1>5, <1>6, <1>7, <1>8, <1>9
          DEF Next, ThreadStep, InsertSteps, TakeSteps

(* Every variable keeps its type, whatever the threads and the capacity:   *)
(* in particular head and tail never leave the array.                      *)
THEOREM TypeCorrect == Spec => []TypeOK
  BY TypeInit, TypeStep, PTL DEF Spec

-----------------------------------------------------------------------------
(* Permits.                                                                *)

LEMMA PermitsInit == Init => PermitsConserved
  <1> SUFFICES ASSUME Init PROVE PermitsConserved
    OBVIOUS
  <1>1. \A label \in PCs \ {"idle"} : At(label) = {}
    BY DEF Init, At, PCs
  <1> QED BY <1>1, FS_EmptySet, QueueAssumption DEF Init, PermitsConserved, PCs

\* A semaphore is never released at its maximum, and no wait is in vain.
LEMMA PermitsImply ==
    ASSUME TypeOK, PermitsConserved
    PROVE  /\ PermitsHonoured
           /\ At("inserted") # {} => notEmpty < Capacity
           /\ At("removed") # {} => notFull < Capacity
  <1>1. \A label : At(label) # {} => Cardinality(At(label)) > 0
    BY AtFinite, FS_EmptySet
  <1>2. \A label : Cardinality(At(label)) \in Nat
    BY AtFinite
  <1> QED BY <1>1, <1>2, QueueAssumption DEF TypeOK, PermitsConserved, PermitsHonoured

LEMMA PermitsStep == TypeOK /\ PermitsConserved /\ [Next]_vars => PermitsConserved'
  <1> SUFFICES ASSUME TypeOK, PermitsConserved, [Next]_vars PROVE PermitsConserved'
    OBVIOUS
  <1> USE QueueAssumption DEF PermitsConserved, ring, GivesUp
  <1>0. /\ pc \in [Threads -> PCs]
        /\ count \in 0 .. Capacity /\ notEmpty \in 0 .. Capacity /\ notFull \in 0 .. Capacity
        /\ \A label : Cardinality(At(label)) \in Nat
    BY AtFinite DEF TypeOK
  <1>1. ASSUME pc' = pc, UNCHANGED <<count, notEmpty, notFull>> PROVE PermitsConserved'
    BY <1>1 DEF At
  <1>2. ASSUME NEW t \in Threads, PutWait(t) \/ ReturnWait(t) PROVE PermitsConserved'
    <2>1. pc[t] = "idle" /\ pc' = [pc EXCEPT ![t] = "insert"]
      BY <1>2 DEF PutWait, ReturnWait
    <2>2. /\ Cardinality(At("insert")') = Cardinality(At("insert")) + 1
          /\ \A l : l \notin {"idle", "insert"} => At(l)' = At(l)
      BY <1>0, <2>1, CountsAfterMove, ZenonT(40)
    <2> QED BY <1>0, <1>2, <2>2 DEF PutWait, ReturnWait
  <1>3. ASSUME NEW t \in Threads, PutTimeout(t) \/ ReturnTimeout(t) \/ TakeTimeout(t)
        PROVE  PermitsConserved'
    <2>1. pc' = pc /\ UNCHANGED <<count, notEmpty, notFull>>
      BY <1>0, <1>3 DEF PutTimeout, ReturnTimeout, TakeTimeout
    <2> QED BY <1>1, <2>1
  <1>4. ASSUME NEW t \in Threads, Insert(t) PROVE PermitsConserved'
    <2>1. count < Capacity
      BY <1>0, <1>4, PermitsImply DEF PermitsHonoured, At, Insert
    <2>2. pc[t] = "insert" /\ pc' = [pc EXCEPT ![t] = "inserted"]
      BY <1>0, <1>4, <2>1 DEF Insert
    <2>3. /\ Cardinality(At("insert")') = Cardinality(At("insert")) - 1
          /\ Cardinality(At("inserted")') = Cardinality(At("inserted")) + 1
          /\ \A l : l \notin {"insert", "inserted"} => At(l)' = At(l)
      BY <1>0, <2>2, CountsAfterMove, ZenonT(40)
    <2>4. count' = count + 1 /\ notEmpty' = notEmpty /\ notFull' = notFull
      BY <1>0, <1>4, <2>1 DEF Insert
    <2> QED BY <1>0, <2>3, <2>4
  <1>5. ASSUME NEW t \in Threads, SignalNotEmpty(t) PROVE PermitsConserved'
    <2>1. notEmpty < Capacity
      BY <1>0, <1>5, PermitsImply DEF At, SignalNotEmpty
    <2>2. pc[t] = "inserted" /\ pc' = [pc EXCEPT ![t] = "idle"]
      BY <1>5 DEF SignalNotEmpty
    <2>3. /\ Cardinality(At("inserted")') = Cardinality(At("inserted")) - 1
          /\ \A l : l \notin {"inserted", "idle"} => At(l)' = At(l)
      BY <1>0, <2>2, CountsAfterMove, ZenonT(40)
    <2>4. count' = count /\ notEmpty' = notEmpty + 1 /\ notFull' = notFull
      BY <1>0, <1>5, <2>1 DEF SignalNotEmpty, Released
    <2> QED BY <1>0, <2>3, <2>4
  <1>6. ASSUME NEW t \in Threads, TakeWait(t) PROVE PermitsConserved'
    <2>1. pc[t] = "idle" /\ pc' = [pc EXCEPT ![t] = "remove"]
      BY <1>6 DEF TakeWait
    <2>2. /\ Cardinality(At("remove")') = Cardinality(At("remove")) + 1
          /\ \A l : l \notin {"idle", "remove"} => At(l)' = At(l)
      BY <1>0, <2>1, CountsAfterMove, ZenonT(40)
    <2> QED BY <1>0, <1>6, <2>2 DEF TakeWait
  <1>7. ASSUME NEW t \in Threads, Remove(t) PROVE PermitsConserved'
    <2>1. count > 0
      BY <1>0, <1>7, PermitsImply DEF PermitsHonoured, At, Remove
    <2>2. pc[t] = "remove" /\ pc' = [pc EXCEPT ![t] = "removed"]
      BY <1>0, <1>7, <2>1 DEF Remove
    <2>3. /\ Cardinality(At("remove")') = Cardinality(At("remove")) - 1
          /\ Cardinality(At("removed")') = Cardinality(At("removed")) + 1
          /\ \A l : l \notin {"remove", "removed"} => At(l)' = At(l)
      BY <1>0, <2>2, CountsAfterMove, ZenonT(40)
    <2>4. count' = count - 1 /\ notEmpty' = notEmpty /\ notFull' = notFull
      BY <1>0, <1>7, <2>1 DEF Remove
    <2> QED BY <1>0, <2>3, <2>4
  <1>8. ASSUME NEW t \in Threads, SignalNotFull(t) PROVE PermitsConserved'
    <2>1. notFull < Capacity
      BY <1>0, <1>8, PermitsImply DEF At, SignalNotFull
    <2>2. pc[t] = "removed" /\ pc' = [pc EXCEPT ![t] = "idle"]
      BY <1>8 DEF SignalNotFull
    <2>3. /\ Cardinality(At("removed")') = Cardinality(At("removed")) - 1
          /\ \A l : l \notin {"removed", "idle"} => At(l)' = At(l)
      BY <1>0, <2>2, CountsAfterMove, ZenonT(40)
    <2>4. count' = count /\ notEmpty' = notEmpty /\ notFull' = notFull + 1
      BY <1>0, <1>8, <2>1 DEF SignalNotFull, Released
    <2> QED BY <1>0, <2>3, <2>4
  <1>9. ASSUME NEW t \in Threads, Dispatched(t) PROVE PermitsConserved'
    BY <1>1, <1>9 DEF Dispatched
  <1>10. CASE UNCHANGED vars
    BY <1>1, <1>10 DEF vars
  <1> QED BY <1>2, <1>3, <1>4, <1>5, <1>6, <1>7, <1>8, <1>9, <1>10
          DEF Next, ThreadStep, PutSteps, ReturnSteps, InsertSteps, TakeSteps

(* No permit is lost or created: the two semaphores and the threads inside *)
(* their calls always account for every slot and every entry.              *)
THEOREM PermitConservation == Spec => []PermitsConserved
  <1>1. TypeOK /\ [Next]_vars /\ PermitsConserved => PermitsConserved'
    BY PermitsStep
  <1> QED BY PermitsInit, <1>1, TypeCorrect, PTL DEF Spec

(* A thread that got past its wait never finds the queue full (to put) or  *)
(* empty (to take): the branches that would leak a permit cannot run.      *)
THEOREM PermitsAreHonoured == Spec => []PermitsHonoured
  <1>1. TypeOK /\ PermitsConserved => PermitsHonoured
    BY PermitsImply
  <1> QED BY <1>1, TypeCorrect, PermitConservation, PTL

-----------------------------------------------------------------------------
(* The ring.                                                               *)

LEMMA RingInit == Init => RingCoherent /\ CallsWellFormed /\ OccupiedSlotsHoldItems
  <1>1. Init => RingCoherent
    BY QueueAssumption DEF Init, RingCoherent
  <1>2. Init => CallsWellFormed
    BY DEF Init, CallsWellFormed, CallWellFormed
  <1>3. Init => OccupiedSlotsHoldItems
    BY QueueAssumption DEF Init, OccupiedSlotsHoldItems
  <1> QED BY <1>1, <1>2, <1>3

\* What Insert does, once the queue is known to have room.
LEMMA InsertEffect ==
    ASSUME QueueInv, NEW t \in Threads, Insert(t)
    PROVE  /\ count < Capacity
           /\ request[t] \in Items
           /\ pc[t] = "insert" /\ pc' = [pc EXCEPT ![t] = "inserted"]
           /\ request' = [request EXCEPT ![t] = Nil]
           /\ tail = (head + count) % Capacity
           /\ queue' = [queue EXCEPT ![tail] = request[t]]
           /\ head' = head /\ count' = count + 1
           /\ tail' = (head + (count + 1)) % Capacity
  <1> USE QueueAssumption DEF QueueInv, TypeOK, Slots
  <1>1. count < Capacity
    BY PermitsImply DEF PermitsHonoured, At, Insert
  <1>2. count \in 0 .. Capacity - 1
    BY <1>1
  <1>3. (((head + count) % Capacity) + 1) % Capacity = (head + (count + 1)) % Capacity
    BY <1>2, SlotAfter
  <1> QED BY <1>1, <1>3 DEF Insert, RingCoherent, NextSlot, CallsWellFormed, CallWellFormed

\* What Remove does, once the queue is known to have an entry.
LEMMA RemoveEffect ==
    ASSUME QueueInv, NEW t \in Threads, Remove(t)
    PROVE  /\ count > 0
           /\ queue[head] \in Items
           /\ pc[t] = "remove" /\ pc' = [pc EXCEPT ![t] = "removed"]
           /\ request' = [request EXCEPT ![t] = queue[head]]
           /\ queue' = queue /\ tail' = tail
           /\ head' = (head + 1) % Capacity /\ count' = count - 1
  <1> USE QueueAssumption DEF QueueInv, TypeOK, Slots
  <1>1. count > 0
    BY PermitsImply DEF PermitsHonoured, At, Remove
  <1>2. 0 \in 0 .. Capacity - 1 /\ 0 < count
    BY <1>1
  <1>3. (head + 0) % Capacity = head
    OBVIOUS
  <1>4. queue[head] \in Items
    BY <1>2, <1>3 DEF OccupiedSlotsHoldItems
  <1> QED BY <1>1, <1>4 DEF Remove, NextSlot

\* Steps outside the two critical sections leave the ring alone.
LEMMA RingUntouched ==
    ASSUME QueueInv, [Next]_vars, \A t \in Threads : ~Insert(t) /\ ~Remove(t)
    PROVE  UNCHANGED ring
  BY DEF Next, vars, ring, ThreadStep, InsertSteps, PutSteps, ReturnSteps, TakeSteps,
         SignalNotEmpty, PutWait, PutTimeout, ReturnWait, ReturnTimeout, TakeWait,
         TakeTimeout, SignalNotFull, Dispatched

LEMMA CallsStep == QueueInv /\ [Next]_vars => CallsWellFormed'
  <1> SUFFICES ASSUME QueueInv, [Next]_vars, NEW t \in Threads
               PROVE  CallWellFormed(t)'
    BY DEF CallsWellFormed, CallWellFormed
  <1> USE QueueAssumption DEF QueueInv, TypeOK, CallsWellFormed, CallWellFormed, GivesUp
  <1>1. ASSUME NEW u \in Threads, ThreadStep(u) PROVE CallWellFormed(t)'
    <2>1. CASE Insert(u)
      BY <1>1, <2>1, InsertEffect
    <2>2. CASE Remove(u)
      BY <1>1, <2>2, RemoveEffect
    <2>3. CASE PutSteps(u)
      BY <2>3 DEF PutSteps, PutWait, PutTimeout
    <2>4. CASE ReturnSteps(u)
      BY <2>4 DEF ReturnSteps, ReturnWait, ReturnTimeout
    <2>5. CASE SignalNotEmpty(u) \/ TakeWait(u) \/ TakeTimeout(u)
      BY <2>5 DEF SignalNotEmpty, TakeWait, TakeTimeout
    <2>6. CASE SignalNotFull(u) \/ Dispatched(u)
      BY <2>6 DEF SignalNotFull, Dispatched
    <2> QED BY <1>1, <2>1, <2>2, <2>3, <2>4, <2>5, <2>6
            DEF ThreadStep, InsertSteps, TakeSteps
  <1>2. CASE UNCHANGED vars
    BY <1>2 DEF vars
  <1> QED BY <1>1, <1>2 DEF Next

LEMMA RingStep == QueueInv /\ [Next]_vars => RingCoherent' /\ OccupiedSlotsHoldItems'
  <1> SUFFICES ASSUME QueueInv, [Next]_vars
               PROVE  RingCoherent' /\ OccupiedSlotsHoldItems'
    OBVIOUS
  <1>0. /\ head \in 0 .. Capacity - 1 /\ count \in 0 .. Capacity
        /\ Capacity \in Nat \ {0}
        /\ tail = (head + count) % Capacity
        /\ queue \in [Slots -> Items \cup {Nil}]
        /\ \A i \in 0 .. Capacity - 1 : i < count => queue[(head + i) % Capacity] \in Items
    BY QueueAssumption DEF QueueInv, TypeOK, Slots, RingCoherent, OccupiedSlotsHoldItems
  <1>1. ASSUME NEW t \in Threads, Insert(t)
        PROVE  RingCoherent' /\ OccupiedSlotsHoldItems'
    <2>1. RingCoherent'
      BY <1>1, InsertEffect DEF RingCoherent
    <2>2. ASSUME NEW i \in 0 .. Capacity - 1, i < count + 1
          PROVE  queue'[(head + i) % Capacity] \in Items
      <3>1. CASE i = count
        <4>1. (head + i) % Capacity = tail /\ tail \in Slots
          BY <1>0, <3>1, SlotValue DEF Slots
        <4> QED BY <1>0, <1>1, <4>1, InsertEffect
      <3>2. CASE i # count
        <4>1. i < count /\ count \in 0 .. Capacity - 1
          BY <1>0, <1>1, <2>2, <3>2, InsertEffect
        <4>2. (head + i) % Capacity # tail
          BY <1>0, <3>2, <4>1, SlotsDistinct
        <4>3. (head + i) % Capacity \in Slots
          BY <1>0, SlotValue DEF Slots
        <4> QED BY <1>0, <1>1, <4>1, <4>2, <4>3, InsertEffect
      <3> QED BY <3>1, <3>2
    <2> QED BY <1>1, <2>1, <2>2, InsertEffect DEF OccupiedSlotsHoldItems
  <1>2. ASSUME NEW t \in Threads, Remove(t)
        PROVE  RingCoherent' /\ OccupiedSlotsHoldItems'
    <2>0. count > 0 /\ count - 1 \in 0 .. Capacity - 1
      BY <1>0, <1>2, RemoveEffect
    <2>1. RingCoherent'
      <3>1. (((head + 1) % Capacity) + (count - 1)) % Capacity = (head + ((count - 1) + 1)) % Capacity
        BY <1>0, <2>0, SlotAfter
      <3> QED BY <1>0, <1>2, <2>0, <3>1, RemoveEffect DEF RingCoherent
    <2>2. ASSUME NEW i \in 0 .. Capacity - 1, i < count - 1
          PROVE  queue[(((head + 1) % Capacity) + i) % Capacity] \in Items
      <3>1. (((head + 1) % Capacity) + i) % Capacity = (head + (i + 1)) % Capacity
        BY <1>0, SlotAfter
      <3>2. i + 1 \in 0 .. Capacity - 1 /\ i + 1 < count
        BY <1>0, <2>2
      <3> QED BY <1>0, <3>1, <3>2
    <2> QED BY <1>2, <2>1, <2>2, RemoveEffect DEF OccupiedSlotsHoldItems
  <1>3. CASE \A t \in Threads : ~Insert(t) /\ ~Remove(t)
    <2>1. UNCHANGED <<queue, head, tail, count>>
      BY <1>3, RingUntouched DEF ring
    <2> QED BY <1>0, <2>1 DEF RingCoherent, OccupiedSlotsHoldItems
  <1> QED BY <1>1, <1>2, <1>3

LEMMA QueueInvStep == QueueInv /\ [Next]_vars => QueueInv'
  BY TypeStep, PermitsStep, RingStep, CallsStep DEF QueueInv

(* The strengthening holds throughout: types, permits, ring and the calls   *)
(* in progress fit together, for every capacity and set of threads.        *)
THEOREM QueueInvariance == Spec => []QueueInv
  <1>1. Init => QueueInv
    BY TypeInit, PermitsInit, RingInit DEF QueueInv
  <1> QED BY <1>1, QueueInvStep, PTL DEF Spec

(* The tail index is always count slots ahead of the head, around the end  *)
(* of the array.                                                           *)
THEOREM RingIsCoherent == Spec => []RingCoherent
  <1>1. QueueInv => RingCoherent
    BY DEF QueueInv
  <1> QED BY <1>1, QueueInvariance, PTL

(* A take never hands out a slot that no put has filled.                   *)
THEOREM OccupiedSlotsAreFilled == Spec => []OccupiedSlotsHoldItems
  <1>1. QueueInv => OccupiedSlotsHoldItems
    BY DEF QueueInv
  <1> QED BY <1>1, QueueInvariance, PTL

-----------------------------------------------------------------------------
(* The queue implements FifoQueue: Insert by a putter appends, Insert by a *)
(* taker gives back, Remove removes the head; a dispatched or lost request *)
(* is discarded; every other step is invisible.                            *)

abstractVars == <<Contents, [t \in Takers |-> request[t]]>>

\* What the contents are, read off the ring.
ContentsRead == /\ Contents \in Seq(Items)
                /\ Len(Contents) = count
                /\ \A i \in 1 .. count : Contents[i] = queue[(head + (i - 1)) % Capacity]

LEMMA ContentsOfRing == QueueInv => ContentsRead
  <1> SUFFICES ASSUME QueueInv PROVE ContentsRead
    OBVIOUS
  <1> USE QueueAssumption DEF QueueInv, TypeOK
  <1>1. \A i \in 1 .. count : head + i - 1 = head + (i - 1)
    BY DEF Slots
  <1>2. \A i \in 1 .. count : i - 1 \in 0 .. Capacity - 1 /\ i - 1 < count
    OBVIOUS
  <1>3. \A i \in 1 .. count : queue[(head + (i - 1)) % Capacity] \in Items
    BY <1>2 DEF OccupiedSlotsHoldItems
  <1>4. Contents \in [1 .. count -> Items] /\ count \in Nat
    BY <1>1, <1>3 DEF Contents
  <1>5. \A i \in 1 .. count : Contents[i] = queue[(head + (i - 1)) % Capacity]
    BY <1>1 DEF Contents
  <1> QED BY <1>4, <1>5 DEF ContentsRead

LEMMA ContentsOfRingNext == QueueInv' => ContentsRead'
  BY ContentsOfRing, PTL

\* Insert appends the request to the contents.
LEMMA InsertAppends ==
    ASSUME QueueInv, QueueInv', NEW t \in Threads, Insert(t)
    PROVE  Contents' = Append(Contents, request[t])
  <1> DEFINE longer == Append(Contents, request[t])
  <1>0. /\ head \in 0 .. Capacity - 1 /\ count \in 0 .. Capacity - 1
        /\ Capacity \in Nat \ {0} /\ queue \in [Slots -> Items \cup {Nil}]
        /\ head' = head /\ count' = count + 1
        /\ tail = (head + count) % Capacity /\ tail \in Slots
        /\ queue' = [queue EXCEPT ![tail] = request[t]] /\ request[t] \in Items
    BY QueueAssumption, InsertEffect DEF QueueInv, TypeOK, Slots
  <1>1. /\ Contents \in Seq(Items) /\ Len(Contents) = count
        /\ \A i \in 1 .. count : Contents[i] = queue[(head + (i - 1)) % Capacity]
    BY ContentsOfRing DEF ContentsRead
  <1>2. /\ Contents' \in Seq(Items) /\ Len(Contents') = count + 1
        /\ \A i \in 1 .. count + 1 : Contents'[i] = queue'[(head + (i - 1)) % Capacity]
    <2>1. /\ Contents' \in Seq(Items) /\ Len(Contents') = count'
          /\ \A i \in 1 .. count' : Contents'[i] = queue'[(head' + (i - 1)) % Capacity]
      BY ContentsOfRingNext DEF ContentsRead
    <2> QED BY <1>0, <2>1
  <1>3. ASSUME NEW i \in 1 .. count PROVE Contents'[i] = Contents[i]
    <2>1. i - 1 \in 0 .. Capacity - 1 /\ i - 1 \in 0 .. Capacity /\ i - 1 # count
      BY <1>0
    <2>2. (head + (i - 1)) % Capacity # tail /\ (head + (i - 1)) % Capacity \in Slots
      BY <1>0, <2>1, SlotsDistinct, SlotValue DEF Slots
    <2>3. queue'[(head + (i - 1)) % Capacity] = queue[(head + (i - 1)) % Capacity]
      BY <1>0, <2>2
    <2>4. i \in 1 .. count + 1
      BY <1>0
    <2>5. Contents'[i] = queue'[(head + (i - 1)) % Capacity]
      BY <1>2, <2>4
    <2>6. Contents[i] = queue[(head + (i - 1)) % Capacity]
      BY <1>1
    <2> QED BY <2>3, <2>5, <2>6
  <1>4. Contents'[count + 1] = request[t]
    <2>1. (head + ((count + 1) - 1)) % Capacity = tail
      BY <1>0
    <2> QED BY <1>0, <1>2, <2>1
  <1>5. longer \in Seq(Items) /\ Len(longer) = count + 1
    BY <1>0, <1>1
  <1>6. \A i \in 1 .. count + 1 : longer[i] = IF i <= count THEN Contents[i] ELSE request[t]
    BY <1>0, <1>1
  <1> HIDE DEF longer
  <1>7. \A i \in 1 .. count + 1 : Contents'[i] = longer[i]
    <2> SUFFICES ASSUME NEW i \in 1 .. count + 1 PROVE Contents'[i] = longer[i]
      OBVIOUS
    <2>1. CASE i \in 1 .. count
      BY <1>3, <1>6, <2>1
    <2>2. CASE i = count + 1
      BY <1>0, <1>4, <1>6, <2>2
    <2> QED BY <1>0, <2>1, <2>2
  <1>8. Contents' = longer
    BY <1>2, <1>5, <1>7, SeqEqual
  <1> QED BY <1>8 DEF longer

\* Remove hands the head of the contents to its caller.
LEMMA RemoveTakesHead ==
    ASSUME QueueInv, QueueInv', NEW t \in Threads, Remove(t)
    PROVE  /\ Contents # << >>
           /\ Contents' = Tail(Contents)
           /\ request' = [request EXCEPT ![t] = Head(Contents)]
  <1>0. /\ head \in 0 .. Capacity - 1 /\ count \in 1 .. Capacity
        /\ Capacity \in Nat \ {0}
        /\ head' = (head + 1) % Capacity /\ count' = count - 1 /\ queue' = queue
        /\ request' = [request EXCEPT ![t] = queue[head]]
    BY QueueAssumption, RemoveEffect DEF QueueInv, TypeOK, Slots
  <1>1. /\ Contents \in Seq(Items) /\ Len(Contents) = count
        /\ \A i \in 1 .. count : Contents[i] = queue[(head + (i - 1)) % Capacity]
    BY ContentsOfRing DEF ContentsRead
  <1>2. /\ Contents' \in Seq(Items) /\ Len(Contents') = count - 1
        /\ \A i \in 1 .. count - 1 :
              Contents'[i] = queue[(((head + 1) % Capacity) + (i - 1)) % Capacity]
    <2>1. /\ Contents' \in Seq(Items) /\ Len(Contents') = count'
          /\ \A i \in 1 .. count' : Contents'[i] = queue'[(head' + (i - 1)) % Capacity]
      BY ContentsOfRingNext DEF ContentsRead
    <2> QED BY <1>0, <2>1
  <1>3. Contents # << >>
    BY <1>0, <1>1
  <1>4. Head(Contents) = queue[head]
    <2>1. Head(Contents) = Contents[1]
      BY <1>1, <1>3
    <2>2. (head + (1 - 1)) % Capacity = head
      BY <1>0
    <2>3. 1 \in 1 .. count
      BY <1>0
    <2>4. Contents[1] = queue[(head + (1 - 1)) % Capacity]
      BY <1>1, <2>3
    <2> QED BY <2>1, <2>2, <2>4
  <1>5. /\ Tail(Contents) \in Seq(Items) /\ Len(Tail(Contents)) = count - 1
        /\ \A i \in 1 .. count - 1 : Tail(Contents)[i] = Contents[i + 1]
    BY <1>0, <1>1, <1>3, HeadTailProperties
  <1>6. ASSUME NEW i \in 1 .. count - 1 PROVE Contents'[i] = Tail(Contents)[i]
    <2>1. i - 1 \in 0 .. Capacity - 1 /\ (i - 1) + 1 = (i + 1) - 1 /\ i + 1 \in 1 .. count
      BY <1>0
    <2>2. (((head + 1) % Capacity) + (i - 1)) % Capacity = (head + ((i + 1) - 1)) % Capacity
      BY <1>0, <2>1, SlotAfter
    <2> QED BY <1>1, <1>2, <1>5, <2>1, <2>2
  <1>7. Contents' = Tail(Contents)
    BY <1>0, <1>2, <1>5, <1>6, SeqEqual
  <1> QED BY <1>0, <1>3, <1>4, <1>7

LEMMA RefinementStep ==
    QueueInv /\ QueueInv' /\ [Next]_vars => [Fifo!FifoNext]_(Fifo!fifoVars)
  <1> SUFFICES ASSUME QueueInv, QueueInv', [Next]_vars
               PROVE  [Fifo!FifoNext]_(Fifo!fifoVars)
    OBVIOUS
  <1> DEFINE held == [u \in Takers |-> request[u]]
  <1> USE DEF Fifo!FifoNext, Fifo!fifoVars, Fifo!Append1, Fifo!RemoveHead,
              Fifo!GiveBack, Fifo!Discard
  <1>0. /\ request \in [Threads -> Items \cup {Nil}] /\ Nil \notin Items
        /\ Takers \subseteq Threads /\ Putters \cap Takers = {}
    BY QueueAssumption DEF QueueInv, TypeOK, Threads
  <1>1. ASSUME NEW t \in Threads, Insert(t)
        PROVE  [Fifo!FifoNext]_(Fifo!fifoVars)
    <2>1. Contents' = Append(Contents, request[t]) /\ Len(Contents) < Capacity
      BY <1>1, InsertAppends, InsertEffect, ContentsOfRing DEF ContentsRead
    <2>2. request[t] \in Items /\ request' = [request EXCEPT ![t] = Nil]
      BY <1>1, InsertEffect
    <2>3. CASE t \in Takers
      <3>1. held[t] = request[t] /\ held' = [held EXCEPT ![t] = Nil]
        BY <1>0, <2>2, <2>3
      <3> QED BY <1>0, <2>1, <2>2, <2>3, <3>1
    <2>4. CASE t \notin Takers
      <3>1. held' = held
        BY <1>0, <2>2, <2>4
      <3> QED BY <2>1, <2>2, <3>1
    <2> QED BY <2>3, <2>4
  <1>2. ASSUME NEW t \in Threads, Remove(t)
        PROVE  [Fifo!FifoNext]_(Fifo!fifoVars)
    <2>0. t \in Takers /\ request[t] = Nil
      BY <1>2, RemoveEffect DEF QueueInv, CallsWellFormed, CallWellFormed
    <2>1. /\ Contents # << >>
          /\ Contents' = Tail(Contents)
          /\ request' = [request EXCEPT ![t] = Head(Contents)]
      BY <1>2, RemoveTakesHead
    <2>2. held[t] = Nil /\ held' = [held EXCEPT ![t] = Head(Contents)]
      BY <1>0, <2>0, <2>1
    <2> QED BY <2>0, <2>1, <2>2
  <1>3. ASSUME NEW t \in Threads, ThreadStep(t), ~Insert(t), ~Remove(t),
               UNCHANGED Contents
        PROVE  [Fifo!FifoNext]_(Fifo!fifoVars)
    <2>1. CASE request' = request
      BY <1>3, <2>1
    <2>2. CASE request' = [request EXCEPT ![t] = Nil]
      <3>1. CASE t \in Takers /\ request[t] # Nil
        <4>1. held[t] # Nil /\ held' = [held EXCEPT ![t] = Nil]
          BY <1>0, <2>2, <3>1
        <4> QED BY <1>3, <3>1, <4>1
      <3>2. CASE ~(t \in Takers /\ request[t] # Nil)
        <4>1. held' = held
          BY <1>0, <2>2, <3>2
        <4> QED BY <1>3, <4>1
      <3> QED BY <3>1, <3>2
    <2>3. CASE PutWait(t)
      <3>1. t \notin Takers /\ \E x \in Items : request' = [request EXCEPT ![t] = x]
        BY <1>0, <2>3 DEF PutWait
      <3>2. held' = held
        BY <1>0, <3>1
      <3> QED BY <1>3, <3>2
    <2> QED BY <1>3, <2>1, <2>2, <2>3
            DEF ThreadStep, InsertSteps, PutSteps, ReturnSteps, TakeSteps, GivesUp,
                SignalNotEmpty, PutTimeout, ReturnWait, ReturnTimeout, TakeWait,
                TakeTimeout, SignalNotFull, Dispatched
  <1>4. CASE \A t \in Threads : ~Insert(t) /\ ~Remove(t)
    <2>1. UNCHANGED Contents
      BY <1>4, RingUntouched DEF ring, Contents
    <2>2. CASE UNCHANGED vars
      BY <2>1, <2>2 DEF vars
    <2> QED BY <1>3, <1>4, <2>1, <2>2 DEF Next
  <1> QED BY <1>1, <1>2, <1>4

(* The circular buffer and its semaphores implement a bounded FIFO: every  *)
(* step of a thread appends one entry at the young end, removes the oldest *)
(* one, or leaves the contents alone.                                      *)
THEOREM QueueImplementsFifo == Spec => ImplementsFifo
  <1>1. Init => Fifo!FifoInit
    <2> SUFFICES ASSUME Init PROVE Fifo!FifoInit
      OBVIOUS
    <2>1. Contents = << >>
      BY DEF Init, Contents
    <2>2. [t \in Takers |-> request[t]] = [t \in Takers |-> Nil]
      BY DEF Init, Threads
    <2> QED BY <2>1, <2>2 DEF Fifo!FifoInit
  <1> QED BY <1>1, RefinementStep, QueueInvariance, PTL DEF Spec, ImplementsFifo, Fifo!FifoSpec

-----------------------------------------------------------------------------
(* The shutdown.                                                           *)

Stopped == {t \in Pollers : poller[t] = "done"}

(* Each permit of the finish signal is still there or went to a thread     *)
(* that has stopped; a receiver may also have stopped without one.         *)
PermitInv ==
    IF finishFlag
    THEN finishSignal + Cardinality(Stopped) + Cardinality(Finished) >= ThreadCount
    ELSE finishSignal = 0 /\ input = "run"

QuitInv == ShutdownTypeOK /\ PermitInv /\ (input = "run" <=> ~finishFlag)

-----------------------------------------------------------------------------
\* The sets that are counted are finite.
LEMMA ShutdownFinite == /\ IsFiniteSet(Stopped) /\ Cardinality(Stopped) \in Nat
                        /\ IsFiniteSet(Finished) /\ Cardinality(Finished) \in Nat
                        /\ ThreadCount \in Nat
<1>1. Stopped \in SUBSET Pollers /\ Finished \in SUBSET Connections
    BY DEF Stopped, Finished
<1>2. IsFiniteSet(Stopped) /\ IsFiniteSet(Finished)
    BY <1>1, FS_Subset, ShutdownAssumption
<1>3. Cardinality(Stopped) \in Nat /\ Cardinality(Finished) \in Nat
    BY <1>2, FS_CardinalityType
<1>4. ThreadCount \in Nat
    BY FS_CardinalityType, ShutdownAssumption DEF ThreadCount
<1> QED BY <1>2, <1>3, <1>4

\* No permit has been given at the start.
LEMMA QuitInvInit == ShutdownInit => QuitInv
<1> SUFFICES ASSUME ShutdownInit PROVE QuitInv
    OBVIOUS
<1>1. /\ finishSignal = 0 /\ input = "run" /\ main = "spin"
      /\ poller = [t \in Pollers |-> "run"] /\ receiver = [c \in Connections |-> "none"]
    BY DEF ShutdownInit
<1>2. ~finishFlag /\ finishFlag \in BOOLEAN
    BY Zenon DEF ShutdownInit
<1> QED BY <1>1, <1>2, ShutdownFinite DEF QuitInv, ShutdownTypeOK, PermitInv

-----------------------------------------------------------------------------
\* A step that changes neither the permits nor who has stopped.
LEMMA ShutdownUnrelated ==
    ASSUME QuitInv, finishFlag' = finishFlag, finishSignal' = finishSignal, input' = input,
           Stopped' = Stopped, Cardinality(Finished') >= Cardinality(Finished),
           Cardinality(Finished') \in Nat
    PROVE  PermitInv' /\ (input' = "run" <=> ~finishFlag')
BY ShutdownFinite DEF QuitInv, ShutdownTypeOK, PermitInv

\* The input handler gives all permits at once.
LEMMA QuitsStep == QuitInv /\ InputQuits => QuitInv'
<1> SUFFICES ASSUME QuitInv, InputQuits PROVE QuitInv'
    OBVIOUS
<1>1. /\ input = "run" /\ input' = "done" /\ finishFlag'
      /\ UNCHANGED <<poller, receiver, main>>
    BY DEF InputQuits, SetFinishSignal
<1>2. finishSignal = 0
    BY <1>1 DEF QuitInv, PermitInv
<1>3. finishSignal' = ThreadCount
    BY <1>2, ShutdownFinite DEF InputQuits, SetFinishSignal
<1>4. Stopped' = Stopped /\ Finished' = Finished
    BY <1>1 DEF Stopped, Finished
<1>5. PermitInv'
    BY <1>1, <1>3, <1>4, ShutdownFinite DEF PermitInv
<1>6. finishFlag' \in BOOLEAN
    BY DEF InputQuits, SetFinishSignal
<1> QED BY <1>1, <1>3, <1>5, <1>6, ShutdownFinite DEF QuitInv, ShutdownTypeOK

\* A listener or dispatcher exchanges a permit for its end.
LEMMA PollerStep ==
    ASSUME QuitInv, NEW t \in Pollers, PollerStops(t) PROVE QuitInv'
<1>1. /\ poller[t] = "run" /\ finishSignal > 0 /\ finishSignal' = finishSignal - 1
      /\ poller' = [poller EXCEPT ![t] = "done"]
      /\ UNCHANGED <<finishFlag, input, receiver, main>>
    BY DEF PollerStops
<1>2. finishFlag
    BY <1>1 DEF QuitInv, PermitInv
<1>3. Stopped' = Stopped \cup {t} /\ t \notin Stopped /\ Finished' = Finished
    BY <1>1 DEF Stopped, Finished, QuitInv, ShutdownTypeOK
<1>4. Cardinality(Stopped') = Cardinality(Stopped) + 1
    BY <1>3, ShutdownFinite, FS_AddElement
<1>5. PermitInv'
    BY <1>1, <1>2, <1>3, <1>4, ShutdownFinite DEF QuitInv, ShutdownTypeOK, PermitInv
<1>6. ShutdownTypeOK'
    BY <1>1, ShutdownFinite DEF QuitInv, ShutdownTypeOK
<1> QED BY <1>1, <1>5, <1>6 DEF QuitInv

\* So does a receiver, but it may also end without one.
LEMMA ConnectionStep ==
    ASSUME QuitInv, NEW c \in Connections, Connect(c) \/ ReceiverStep(c) PROVE QuitInv'
<1>1. CASE Connect(c)
    <2>1. /\ receiver[c] = "none" /\ receiver' = [receiver EXCEPT ![c] = "poll"]
          /\ UNCHANGED <<finishFlag, finishSignal, input, poller, main>>
        BY <1>1 DEF Connect
    <2>2. Stopped' = Stopped /\ Finished' = Finished
        BY <2>1 DEF Stopped, Finished, QuitInv, ShutdownTypeOK
    <2>3. PermitInv' /\ (input' = "run" <=> ~finishFlag')
        BY <2>1, <2>2, ShutdownUnrelated, ShutdownFinite
    <2> QED BY <2>1, <2>3 DEF QuitInv, ShutdownTypeOK
<1>2. CASE ReceiverPolls(c) /\ finishSignal > 0
    <2>1. /\ receiver[c] = "poll" /\ receiver' = [receiver EXCEPT ![c] = "close"]
          /\ finishSignal' = finishSignal - 1
          /\ UNCHANGED <<finishFlag, input, poller, main>>
        BY <1>2 DEF ReceiverPolls
    <2>2. finishFlag
        BY <1>2 DEF QuitInv, PermitInv
    <2>3. Stopped' = Stopped /\ Finished' = Finished \cup {c} /\ c \notin Finished
        BY <2>1 DEF Stopped, Finished, QuitInv, ShutdownTypeOK
    <2>4. Cardinality(Finished') = Cardinality(Finished) + 1
        BY <2>3, ShutdownFinite, FS_AddElement
    <2>5. PermitInv'
        BY <2>1, <2>2, <2>3, <2>4, ShutdownFinite DEF QuitInv, ShutdownTypeOK, PermitInv
    <2>6. ShutdownTypeOK'
        BY <1>2, <2>1, ShutdownFinite DEF QuitInv, ShutdownTypeOK
    <2> QED BY <2>1, <2>5, <2>6 DEF QuitInv
<1>3. CASE (ReceiverPolls(c) /\ ~(finishSignal > 0)) \/ ReceiverReceives(c) \/ ReceiverCloses(c)
    <2>1. PICK next \in {"receive", "poll", "close", "done"} :
             /\ receiver' = [receiver EXCEPT ![c] = next]
             /\ receiver[c] = "close" => next = "done"
             /\ receiver[c] \in {"poll", "receive", "close"}
             /\ UNCHANGED <<finishFlag, finishSignal, input, poller, main>>
        BY <1>3 DEF ReceiverPolls, ReceiverReceives, ReceiverCloses
    <2>2. Stopped' = Stopped
        BY <2>1 DEF Stopped
    <2>3. Finished' = Finished \/ Finished' = Finished \cup {c}
        BY <2>1 DEF Finished, QuitInv, ShutdownTypeOK
    <2>4. Cardinality(Finished') >= Cardinality(Finished) /\ Cardinality(Finished') \in Nat
        <3>1. Cardinality(Finished \cup {c}) \in {Cardinality(Finished), Cardinality(Finished) + 1}
            BY ShutdownFinite, FS_AddElement
        <3> QED BY <2>3, <3>1, ShutdownFinite
    <2>5. PermitInv' /\ (input' = "run" <=> ~finishFlag')
        BY <2>1, <2>2, <2>4, ShutdownUnrelated
    <2>6. ShutdownTypeOK'
        BY <2>1 DEF QuitInv, ShutdownTypeOK
    <2> QED BY <2>5, <2>6 DEF QuitInv
<1> QED BY <1>1, <1>2, <1>3 DEF ReceiverStep

\* main takes no permit.
LEMMA QuitInvStep == QuitInv /\ [ShutdownNext]_shutdownVars => QuitInv'
<1> SUFFICES ASSUME QuitInv, [ShutdownNext]_shutdownVars PROVE QuitInv'
    OBVIOUS
<1>1. CASE MainSeesFlag \/ MainDestroys \/ UNCHANGED shutdownVars
    <2>1. /\ UNCHANGED <<finishFlag, finishSignal, input, poller, receiver>>
          /\ main' \in {"join", "cleaned", main}
        BY <1>1 DEF MainSeesFlag, MainDestroys, shutdownVars
    <2>2. Stopped' = Stopped /\ Finished' = Finished
        BY <2>1 DEF Stopped, Finished
    <2>3. PermitInv' /\ (input' = "run" <=> ~finishFlag')
        BY <2>1, <2>2, ShutdownUnrelated, ShutdownFinite
    <2> QED BY <2>1, <2>3 DEF QuitInv, ShutdownTypeOK
<1> QED BY <1>1, QuitsStep, PollerStep, ConnectionStep DEF ShutdownNext

-----------------------------------------------------------------------------
\* The permits of the finish signal are accounted for throughout.
THEOREM QuitInvariance == ShutdownSpec => []QuitInv
BY QuitInvInit, QuitInvStep, PTL DEF ShutdownSpec

\* Every variable keeps its type, for any number of connections.
THEOREM ShutdownTypeCorrect == ShutdownSpec => []ShutdownTypeOK
<1>1. QuitInv => ShutdownTypeOK
    BY DEF QuitInv
<1> QED BY <1>1, QuitInvariance, PTL

(* The permits fall short of the listeners and dispatchers still running   *)
(* by less than the receivers that have ended, for any number of           *)
(* connections (Context.c:162-173).                                        *)
THEOREM PermitsAreEnough == ShutdownSpec => []PermitsSuffice
<1>1. QuitInv => PermitsSuffice
    <2> SUFFICES ASSUME QuitInv, finishFlag
                 PROVE  Cardinality(Running) + 1 <= finishSignal + Cardinality(Finished)
        BY DEF PermitsSuffice
    <2>1. finishSignal + Cardinality(Stopped) + Cardinality(Finished) >= ThreadCount
        BY DEF QuitInv, PermitInv
    <2>2. Running = Pollers \ Stopped /\ Pollers \cap Stopped = Stopped
        BY DEF Running, Stopped, QuitInv, ShutdownTypeOK
    <2>3. Cardinality(Running) = Cardinality(Pollers) - Cardinality(Stopped)
        BY <2>2, FS_Difference, ShutdownAssumption
    <2>4. Cardinality(Pollers) \in Nat
        BY FS_CardinalityType, ShutdownAssumption
    <2> QED BY <2>1, <2>3, <2>4, ShutdownFinite DEF ThreadCount, QuitInv, ShutdownTypeOK
<1> QED BY <1>1, QuitInvariance, PTL
=============================================================================
