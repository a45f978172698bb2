----------------------- MODULE ResponseDeliveryProofs -----------------------
(***************************************************************************)
(* Proofs about ResponseDelivery, for any number of clients, slots and     *)
(* requests: its types, that the pool is consistent and its slots owned,   *)
(* and that the unlocked lookup finds a client that is still there.        *)
(***************************************************************************)
EXTENDS ResponseDelivery, FiniteSetTheorems, SequenceTheorems, WellFoundedInduction, TLAPS

Served == {"serve", "closed", "returned", "done"}

(* SlotsOwned is not inductive without the order in which clients come:    *)
(* those the listener has not accepted have no receiver yet.               *)
OwnerInv ==
    /\ \A i \in Slots : i \in isAvailable <=> clientIds[i] = None
    /\ clientSockets = clientIds
    /\ \A c \in Clients : receiver[c] \in {"serve", "closed"}
          => slot[c] \in Slots /\ clientIds[slot[c]] = c
    /\ \A i \in Slots : clientIds[i] # None
          => receiver[clientIds[i]] \in {"serve", "closed"} /\ slot[clientIds[i]] = i
    /\ \A c \in Clients : receiver[c] = "none" <=> c >= nextClient
    /\ listener # "accept" => nextClient \in Clients

(* LiveClientAddressed: a response on its way is that of a client which    *)
(* had a slot, and a client that still has it is where the search stopped. *)
WayInv ==
    /\ \A r \in pending : receiver[r.client] \in Served
    /\ \A i \in 1 .. Len(responses) : receiver[responses[i].client] \in Served
    /\ dispatcher # "take" => response \in Responses /\ receiver[response.client] \in Served
    /\ dispatcher = "read" =>
          /\ found \in Slots
          /\ receiver[response.client] = "serve" => clientIds[found] = response.client
    /\ dispatcher = "send" => clientSocket \in Clients
    /\ LiveClientAddressed

PoolTypes == /\ clientIds \in [Slots -> Clients \cup {None}]
             /\ clientSockets \in [Slots -> Clients \cup {None}]
             /\ isAvailable \subseteq Slots
             /\ nextClient \in 1 .. NumClients + 1
             /\ listener \in {"accept", "assign", "assignEnter"}
             /\ receiver \in [Clients -> {"none", "serve", "closed", "returned", "done",
                                          "rejected"}]
             /\ slot \in [Clients -> Slots \cup {None}]

CountTypes == count \in 0 .. MaxClients /\ semaphore \in 0 .. MaxClients

WayTypes == /\ sent \in [Clients -> 0 .. MaxRequests]
            /\ pending \subseteq Responses
            /\ responses \in Seq(Responses)
            /\ dispatcher \in {"take", "lookup", "read", "send"}
            /\ response \in Responses \cup {None}
            /\ found \in Slots \cup {None}
            /\ clientSocket \in Clients \cup {None}
            /\ received \in [Clients -> SUBSET Responses]

DeliveryInv == PoolTypes /\ CountTypes /\ WayTypes /\ OwnerInv /\ PoolConsistent /\ WayInv

LEMMA NoneIsNobody == None \notin Clients /\ None \notin Slots /\ Clients \subseteq Nat
BY DeliveryAssumption DEF Clients, Slots

\* A set of slots that is not empty has a first one.
LEMMA FirstSlot ==
    ASSUME NEW A, A \subseteq Slots, A # {}
    PROVE  \E j \in A : \A k \in A : j <= k
<1> DEFINE R == OpToRel(<, Nat)
<1>1. A \subseteq Nat
    BY DeliveryAssumption DEF Slots
<1>2. IsWellFoundedOn(R, Nat)
    BY NatLessThanWellFounded
<1>3. \A j, k \in Nat : k < j => <<k, j>> \in R
    BY DEF OpToRel
<1> HIDE DEF R
<1>4. PICK j \in A : \A k \in A : ~ (<<k, j>> \in R)
    BY <1>1, <1>2, WFMin
<1>5. ASSUME NEW k \in A PROVE j <= k
    <2>1. j \in Nat /\ k \in Nat
        BY <1>1
    <2>2. ~ (k < j)
        BY <1>3, <1>4, <2>1, Zenon
    <2> QED BY <2>1, <2>2
<1> QED BY <1>5

LEMMA InitInv == Init => DeliveryInv
<1> SUFFICES ASSUME Init PROVE DeliveryInv
    OBVIOUS
<1> USE DeliveryAssumption, NoneIsNobody DEF Init
<1>1. PoolTypes /\ CountTypes
    BY DEF PoolTypes, CountTypes, Clients
<1>2. responses \in Seq(Responses) /\ Len(responses) = 0
    OBVIOUS
<1>3. WayTypes
    BY <1>2 DEF WayTypes
<1>4. OwnerInv
    BY DEF OwnerInv, Clients
<1>5. Returning = {} /\ isAvailable = Slots
    BY DEF Returning
<1>6. Cardinality(Slots) = MaxClients /\ Cardinality(Returning) = 0
    BY <1>5, FS_Interval, FS_EmptySet DEF Slots
<1>7. isAvailable # {}
    BY DEF Slots
<1>8. PoolConsistent
    BY <1>5, <1>6, <1>7 DEF PoolConsistent
<1>9. WayInv
    BY <1>2 DEF WayInv, LiveClientAddressed
<1> QED BY <1>1, <1>3, <1>4, <1>8, <1>9 DEF DeliveryInv

-----------------------------------------------------------------------------
(* The slots and their owners.                                             *)

LEMMA RejectKeeps ==
    ASSUME PoolTypes, OwnerInv, nextClient \in Clients, Reject,
           UNCHANGED <<clientIds, clientSockets, isAvailable, slot>>
    PROVE  OwnerInv' /\ PoolTypes' /\ Returning' = Returning
<1>1. receiver[nextClient] = "none"
    BY NoneIsNobody DEF OwnerInv
<1>2. /\ nextClient' = nextClient + 1 /\ listener' = "accept"
      /\ receiver' = [receiver EXCEPT ![nextClient] = "rejected"]
    BY DEF Reject
<1>3. PoolTypes'
    BY <1>2, DeliveryAssumption DEF PoolTypes, Clients
<1>4. OwnerInv'
    BY <1>1, <1>2, NoneIsNobody DEF PoolTypes, OwnerInv
<1>5. Returning' = Returning
    BY <1>1, <1>2 DEF Returning, PoolTypes
<1> QED BY <1>3, <1>4, <1>5

LEMMA OwnerStep ==
    ASSUME PoolTypes, OwnerInv, [Next]_vars
    PROVE  OwnerInv' /\ PoolTypes'
<1> USE NoneIsNobody
<1>1. CASE UNCHANGED <<clientIds, clientSockets, isAvailable, nextClient, listener, receiver, slot>>
    BY <1>1 DEF OwnerInv, PoolTypes
<1>2. CASE Accept
    <2>1. CASE count < MaxClients
        BY <1>2, <2>1 DEF Accept, OwnerInv, PoolTypes, poolVars
    <2>2. CASE ~(count < MaxClients)
        BY <1>2, <2>2, RejectKeeps DEF Accept, poolVars
    <2> QED BY <2>1, <2>2
<1>3. CASE AssignWait
    <2>1. nextClient \in Clients
        BY <1>3 DEF AssignWait, OwnerInv
    <2>2. CASE Reject
        BY <1>3, <2>1, <2>2, RejectKeeps DEF AssignWait
    <2>3. CASE UNCHANGED <<nextClient, receiver>> /\ listener' = "assignEnter"
        BY <1>3, <2>1, <2>3 DEF AssignWait, OwnerInv, PoolTypes
    <2> QED BY <1>3, <2>2, <2>3 DEF AssignWait
<1>4. CASE AssignEnter
    <2>0. nextClient \in Clients
        BY <1>4 DEF AssignEnter, OwnerInv
    <2>1. nextClient \in Clients /\ receiver[nextClient] = "none"
        BY <2>0 DEF OwnerInv
    <2>2. CASE isAvailable = {}
        BY <1>4, <2>1, <2>2, RejectKeeps DEF AssignEnter, poolVars
    <2>3. CASE isAvailable # {}
        <3> DEFINE i == CHOOSE j \in isAvailable : \A k \in isAvailable : j <= k
        <3>1. i \in isAvailable
            BY <2>3, FirstSlot DEF PoolTypes
        <3>2. /\ isAvailable' = isAvailable \ {i}
              /\ clientSockets' = [clientSockets EXCEPT ![i] = nextClient]
              /\ clientIds' = [clientIds EXCEPT ![i] = nextClient]
              /\ receiver' = [receiver EXCEPT ![nextClient] = "serve"]
              /\ slot' = [slot EXCEPT ![nextClient] = i]
              /\ listener' = "accept"
              /\ nextClient' = nextClient + 1
            BY <1>4, <2>3 DEF AssignEnter
        <3> HIDE DEF i
        <3>3. i \in Slots /\ clientIds[i] = None
            BY <3>1 DEF OwnerInv, PoolTypes
        <3>4. PoolTypes'
            BY <2>1, <3>2, <3>3, DeliveryAssumption DEF PoolTypes, Clients
        <3>5. OwnerInv'
            BY <2>1, <3>2, <3>3 DEF OwnerInv, PoolTypes
        <3> QED BY <3>4, <3>5
    <2> QED BY <2>2, <2>3
<1>5. ASSUME NEW c \in Clients, CloseClient(c) \/ ReturnSignal(c) PROVE OwnerInv' /\ PoolTypes'
    <2>1. CASE CloseClient(c)
        BY <2>1 DEF CloseClient, Moves, poolVars, listenerVars, OwnerInv, PoolTypes
    <2>2. CASE ReturnSignal(c)
        BY <2>2 DEF ReturnSignal, Moves, listenerVars, OwnerInv, PoolTypes
    <2> QED BY <1>5, <2>1, <2>2
<1>6. ASSUME NEW c \in Clients, ReturnEnter(c) PROVE OwnerInv' /\ PoolTypes'
    <2>1. receiver[c] = "closed" /\ slot[c] \in Slots /\ clientIds[slot[c]] = c
        BY <1>6 DEF ReturnEnter, Moves, OwnerInv
    <2>2. /\ receiver' = [receiver EXCEPT ![c] = "returned"]
          /\ isAvailable' = isAvailable \cup {slot[c]}
          /\ clientSockets' = [clientSockets EXCEPT ![slot[c]] = None]
          /\ clientIds' = [clientIds EXCEPT ![slot[c]] = None]
          /\ UNCHANGED <<nextClient, listener, slot>>
        BY <1>6 DEF ReturnEnter, Moves, listenerVars
    <2>3. PoolTypes'
        BY <2>1, <2>2 DEF PoolTypes
    <2>4. OwnerInv'
        BY <2>1, <2>2 DEF OwnerInv, PoolTypes
    <2> QED BY <2>3, <2>4
<1>7. CASE \/ \E c \in Clients : Request(c)
           \/ \E r \in pending : WorkerAnswers(r)
           \/ DispatcherStep \/ Quiet \/ UNCHANGED vars
    <2>1. UNCHANGED <<clientIds, clientSockets, isAvailable, nextClient, listener, receiver, slot>>
        BY <1>7 DEF Request, WorkerAnswers, DispatcherStep, TakeResponse, Lookup, ReadSocket,
           SendResponse, Quiet, vars, poolVars, listenerVars, receiverVars
    <2> QED BY <1>1, <2>1
<1> QED BY <1>2, <1>3, <1>4, <1>5, <1>6, <1>7 DEF Next, ListenerStep, ReturnStep

-----------------------------------------------------------------------------
(* The semaphore, the counter and the flags.                               *)

LEMMA PoolFinite ==
    ASSUME PoolTypes
    PROVE  /\ IsFiniteSet(isAvailable)
           /\ Cardinality(isAvailable) \in 0 .. MaxClients
           /\ IsFiniteSet(Returning)
           /\ Cardinality(Returning) \in Nat
<1>1. IsFiniteSet(Slots) /\ Cardinality(Slots) = MaxClients
    BY DeliveryAssumption, FS_Interval DEF Slots
<1>2. IsFiniteSet(isAvailable) /\ Cardinality(isAvailable) \in Nat
      /\ Cardinality(isAvailable) <= MaxClients
    BY <1>1, FS_Subset, FS_CardinalityType DEF PoolTypes
<1>3. IsFiniteSet(Clients)
    BY DeliveryAssumption, FS_Interval DEF Clients
<1>4. Returning \in SUBSET Clients
    BY DEF Returning
<1> QED BY <1>2, <1>3, <1>4, FS_Subset, FS_CardinalityType, DeliveryAssumption

LEMMA PermitStep ==
    ASSUME PoolTypes, CountTypes, OwnerInv, PoolConsistent, [Next]_vars
    PROVE  PoolConsistent' /\ CountTypes'
<1> USE DeliveryAssumption
<1> DEFINE Free == Cardinality(isAvailable)
           Entering == IF listener = "assignEnter" THEN 1 ELSE 0
<1>0. /\ IsFiniteSet(isAvailable) /\ Free \in 0 .. MaxClients
      /\ IsFiniteSet(Returning) /\ Cardinality(Returning) \in Nat
      /\ count = MaxClients - Free
      /\ Free = semaphore + Cardinality(Returning) + Entering
      /\ listener = "assignEnter" => isAvailable # {}
      /\ semaphore \in 0 .. MaxClients
    BY PoolFinite DEF PoolConsistent, CountTypes
<1>1. CASE /\ UNCHANGED <<isAvailable, count, semaphore>> /\ Returning' = Returning
           /\ listener' = "assignEnter" <=> listener = "assignEnter"
    BY <1>0, <1>1 DEF PoolConsistent, CountTypes
<1>2. CASE Accept
    <2>1. CASE Reject
        <3>1. Returning' = Returning
            BY <1>2, <2>1, RejectKeeps DEF Accept, poolVars
        <3> QED BY <1>1, <1>2, <2>1, <3>1 DEF Accept, Reject, poolVars
    <2>2. CASE listener' = "assign" /\ UNCHANGED receiver
        <3>1. Returning' = Returning
            BY <2>2 DEF Returning
        <3> QED BY <1>1, <1>2, <2>2, <3>1 DEF Accept, poolVars
    <2> QED BY <1>2, <2>1, <2>2 DEF Accept
<1>3. CASE AssignWait
    <2>1. listener = "assign" /\ UNCHANGED <<isAvailable, count>>
        BY <1>3 DEF AssignWait
    <2>2. CASE Reject /\ UNCHANGED semaphore
        <3>1. nextClient \in Clients
            BY <2>1 DEF OwnerInv
        <3>2. Returning' = Returning
            BY <1>3, <2>2, <3>1, RejectKeeps DEF AssignWait
        <3> QED BY <1>1, <2>1, <2>2, <3>2 DEF Reject
    <2>3. CASE semaphore > 0 /\ semaphore' = semaphore - 1 /\ listener' = "assignEnter"
               /\ UNCHANGED receiver
        <3>1. Returning' = Returning
            BY <2>3 DEF Returning
        <3>2. isAvailable # {}
            BY <1>0, <2>3, FS_EmptySet
        <3> QED BY <1>0, <2>1, <2>3, <3>1, <3>2 DEF PoolConsistent, CountTypes
    <2> QED BY <1>3, <2>2, <2>3 DEF AssignWait
<1>4. CASE AssignEnter
    <2> DEFINE i == CHOOSE j \in isAvailable : \A k \in isAvailable : j <= k
    <2>1. listener = "assignEnter" /\ isAvailable # {} /\ nextClient \in Clients
        BY <1>0, <1>4 DEF AssignEnter, OwnerInv
    <2>2. receiver[nextClient] = "none"
        BY <2>1, NoneIsNobody DEF OwnerInv
    <2>3. i \in isAvailable
        BY <2>1, FirstSlot DEF PoolTypes
    <2>4. /\ isAvailable' = isAvailable \ {i}
          /\ count' = count + 1 /\ semaphore' = semaphore
          /\ receiver' = [receiver EXCEPT ![nextClient] = "serve"]
          /\ listener' = "accept"
        BY <1>4, <2>1 DEF AssignEnter
    <2> HIDE DEF i
    <2>5. Cardinality(isAvailable') = Free - 1
        BY <1>0, <2>3, <2>4, FS_RemoveElement
    <2>6. Returning' = Returning
        BY <2>2, <2>4 DEF Returning, PoolTypes
    <2>7. Free > 0
        BY <1>0, <2>1, FS_EmptySet
    <2> QED BY <1>0, <2>1, <2>4, <2>5, <2>6, <2>7 DEF PoolConsistent, CountTypes
<1>5. ASSUME NEW c \in Clients, ReturnEnter(c) PROVE PoolConsistent' /\ CountTypes'
    <2>1. receiver[c] = "closed" /\ slot[c] \in Slots /\ clientIds[slot[c]] = c
        BY <1>5 DEF ReturnEnter, Moves, OwnerInv
    <2>2. slot[c] \notin isAvailable
        BY <2>1, NoneIsNobody DEF OwnerInv
    <2>3. /\ receiver' = [receiver EXCEPT ![c] = "returned"]
          /\ isAvailable' = isAvailable \cup {slot[c]}
          /\ count' = count - 1 /\ UNCHANGED <<semaphore, listener>>
        BY <1>5 DEF ReturnEnter, Moves, listenerVars
    <2>4. Returning' = Returning \cup {c} /\ c \notin Returning
        BY <2>1, <2>3 DEF Returning, PoolTypes
    <2>5. Cardinality(Returning') = Cardinality(Returning) + 1
        BY <1>0, <2>4, FS_AddElement
    <2>6. Cardinality(isAvailable') = Free + 1 /\ IsFiniteSet(isAvailable')
        BY <1>0, <2>2, <2>3, FS_AddElement
    <2>7. Cardinality(isAvailable') <= MaxClients
        <3>1. isAvailable' \in SUBSET Slots
            BY <2>1, <2>3 DEF PoolTypes
        <3>2. IsFiniteSet(Slots) /\ Cardinality(Slots) = MaxClients
            BY FS_Interval DEF Slots
        <3> QED BY <3>1, <3>2, FS_Subset
    <2>8. isAvailable' # {}
        BY <2>3
    <2> QED BY <1>0, <2>3, <2>5, <2>6, <2>7, <2>8 DEF PoolConsistent, CountTypes
<1>6. ASSUME NEW c \in Clients, ReturnSignal(c) PROVE PoolConsistent' /\ CountTypes'
    <2>1. /\ c \in Returning /\ receiver' = [receiver EXCEPT ![c] = "done"]
          /\ semaphore' = Released /\ UNCHANGED <<isAvailable, count, listener>>
        BY <1>6 DEF ReturnSignal, Moves, listenerVars, Returning
    <2>2. Returning' = Returning \ {c}
        BY <2>1 DEF Returning, PoolTypes
    <2>3. Cardinality(Returning') = Cardinality(Returning) - 1 /\ Cardinality(Returning) > 0
        <3>1. Cardinality(Returning \ {c}) = Cardinality(Returning) - 1
            BY <1>0, <2>1, FS_RemoveElement
        <3>2. Cardinality(Returning) # 0
            BY <1>0, <2>1, FS_EmptySet
        <3> QED BY <1>0, <2>2, <3>1, <3>2
    <2>4. semaphore < MaxClients
        BY <1>0, <2>3
    <2>5. semaphore' = semaphore + 1
        BY <2>1, <2>4 DEF Released
    <2> QED BY <1>0, <2>1, <2>3, <2>4, <2>5 DEF PoolConsistent, CountTypes
<1>7. ASSUME NEW c \in Clients, CloseClient(c) PROVE PoolConsistent' /\ CountTypes'
    <2>1. Returning' = Returning
        BY <1>7 DEF CloseClient, Moves, Returning, PoolTypes
    <2> QED BY <1>1, <1>7, <2>1 DEF CloseClient, Moves, poolVars, listenerVars
<1>8. CASE \/ \E c \in Clients : Request(c)
           \/ \E r \in pending : WorkerAnswers(r)
           \/ DispatcherStep \/ Quiet \/ UNCHANGED vars
    <2>1. UNCHANGED <<isAvailable, count, semaphore, listener, receiver>>
        BY <1>8 DEF Request, WorkerAnswers, DispatcherStep, TakeResponse, Lookup, ReadSocket,
           SendResponse, Quiet, vars, poolVars, listenerVars, receiverVars
    <2>2. Returning' = Returning
        BY <2>1 DEF Returning
    <2> QED BY <1>1, <2>1, <2>2
<1> QED BY <1>2, <1>3, <1>4, <1>5, <1>6, <1>7, <1>8 DEF Next, ListenerStep, ReturnStep

-----------------------------------------------------------------------------
(* The way of a response.                                                  *)

\* No step gives a slot to a client that had one, and a client that is served
\* before and after a step keeps its slot.
LEMMA ClientsMoveOn ==
    ASSUME PoolTypes, OwnerInv, [Next]_vars
    PROVE  /\ \A c \in Clients : receiver[c] \in Served =>
                 receiver'[c] \in Served /\ (receiver'[c] = "serve" => receiver[c] = "serve")
           /\ \A i \in Slots : clientIds[i] # None /\ receiver'[clientIds[i]] = "serve"
                                  => clientIds'[i] = clientIds[i]
<1> USE NoneIsNobody DEF Served
<1>1. CASE UNCHANGED <<clientIds, receiver>>
    BY <1>1
<1>2. ASSUME UNCHANGED clientIds, nextClient \in Clients, Reject
      PROVE  /\ \A c \in Clients : receiver[c] \in Served =>
                   receiver'[c] \in Served /\ (receiver'[c] = "serve" => receiver[c] = "serve")
             /\ \A i \in Slots : clientIds[i] # None /\ receiver'[clientIds[i]] = "serve"
                                    => clientIds'[i] = clientIds[i]
    <2>1. receiver[nextClient] = "none"
        BY <1>2 DEF OwnerInv
    <2> QED BY <1>2, <2>1 DEF Reject, PoolTypes
<1>3. CASE Accept \/ AssignWait
    BY <1>1, <1>2, <1>3 DEF Accept, AssignWait, poolVars, OwnerInv
<1>4. CASE AssignEnter
    <2> DEFINE i == CHOOSE j \in isAvailable : \A k \in isAvailable : j <= k
    <2>1. nextClient \in Clients
        BY <1>4 DEF AssignEnter, OwnerInv
    <2>2. receiver[nextClient] = "none"
        BY <2>1 DEF OwnerInv
    <2>3. CASE isAvailable = {}
        BY <1>2, <1>4, <2>1, <2>3 DEF AssignEnter, poolVars
    <2>4. CASE isAvailable # {}
        <3>1. i \in isAvailable
            BY <2>4, FirstSlot DEF PoolTypes
        <3>2. /\ clientIds' = [clientIds EXCEPT ![i] = nextClient]
              /\ receiver' = [receiver EXCEPT ![nextClient] = "serve"]
            BY <1>4, <2>4 DEF AssignEnter
        <3> HIDE DEF i
        <3>3. i \in Slots /\ clientIds[i] = None
            BY <3>1 DEF OwnerInv, PoolTypes
        <3> QED BY <2>1, <2>2, <3>2, <3>3 DEF PoolTypes
    <2> QED BY <2>3, <2>4
<1>5. ASSUME NEW c \in Clients, CloseClient(c) \/ ReturnSignal(c)
      PROVE  UNCHANGED clientIds /\ \A d \in Clients : receiver[d] \in Served =>
                 receiver'[d] \in Served /\ (receiver'[d] = "serve" => receiver[d] = "serve")
    BY <1>5 DEF CloseClient, ReturnSignal, Moves, poolVars, PoolTypes
<1>6. ASSUME NEW c \in Clients, ReturnEnter(c)
      PROVE  /\ \A d \in Clients : receiver[d] \in Served =>
                   receiver'[d] \in Served /\ (receiver'[d] = "serve" => receiver[d] = "serve")
             /\ \A i \in Slots : clientIds[i] # None /\ receiver'[clientIds[i]] = "serve"
                                    => clientIds'[i] = clientIds[i]
    <2>1. slot[c] \in Slots /\ clientIds[slot[c]] = c
        BY <1>6 DEF ReturnEnter, Moves, OwnerInv
    <2>2. /\ receiver' = [receiver EXCEPT ![c] = "returned"]
          /\ clientIds' = [clientIds EXCEPT ![slot[c]] = None]
        BY <1>6 DEF ReturnEnter, Moves
    <2> QED BY <2>1, <2>2 DEF PoolTypes
<1>7. CASE \/ \E c \in Clients : Request(c)
           \/ \E r \in pending : WorkerAnswers(r)
           \/ DispatcherStep \/ Quiet \/ UNCHANGED vars
    <2>1. UNCHANGED <<clientIds, receiver>>
        BY <1>7 DEF Request, WorkerAnswers, DispatcherStep, TakeResponse, Lookup, ReadSocket,
           SendResponse, Quiet, vars, poolVars, receiverVars
    <2> QED BY <1>1, <2>1
<1> QED BY <1>3, <1>4, <1>5, <1>6, <1>7 DEF Next, ListenerStep, ReturnStep

\* A step that leaves the responses alone leaves them on their way.
LEMMA WayKept ==
    ASSUME PoolTypes, OwnerInv, WayTypes, WayInv, [Next]_vars,
           UNCHANGED <<sent, pending, responses, dispatcherVars, received>>
    PROVE  WayInv' /\ WayTypes'
<1>1. /\ responses' = responses /\ pending' = pending /\ sent' = sent /\ received' = received
      /\ dispatcher' = dispatcher /\ response' = response /\ found' = found
      /\ clientSocket' = clientSocket
    BY DEF dispatcherVars
<1>2. WayTypes'
    BY <1>1 DEF WayTypes
<1>3. \A r \in Responses : r.client \in Clients
    BY DEF Responses
<1>4. \A i \in 1 .. Len(responses) : responses[i] \in Responses
    BY DEF WayTypes
<1>5. /\ \A r \in pending' : receiver'[r.client] \in Served
      /\ \A i \in 1 .. Len(responses') : receiver'[responses'[i].client] \in Served
    BY <1>1, <1>3, <1>4, ClientsMoveOn DEF WayInv, WayTypes
<1>6. dispatcher # "take" => /\ response \in Responses /\ response.client \in Clients
                             /\ receiver'[response.client] \in Served
                             /\ receiver'[response.client] = "serve"
                                   => receiver[response.client] = "serve"
    BY <1>3, ClientsMoveOn DEF WayInv
<1>7. dispatcher = "read" => /\ found \in Slots
                             /\ receiver'[response.client] = "serve"
                                   => clientIds'[found] = response.client
    BY <1>6, ClientsMoveOn, NoneIsNobody DEF WayInv
<1> QED BY <1>1, <1>2, <1>5, <1>6, <1>7 DEF WayInv, LiveClientAddressed

LEMMA WayStep ==
    ASSUME PoolTypes, OwnerInv, WayTypes, WayInv, [Next]_vars
    PROVE  WayInv' /\ WayTypes'
<1> USE NoneIsNobody
<1>0. \A r \in Responses : r.client \in Clients
    BY DEF Responses
<1>1. CASE ListenerStep \/ (\E c \in Clients : CloseClient(c) \/ ReturnStep(c)) \/ Quiet
           \/ UNCHANGED vars
    <2>1. UNCHANGED <<sent, pending, responses, dispatcherVars, received>>
        BY <1>1 DEF ListenerStep, Accept, AssignWait, AssignEnter, CloseClient, ReturnStep,
           ReturnEnter, ReturnSignal, Moves, Quiet, vars, receiverVars
    <2> QED BY <2>1, WayKept
<1>2. ASSUME NEW c \in Clients, Request(c) PROVE WayInv' /\ WayTypes'
    <2> DEFINE r == [client |-> c, n |-> sent[c] + 1]
    <2>1. /\ receiver[c] = "serve" /\ sent[c] < MaxRequests
          /\ sent' = [sent EXCEPT ![c] = @ + 1] /\ pending' = pending \cup {r}
          /\ receiver' = receiver /\ clientIds' = clientIds /\ responses' = responses
          /\ UNCHANGED <<dispatcher, response, found, clientSocket, received>>
        BY <1>2 DEF Request, dispatcherVars, poolVars
    <2>2. r \in Responses /\ r.client = c
        <3>1. sent[c] \in 0 .. MaxRequests
            BY DEF WayTypes
        <3>2. sent[c] + 1 \in 1 .. MaxRequests
            BY <2>1, <3>1, DeliveryAssumption
        <3> QED BY <3>2 DEF Responses
    <2>3. WayTypes'
        BY <2>1, <2>2, DeliveryAssumption DEF WayTypes
    <2> HIDE DEF r
    <2>4. WayInv'
        BY <2>1, <2>2 DEF WayInv, LiveClientAddressed, Served
    <2> QED BY <2>3, <2>4
<1>3. ASSUME NEW r \in pending, WorkerAnswers(r) PROVE WayInv' /\ WayTypes'
    <2>1. /\ pending' = pending \ {r} /\ receiver' = receiver /\ clientIds' = clientIds
          /\ responses' = Append(responses, r) \/ responses' = responses
          /\ UNCHANGED <<sent, dispatcher, response, found, clientSocket, received>>
        BY <1>3 DEF WorkerAnswers, dispatcherVars, poolVars, receiverVars
    <2>2. r \in Responses /\ receiver[r.client] \in Served
        BY DEF WayTypes, WayInv
    <2>3. /\ responses' \in Seq(Responses)
          /\ \A i \in 1 .. Len(responses') : receiver[responses'[i].client] \in Served
        <3>1. CASE responses' = responses
            BY <3>1 DEF WayTypes, WayInv
        <3>2. CASE responses' = Append(responses, r)
            <4>1. /\ responses' \in Seq(Responses) /\ Len(responses') = Len(responses) + 1
                  /\ \A i \in 1 .. Len(responses) : responses'[i] = responses[i]
                  /\ responses'[Len(responses) + 1] = r
                BY <2>2, <3>2, AppendProperties DEF WayTypes
            <4>2. Len(responses) \in Nat
                BY DEF WayTypes
            <4> QED BY <2>2, <4>1, <4>2 DEF WayInv
        <3> QED BY <2>1, <3>1, <3>2
    <2>4. WayTypes'
        BY <2>1, <2>3 DEF WayTypes
    <2>5. WayInv'
        BY <2>1, <2>3 DEF WayInv, LiveClientAddressed
    <2> QED BY <2>4, <2>5
<1>4. CASE TakeResponse
    <2>1. /\ responses # << >> /\ response' = Head(responses) /\ responses' = Tail(responses)
          /\ dispatcher' = "lookup" /\ receiver' = receiver
          /\ UNCHANGED <<sent, pending, found, clientSocket, received>>
        BY <1>4 DEF TakeResponse, receiverVars
    <2>2. /\ responses' \in Seq(Responses) /\ Len(responses') = Len(responses) - 1
          /\ \A i \in 1 .. Len(responses') : responses'[i] = responses[i + 1]
          /\ response' = responses[1] /\ response' \in Responses /\ Len(responses) \in Nat \ {0}
        BY <2>1, HeadTailProperties, EmptySeq DEF WayTypes
    <2>3. WayTypes'
        BY <2>1, <2>2 DEF WayTypes
    <2>4. receiver[response'.client] \in Served
        BY <2>2 DEF WayInv
    <2>5. \A i \in 1 .. Len(responses') : receiver[responses'[i].client] \in Served
        BY <2>2 DEF WayInv
    <2>6. WayInv'
        BY <2>1, <2>2, <2>4, <2>5 DEF WayInv, LiveClientAddressed
    <2> QED BY <2>3, <2>6
<1>5. CASE Lookup \/ ReadSocket \/ SendResponse
    <2>1. /\ UNCHANGED <<sent, pending, responses>> /\ receiver' = receiver
          /\ clientIds' = clientIds /\ dispatcher # "take"
        BY <1>5 DEF Lookup, ReadSocket, SendResponse, poolVars, receiverVars
    <2>2. response \in Responses /\ response.client \in Clients /\ receiver[response.client] \in Served
        BY <1>0, <2>1 DEF WayInv
    <2>3. CASE NextResponse /\ UNCHANGED received /\ clientSocket' \in Clients \cup {None}
        BY <2>1, <2>3 DEF NextResponse, WayInv, WayTypes, LiveClientAddressed
    <2>4. CASE Lookup
        <3>1. CASE \E i \in Slots : clientIds[i] = response.client
            <4>1. found' \in Slots /\ clientIds[found'] = response.client
                BY <2>4, <3>1 DEF Lookup
            <4>2. dispatcher' = "read" /\ UNCHANGED <<response, clientSocket, received>>
                BY <2>4, <3>1 DEF Lookup
            <4> QED BY <2>1, <2>2, <4>1, <4>2 DEF WayInv, WayTypes, LiveClientAddressed
        <3>2. CASE ~ \E i \in Slots : clientIds[i] = response.client
            <4>1. receiver[response.client] # "serve"
                <5>1. receiver[response.client] = "serve"
                         => clientIds[slot[response.client]] = response.client
                            /\ slot[response.client] \in Slots
                    BY <2>2 DEF OwnerInv
                <5> QED BY <3>2, <5>1
            <4>2. CASE clientSocket = None
                BY <2>3, <2>4, <3>2, <4>2 DEF Lookup, WayTypes
            <4>3. CASE clientSocket # None
                <5>1. dispatcher' = "send" /\ UNCHANGED <<response, found, clientSocket, received>>
                    BY <2>4, <3>2, <4>3 DEF Lookup
                <5> QED BY <2>1, <2>2, <4>1, <4>3, <5>1 DEF WayInv, WayTypes, LiveClientAddressed
            <4> QED BY <4>2, <4>3
        <3> QED BY <3>1, <3>2
    <2>5. CASE ReadSocket
        <3>1. /\ dispatcher = "read" /\ found \in Slots
              /\ clientSocket' = clientIds[found] /\ UNCHANGED received
            BY <2>5 DEF ReadSocket, WayInv, OwnerInv
        <3>2. clientSocket' \in Clients \cup {None}
            BY <3>1 DEF PoolTypes
        <3>3. CASE clientSocket' = None
            BY <2>3, <2>5, <3>1, <3>2, <3>3 DEF ReadSocket
        <3>4. CASE clientSocket' # None
            <4>1. dispatcher' = "send" /\ UNCHANGED <<response, found>>
                BY <2>5, <3>4 DEF ReadSocket
            <4> QED BY <2>1, <2>2, <3>1, <3>2, <3>4, <4>1 DEF WayInv, WayTypes, LiveClientAddressed
        <3> QED BY <3>3, <3>4
    <2>6. CASE SendResponse
        <3>1. clientSocket \in Clients /\ clientSocket' = clientSocket
            BY <2>6 DEF SendResponse, WayInv
        <3>2. received' \in [Clients -> SUBSET Responses]
            BY <2>2, <2>6, <3>1 DEF SendResponse, WayTypes
        <3> QED BY <2>1, <2>6, <3>1, <3>2
               DEF SendResponse, NextResponse, WayInv, WayTypes, LiveClientAddressed
    <2> QED BY <1>5, <2>4, <2>5, <2>6
<1> QED BY <1>1, <1>2, <1>3, <1>4, <1>5 DEF Next, DispatcherStep

-----------------------------------------------------------------------------
LEMMA InvStep == DeliveryInv /\ [Next]_vars => DeliveryInv'
BY OwnerStep, PermitStep, WayStep DEF DeliveryInv

LEMMA Invariance == Spec => []DeliveryInv
BY InitInv, InvStep, PTL DEF Spec

\* The type invariant of the pool and of the response path.
THEOREM TypeCorrect == Spec => []TypeOK
<1>1. DeliveryInv => TypeOK
    BY DEF DeliveryInv, PoolTypes, CountTypes, WayTypes, TypeOK
<1> QED BY <1>1, Invariance, PTL

\* The semaphore, the counter and the flags of the client pool always agree.
THEOREM PoolIsConsistent == Spec => []PoolConsistent
<1>1. DeliveryInv => PoolConsistent
    BY DEF DeliveryInv
<1> QED BY <1>1, Invariance, PTL

\* Every slot belongs to one client, from assignment to return.
THEOREM SlotsAreOwned == Spec => []SlotsOwned
<1>1. DeliveryInv => SlotsOwned
    BY NoneIsNobody DEF DeliveryInv, OwnerInv, PoolTypes, SlotsOwned
<1> QED BY <1>1, Invariance, PTL

\* A client that is still there is found by the lookup that takes no lock.
THEOREM LiveClientIsAddressed == Spec => []LiveClientAddressed
<1>1. DeliveryInv => LiveClientAddressed
    BY DEF DeliveryInv, WayInv
<1> QED BY <1>1, Invariance, PTL
=============================================================================
