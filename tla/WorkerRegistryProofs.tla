------------------------ MODULE WorkerRegistryProofs ------------------------
(***************************************************************************)
(* Proofs about WorkerRegistry, for every finite set of workers and every  *)
(* capacity: its types, that the list stays well formed, that a removal    *)
(* past its wait finds a node, that registered workers know each other,    *)
(* and that newcomers are seeded.                                          *)
(***************************************************************************)
EXTENDS WorkerRegistry, FiniteSetTheorems, SequenceTheorems, WellFoundedInduction, TLAPS

(* ListWellFormed is not inductive: a worker that has not yet been added   *)
(* must not be listed, so that no worker is added twice, and the list must *)
(* be known to name each of its members once.                              *)
Distinct == \A i, j \in 1 .. Len(list) : list[i] = list[j] => i = j

ListInv == /\ list \in Seq(Workers)
           /\ Distinct
           /\ Len(list) <= MaxWorkers
           /\ ready \subseteq Members
           /\ IF list = << >> THEN current = None ELSE current \in Members

PlaceInv == /\ \A w \in Workers : pc[w] \notin {"choose", "send"}
            /\ pc[Dispatcher] \in {"choose", "send", "remove", "removeEnter", "removeSignal"}
            /\ pc[Dispatcher] # "choose" => target \in Workers
            /\ \A w \in Workers : pc[w] \in {"none", "receive", "add", "addEnter"} => w \notin Members

-----------------------------------------------------------------------------
(* Numbers and sequences.                                                  *)

\* A set of numbers that is not empty has a least element.
LEMMA LeastNumber ==
    ASSUME NEW A, A \subseteq Nat, A # {}
    PROVE  \E j \in A : \A k \in A : j <= k
<1> DEFINE R == OpToRel(<, Nat)
<1>1. IsWellFoundedOn(R, Nat)
    BY NatLessThanWellFounded
<1>2. \A j, k \in Nat : k < j => <<k, j>> \in R
    BY DEF OpToRel
<1> HIDE DEF R
<1>3. PICK j \in A : \A k \in A : ~ (<<k, j>> \in R)
    BY <1>1, WFMin
<1>4. ASSUME NEW k \in A PROVE j <= k
    <2>1. j \in Nat /\ k \in Nat
        OBVIOUS
    <2>2. ~ (k < j)
        BY <1>2, <1>3, <2>1, Zenon
    <2> QED BY <2>1, <2>2
<1> QED BY <1>4

\* Positions and members.
LEMMA Positions ==
    ASSUME ListInv
    PROVE  /\ Len(list) \in Nat
           /\ \A i \in 1 .. Len(list) : list[i] \in Workers /\ Position(list[i]) = i
           /\ \A v \in Members : Position(v) \in 1 .. Len(list) /\ list[Position(v)] = v
           /\ Members \subseteq Workers
           /\ Members = {} <=> list = << >>
<1>1. Len(list) \in Nat /\ \A i \in 1 .. Len(list) : list[i] \in Workers
    BY LenProperties, ElementOfSeq DEF ListInv
<1>2. \A i \in 1 .. Len(list) : Position(list[i]) = i
    BY DEF Position, ListInv, Distinct
<1>3. \A v \in Members : Position(v) \in 1 .. Len(list) /\ list[Position(v)] = v
    BY DEF Members, Position
<1>4. Members = {} <=> list = << >>
    <2>1. list # << >> => Len(list) \in Nat \ {0}
        BY EmptySeq DEF ListInv
    <2>2. list # << >> => list[1] \in Members
        BY <2>1 DEF Members
    <2>3. list = << >> => Members = {}
        BY DEF Members
    <2> QED BY <2>2, <2>3
<1> QED BY <1>1, <1>2, <1>3, <1>4 DEF Members

\* 1 .. n is finite and has n elements.
LEMMA CountedInterval ==
    ASSUME NEW n \in Nat
    PROVE  IsFiniteSet(1 .. n) /\ Cardinality(1 .. n) = n
<1>1. 1 \in Int /\ n \in Int
    OBVIOUS
<1>2. /\ IsFiniteSet(1 .. n)
      /\ Cardinality(1 .. n) = IF 1 > n THEN 0 ELSE n - 1 + 1
    BY ONLY <1>1, FS_Interval
<1>3. (IF 1 > n THEN 0 ELSE n - 1 + 1) = n
    OBVIOUS
<1> QED BY <1>2, <1>3

\* The members are as many as the places.
LEMMA MembersCounted ==
    ASSUME ListInv
    PROVE  Cardinality(Members) = Len(list)
<1> DEFINE f == [i \in 1 .. Len(list) |-> list[i]]
<1>1. f \in Bijection(1 .. Len(list), Members)
    <2>1. f \in [1 .. Len(list) -> Members]
        BY DEF Members
    <2>2. \A i, j \in 1 .. Len(list) : f[i] = f[j] => i = j
        BY DEF ListInv, Distinct
    <2>3. \A v \in Members : \E i \in 1 .. Len(list) : f[i] = v
        BY DEF Members
    <2> QED BY <2>1, <2>2, <2>3 DEF Bijection, Injection, Surjection, IsInjective
<1>2. Len(list) \in Nat
    BY Positions
<1>3. IsFiniteSet(1 .. Len(list)) /\ Cardinality(1 .. Len(list)) = Len(list)
    BY <1>2, CountedInterval
<1> QED BY <1>1, <1>3, FS_Bijection DEF ExistsBijection

\* A walk round the ring stays in the list, passes every member, and leaves
\* its start when there is another.
LEMMA RingWalk ==
    ASSUME ListInv, NEW w \in Members
    PROVE  /\ \A k \in 0 .. Len(list) - 1 : After(w, k) \in Members
           /\ \A v \in Members : \E k \in 0 .. Len(list) - 1 : After(w, k) = v
           /\ Len(list) # 1 => 1 \in 0 .. Len(list) - 1 /\ After(w, 1) # w
           /\ After(w, 1) \in Members
<1> DEFINE n == Len(list)
           p == Position(w)
<1>1. n \in Nat /\ p \in 1 .. n /\ list[p] = w
    BY Positions
<1>2. ASSUME NEW k \in 0 .. n - 1 PROVE After(w, k) \in Members
    BY <1>1, SMTT(30) DEF After, Members
<1>3. ASSUME NEW v \in Members PROVE \E k \in 0 .. n - 1 : After(w, k) = v
    <2>1. Position(v) \in 1 .. n /\ list[Position(v)] = v
        BY Positions
    <2>2. CASE Position(v) >= p
        <3>1. Position(v) - p \in 0 .. n - 1 /\ After(w, Position(v) - p) = v
            BY <1>1, <2>1, <2>2 DEF After
        <3> QED BY <3>1
    <2>3. CASE Position(v) < p
        <3>1. Position(v) - p + n \in 0 .. n - 1 /\ After(w, Position(v) - p + n) = v
            BY <1>1, <2>1, <2>3 DEF After
        <3> QED BY <3>1
    <2> QED BY <1>1, <2>1, <2>2, <2>3
<1>4. ASSUME n # 1 PROVE 1 \in 0 .. n - 1 /\ After(w, 1) # w
    <2>1. 1 \in 0 .. n - 1
        <3> HIDE DEF n, p
        <3>1. n >= 2
            BY <1>1, <1>4
        <3> QED BY <1>1, <3>1
    <2>2. \A q \in 1 .. n : q # p => list[q] # w
        BY <1>1 DEF ListInv, Distinct
    <2>3. CASE p < n
        <3>1. After(w, 1) = list[p + 1]
            BY <1>1, <2>3 DEF After
        <3>2. p + 1 \in 1 .. n /\ p + 1 # p
            BY <1>1, <2>3
        <3> QED BY <2>1, <2>2, <3>1, <3>2
    <2>4. CASE p = n
        <3>1. After(w, 1) = list[1]
            BY <1>1, <2>4 DEF After
        <3>2. 1 \in 1 .. n /\ 1 # p
            BY <1>1, <1>4, <2>4
        <3> QED BY <2>1, <2>2, <3>1, <3>2
    <2> QED BY <1>1, <2>3, <2>4
<1>5. After(w, 1) \in Members
    <2>1. CASE n = 1
        BY <1>1, <2>1 DEF After, Members
    <2> QED BY <1>2, <1>4, <2>1
<1> QED BY <1>2, <1>3, <1>4, <1>5

\* Unlinking a member takes it away and nothing else.
LEMMA Unlinked ==
    ASSUME ListInv, NEW w \in Members, list' = Without(w)
    PROVE  /\ list' \in Seq(Workers)
           /\ Len(list') = Len(list) - 1
           /\ Distinct'
           /\ Members' = Members \ {w}
<1> DEFINE n == Len(list)
           p == Position(w)
           at(i) == IF i < p THEN i ELSE i + 1
<1>1. n \in Nat \ {0} /\ p \in 1 .. n /\ list[p] = w /\ \A i \in 1 .. n : list[i] \in Workers
    BY Positions
<1>2. list' = [i \in 1 .. n - 1 |-> list[at(i)]]
    BY DEF Without
<1>3. \A i \in 1 .. n - 1 : at(i) \in 1 .. n /\ at(i) # p
    BY <1>1
<1>4. \A i, j \in 1 .. n - 1 : at(i) = at(j) => i = j
    BY <1>1
<1>5. \A j \in 1 .. n : j # p => \E i \in 1 .. n - 1 : at(i) = j
    <2> SUFFICES ASSUME NEW j \in 1 .. n, j # p PROVE \E i \in 1 .. n - 1 : at(i) = j
        OBVIOUS
    <2>1. CASE j < p
        <3>1. j \in 1 .. n - 1 /\ at(j) = j
            BY <1>1, <2>1
        <3> QED BY <3>1
    <2>2. CASE j > p
        <3>1. j - 1 \in 1 .. n - 1 /\ at(j - 1) = j
            BY <1>1, <2>2
        <3> QED BY <3>1
    <2> QED BY <1>1, <2>1, <2>2
<1> HIDE DEF at
<1>6. /\ list' \in Seq(Workers) /\ Len(list') = n - 1
      /\ \A i \in 1 .. n - 1 : list'[i] = list[at(i)]
    <2>1. \A i \in 1 .. n - 1 : list[at(i)] \in Workers
        BY <1>1, <1>3
    <2> QED BY <1>1, <1>2, <2>1
<1>7. Distinct'
    <2> SUFFICES ASSUME NEW i \in 1 .. n - 1, NEW j \in 1 .. n - 1, list'[i] = list'[j]
                 PROVE  i = j
        BY <1>6 DEF Distinct
    <2>1. at(i) = at(j)
        BY <1>3, <1>6 DEF ListInv, Distinct
    <2> QED BY <1>4, <2>1
<1>8. Members' = {list[at(i)] : i \in 1 .. n - 1}
    BY <1>6 DEF Members
<1>9. \A i \in 1 .. n : list[i] = w => i = p
    BY <1>1 DEF ListInv, Distinct
<1>10. Members' = Members \ {w}
    BY <1>1, <1>3, <1>5, <1>8, <1>9 DEF Members
<1> QED BY <1>6, <1>7, <1>10

\* Linking a worker that is not listed adds it and nothing else.
LEMMA Linked ==
    ASSUME ListInv, NEW w \in Workers, w \notin Members, list' = Append(list, w)
    PROVE  /\ list' \in Seq(Workers)
           /\ Len(list') = Len(list) + 1
           /\ Distinct'
           /\ Members' = Members \cup {w}
<1> DEFINE n == Len(list)
<1>1. n \in Nat
    BY Positions
<1>2. /\ list' \in Seq(Workers) /\ Len(list') = n + 1
      /\ \A i \in 1 .. n : list'[i] = list[i]
      /\ list'[n + 1] = w
    BY AppendProperties DEF ListInv
<1>3. \A i \in 1 .. n : list[i] # w
    BY DEF Members
<1>4. Distinct'
    BY <1>1, <1>2, <1>3 DEF ListInv, Distinct
<1>5. Members' = Members \cup {w}
    BY <1>1, <1>2 DEF Members
<1> QED BY <1>2, <1>4, <1>5

-----------------------------------------------------------------------------
(* The steps: what each does to the list, to the threads and to the rest.  *)

ListTypes == current \in Workers \cup {None} /\ passed \in [Workers -> SUBSET Workers]

PlaceTypes == pc \in [Threads -> PCs] /\ target \in Workers \cup {None}

PermitTypes == notEmpty \in 0 .. MaxWorkers /\ notFull \in 0 .. MaxWorkers

WorkerTypes == /\ socket \in [Workers -> {"none", "open", "closed"}]
               /\ alive \subseteq Workers
               /\ peers \in [Workers -> SUBSET Workers]
               /\ asked \subseteq Workers

\* The steps that leave the list alone.
ListKept == \/ \E w \in Workers : \/ Connect(w) \/ Crash(w) \/ ReceiveReady(w) \/ AddWait(w)
                                  \/ AddSignal(w) \/ Broadcast(w) \/ SendRegistry(w)
                                  \/ ReceiveFails(w) \/ CloseConnection(w)
            \/ \E t \in Threads : RemoveWait(t) \/ RemoveSignal(t)
            \/ ChooseNone \/ Send \/ UNCHANGED vars

LEMMA ListKeptStep == ListKept => UNCHANGED listVars
BY DEF ListKept, Connect, Crash, ReceiveReady, AddWait, AddSignal, Broadcast, SendRegistry,
   ReceiveFails, CloseConnection, RemoveWait, RemoveSignal, ChooseNone, Send, vars

LEMMA NextCases ==
    ASSUME [Next]_vars
    PROVE  \/ ListKept
           \/ \E w \in Workers : AddEnter(w) \/ SetReady(w)
           \/ \E t \in Threads : RemoveEnter(t)
           \/ Choose
BY DEF Next, ReceiverStep, RemoveStep, ListKept

\* GetNextWorker finds the first ready node from current on.
LEMMA NextNode ==
    ASSUME ListInv, ready # {},
           NEW k, k = CHOOSE i \in 0 .. Len(list) - 1 :
                         /\ After(current, i) \in ready
                         /\ \A j \in 0 .. i - 1 : After(current, j) \notin ready
    PROVE  /\ k \in 0 .. Len(list) - 1
           /\ After(current, k) \in ready
<1> DEFINE A == {i \in 0 .. Len(list) - 1 : After(current, i) \in ready}
<1>1. PICK v : v \in ready /\ v \in Members
    BY DEF ListInv
<1>2. Len(list) \in Nat /\ current \in Members
    BY <1>1, Positions DEF ListInv, Members
<1>3. PICK i \in 0 .. Len(list) - 1 : After(current, i) = v
    BY <1>1, <1>2, RingWalk
<1>4. A # {} /\ A \subseteq Nat
    BY <1>1, <1>2, <1>3
<1>5. PICK m \in A : \A n \in A : m <= n
    BY <1>4, LeastNumber
<1>6. \A j \in 0 .. m - 1 : After(current, j) \notin ready
    <2> SUFFICES ASSUME NEW j \in 0 .. m - 1, After(current, j) \in ready PROVE FALSE
        OBVIOUS
    <2>1. m \in 0 .. Len(list) - 1
        OBVIOUS
    <2>2. j \in 0 .. Len(list) - 1 /\ j < m
        BY <1>2, <2>1
    <2>3. m <= j
        BY <1>5, <2>2
    <2> QED BY <2>1, <2>2, <2>3, <1>2
<1>7. m \in 0 .. Len(list) - 1 /\ After(current, m) \in ready
    OBVIOUS
<1> QED BY <1>6, <1>7

LEMMA ListStep ==
    ASSUME ListTypes, ListInv, PlaceTypes, PlaceInv, [Next]_vars
    PROVE  /\ ListInv' /\ ListTypes'
           /\ \A v \in Members' \ Members : pc'[v] = "addSignal"
<1> USE RegistryAssumption
<1>1. CASE ListKept
    <2>1. UNCHANGED <<list, ready, current, passed>>
        BY <1>1, ListKeptStep DEF listVars
    <2>2. Members' = Members /\ Distinct' = Distinct
        BY <2>1 DEF Members, Distinct
    <2> QED BY <2>1, <2>2 DEF ListInv, ListTypes
<1>2. ASSUME NEW w \in Workers, AddEnter(w)
      PROVE  /\ ListInv' /\ ListTypes'
             /\ \A v \in Members' \ Members : pc'[v] = "addSignal"
    <2>1. pc[w] = "addEnter" /\ w \notin Members
        BY <1>2 DEF AddEnter, Goto, PlaceInv
    <2>2. CASE Len(list) >= MaxWorkers
        <3>1. UNCHANGED <<list, ready, current, passed>>
            BY <1>2, <2>2 DEF AddEnter, listVars
        <3>2. Members' = Members /\ Distinct' = Distinct
            BY <3>1 DEF Members, Distinct
        <3> QED BY <3>1, <3>2 DEF ListInv, ListTypes
    <2>3. CASE ~(Len(list) >= MaxWorkers)
        <3>1. /\ list' = Append(list, w) /\ UNCHANGED <<ready, passed>>
              /\ current' = IF list = << >> THEN w ELSE current
              /\ pc' = [pc EXCEPT ![w] = "addSignal"]
            BY <1>2, <2>3 DEF AddEnter, Link, Goto
        <3>2. /\ list' \in Seq(Workers) /\ Len(list') = Len(list) + 1 /\ Distinct'
              /\ Members' = Members \cup {w}
            BY <2>1, <3>1, Linked
        <3>3. Len(list) \in Nat
            BY Positions
        <3>4. list' # << >>
            BY <3>2, <3>3, EmptySeq
        <3>5. ListInv'
            BY <2>3, <3>1, <3>2, <3>3, <3>4 DEF ListInv
        <3>6. pc'[w] = "addSignal"
            BY <3>1 DEF PlaceTypes, Threads
        <3> QED BY <3>1, <3>2, <3>5, <3>6 DEF ListTypes
    <2> QED BY <2>2, <2>3
<1>3. ASSUME NEW w \in Workers, SetReady(w)
      PROVE  ListInv' /\ ListTypes' /\ Members' = Members
    <2>1. UNCHANGED <<list, current, passed>>
        BY <1>3 DEF SetReady
    <2>2. Members' = Members /\ Distinct' = Distinct
        BY <2>1 DEF Members, Distinct
    <2>3. ready' \subseteq Members
        BY <1>3 DEF SetReady, ListInv
    <2> QED BY <2>1, <2>2, <2>3 DEF ListInv, ListTypes
<1>4. ASSUME NEW t \in Threads, RemoveEnter(t)
      PROVE  ListInv' /\ ListTypes' /\ Members' \subseteq Members
    <2> DEFINE w == Victim(t)
    <2>1. CASE w \notin Members
        <3>1. UNCHANGED <<list, ready, current, passed>>
            BY <1>4, <2>1 DEF RemoveEnter, listVars
        <3>2. Members' = Members /\ Distinct' = Distinct
            BY <3>1 DEF Members, Distinct
        <3> QED BY <3>1, <3>2 DEF ListInv, ListTypes
    <2>2. CASE w \in Members
        <3>1. /\ list' = Without(w) /\ ready' = ready \ {w}
              /\ current' = IF Len(list) = 1 THEN None
                            ELSE IF current = w THEN After(w, 1) ELSE current
              /\ passed' = [passed EXCEPT ![w] = {}]
            BY <1>4, <2>2 DEF RemoveEnter, Unlink
        <3> HIDE DEF w
        <3>2. /\ list' \in Seq(Workers) /\ Len(list') = Len(list) - 1 /\ Distinct'
              /\ Members' = Members \ {w}
            BY <2>2, <3>1, Unlinked
        <3>3. Len(list) \in Nat /\ Len(list) <= MaxWorkers /\ current \in Members
              /\ list # << >> /\ Members \subseteq Workers
            BY <2>2, Positions DEF ListInv
        <3>4. Len(list) # 1 => After(w, 1) \in Members /\ After(w, 1) # w
            BY <2>2, RingWalk
        <3>5. IF list' = << >> THEN current' = None ELSE current' \in Members'
            <4>1. CASE Len(list) = 1
                <5>1. list' = << >>
                    BY <3>2, <4>1, EmptySeq
                <5> QED BY <3>1, <4>1, <5>1
            <4>2. CASE Len(list) # 1
                <5>1. current' \in Members'
                    BY <3>1, <3>2, <3>3, <3>4, <4>2
                <5>2. list' # << >>
                    BY <3>2, <3>3, <4>2, EmptySeq
                <5> QED BY <5>1, <5>2
            <4> QED BY <4>1, <4>2
        <3>6. ready' \subseteq Members'
            BY <3>1, <3>2 DEF ListInv
        <3>7. ListInv'
            BY <3>2, <3>3, <3>5, <3>6 DEF ListInv
        <3>8. ListTypes'
            BY <3>1, <3>3, <3>4 DEF ListTypes
        <3> QED BY <3>2, <3>7, <3>8
    <2> QED BY <2>1, <2>2
<1>5. CASE Choose
    <2> DEFINE k == CHOOSE i \in 0 .. Len(list) - 1 :
                       /\ After(current, i) \in ready
                       /\ \A j \in 0 .. i - 1 : After(current, j) \notin ready
               w == After(current, k)
    <2>1. ready # {} /\ UNCHANGED <<list, ready>>
        BY <1>5 DEF Choose
    <2>2. w \in ready
        BY <2>1, NextNode
    <2>3. /\ current' = After(w, 1)
          /\ passed' = [v \in Workers |-> IF v = w \/ v \notin ready THEN {}
                                          ELSE passed[v] \cup {w}]
        BY <1>5 DEF Choose
    <2> HIDE DEF k, w
    <2>4. w \in Members /\ Members \subseteq Workers
        BY <2>2, Positions DEF ListInv
    <2>5. After(w, 1) \in Members /\ list # << >>
        BY <2>4, RingWalk, Positions
    <2>6. Members' = Members /\ Distinct' = Distinct
        BY <2>1 DEF Members, Distinct
    <2>7. ListInv'
        BY <2>1, <2>3, <2>5, <2>6 DEF ListInv
    <2>8. ListTypes'
        BY <2>3, <2>4, <2>5 DEF ListTypes
    <2> QED BY <2>6, <2>7, <2>8
<1> QED BY <1>1, <1>2, <1>3, <1>4, <1>5, NextCases

-----------------------------------------------------------------------------
(* Where the threads go.                                                   *)

ReceiverMoves ==
    {<<"none", "receive">>, <<"receive", "add">>, <<"receive", "close">>, <<"add", "addEnter">>,
     <<"add", "setReady">>, <<"addEnter", "addSignal">>, <<"addEnter", "setReady">>,
     <<"addSignal", "setReady">>, <<"setReady", "broadcast">>, <<"setReady", "serve">>,
     <<"broadcast", "sendRegistry">>, <<"sendRegistry", "serve">>, <<"serve", "remove">>,
     <<"remove", "removeEnter">>, <<"remove", "close">>, <<"removeEnter", "removeSignal">>,
     <<"removeSignal", "close">>, <<"close", "done">>}

DispatcherMoves ==
    {<<"choose", "send">>, <<"send", "choose">>, <<"send", "remove">>, <<"remove", "removeEnter">>,
     <<"remove", "choose">>, <<"removeEnter", "removeSignal">>, <<"removeSignal", "choose">>}

\* What a step does to the places of the threads and to the dispatcher's choice.
LEMMA Moves ==
    ASSUME [Next]_vars
    PROVE  \/ UNCHANGED <<pc, target>>
           \/ \E w \in Workers, m \in ReceiverMoves : Goto(w, m[1], m[2]) /\ UNCHANGED target
           \/ \E m \in DispatcherMoves : /\ Goto(Dispatcher, m[1], m[2])
                                         /\ m[2] \notin {"send", "choose"} => UNCHANGED target
                                         /\ m[2] = "choose" => target' = None
                                         /\ m[2] = "send" => Choose
<1> USE RegistryAssumption
<1>1. ASSUME NEW w \in Workers, NEW a, NEW b, <<a, b>> \in ReceiverMoves,
             Goto(w, a, b), UNCHANGED target
      PROVE  \E v \in Workers, m \in ReceiverMoves : Goto(v, m[1], m[2]) /\ UNCHANGED target
    <2>1. Goto(w, <<a, b>>[1], <<a, b>>[2])
        BY <1>1
    <2> QED BY <1>1, <2>1
<1>2. ASSUME NEW a, NEW b, <<a, b>> \in DispatcherMoves, Goto(Dispatcher, a, b),
             b \notin {"send", "choose"} => UNCHANGED target,
             b = "choose" => target' = None,
             b = "send" => Choose
      PROVE  \E m \in DispatcherMoves : /\ Goto(Dispatcher, m[1], m[2])
                                        /\ m[2] \notin {"send", "choose"} => UNCHANGED target
                                        /\ m[2] = "choose" => target' = None
                                        /\ m[2] = "send" => Choose
    <2> DEFINE m == <<a, b>>
    <2>1. m \in DispatcherMoves /\ m[1] = a /\ m[2] = b
        BY <1>2
    <2> HIDE DEF m
    <2> QED BY <1>2, <2>1
<1>3. CASE UNCHANGED vars
    BY <1>3 DEF vars
<1>4. ASSUME NEW w \in Workers, Connect(w) \/ Crash(w) \/ ReceiverStep(w)
      PROVE  \/ UNCHANGED <<pc, target>>
             \/ \E v \in Workers, m \in ReceiverMoves : Goto(v, m[1], m[2]) /\ UNCHANGED target
    <2>1. CASE Crash(w)
        BY <2>1 DEF Crash
    <2>2. CASE Connect(w)
        BY <1>1, <2>2 DEF Connect, ReceiverMoves
    <2>3. CASE ReceiverStep(w)
        <3>1. /\ UNCHANGED target
              /\ \/ Goto(w, "receive", "add") \/ Goto(w, "add", "addEnter")
                 \/ Goto(w, "add", "setReady") \/ Goto(w, "addEnter", "addSignal")
                 \/ Goto(w, "addEnter", "setReady") \/ Goto(w, "addSignal", "setReady")
                 \/ Goto(w, "setReady", "broadcast") \/ Goto(w, "setReady", "serve")
                 \/ Goto(w, "broadcast", "sendRegistry") \/ Goto(w, "sendRegistry", "serve")
                 \/ Goto(w, "receive", "close") \/ Goto(w, "serve", "remove")
                 \/ Goto(w, "close", "done")
            BY <2>3 DEF ReceiverStep, ReceiveReady, AddWait, AddEnter, AddSignal, SetReady,
               Broadcast, SendRegistry, ReceiveFails, CloseConnection
        <3> QED BY <1>1, <3>1 DEF ReceiverMoves
    <2> QED BY <1>4, <2>1, <2>2, <2>3
<1>5. ASSUME NEW t \in Threads, RemoveStep(t)
      PROVE  \/ \E v \in Workers, m \in ReceiverMoves : Goto(v, m[1], m[2]) /\ UNCHANGED target
             \/ \E m \in DispatcherMoves : /\ Goto(Dispatcher, m[1], m[2])
                                           /\ m[2] \notin {"send", "choose"} => UNCHANGED target
                                           /\ m[2] = "choose" => target' = None
                                           /\ m[2] = "send" => Choose
    <2>1. CASE t = Dispatcher
        <3>1. \/ Goto(Dispatcher, "remove", "removeEnter") /\ UNCHANGED target
              \/ Goto(Dispatcher, "remove", "choose") /\ target' = None
              \/ Goto(Dispatcher, "removeEnter", "removeSignal") /\ UNCHANGED target
              \/ Goto(Dispatcher, "removeSignal", "choose") /\ target' = None
            BY <1>5, <2>1 DEF RemoveStep, RemoveWait, RemoveEnter, RemoveSignal, Return
        <3> QED BY <1>2, <3>1 DEF DispatcherMoves
    <2>2. CASE t # Dispatcher
        <3>1. t \in Workers
            BY <2>2 DEF Threads
        <3>2. /\ UNCHANGED target
              /\ \/ Goto(t, "remove", "removeEnter") \/ Goto(t, "remove", "close")
                 \/ Goto(t, "removeEnter", "removeSignal") \/ Goto(t, "removeSignal", "close")
            BY <1>5, <2>2 DEF RemoveStep, RemoveWait, RemoveEnter, RemoveSignal, Return
        <3> QED BY <1>1, <3>1, <3>2 DEF ReceiverMoves
    <2> QED BY <2>1, <2>2
<1>6. CASE Choose
    <2>1. Goto(Dispatcher, "choose", "send")
        BY <1>6 DEF Choose
    <2> QED BY <1>2, <1>6, <2>1 DEF DispatcherMoves
<1>7. CASE ChooseNone
    BY <1>7 DEF ChooseNone, vars
<1>8. CASE Send
    <2>1. \/ Goto(Dispatcher, "send", "choose") /\ target' = None
          \/ Goto(Dispatcher, "send", "remove") /\ UNCHANGED target
        BY <1>8 DEF Send
    <2> QED BY <1>2, <2>1 DEF DispatcherMoves
<1> QED BY <1>3, <1>4, <1>5, <1>6, <1>7, <1>8 DEF Next

Early == {"none", "receive", "add", "addEnter"}   \* places before AddWorker's critical section

LEMMA PlaceStep ==
    ASSUME PlaceTypes, ListTypes, ListInv, PlaceInv, [Next]_vars
    PROVE  /\ PlaceInv' /\ PlaceTypes'
           /\ \A v \in Workers : pc'[v] \in Early => pc[v] \in Early
<1> USE RegistryAssumption
<1>1. /\ Dispatcher \in Threads /\ Workers \subseteq Threads
      /\ Dispatcher \notin Workers
    BY DEF Threads
<1>2. Members \subseteq Workers /\ (\A v \in Members' \ Members : pc'[v] = "addSignal")
    BY Positions, ListStep
<1>3. CASE UNCHANGED <<pc, target>>
    <2>1. \A v \in Workers : pc'[v] \in Early => pc[v] \in Early
        BY <1>3
    <2>2. \A v \in Workers : pc'[v] \in Early => v \notin Members'
        BY <1>2, <1>3 DEF PlaceInv, Early
    <2> QED BY <1>3, <2>1, <2>2 DEF PlaceInv, PlaceTypes, Early
<1>4. ASSUME NEW w \in Workers, NEW m \in ReceiverMoves, Goto(w, m[1], m[2]), UNCHANGED target
      PROVE  /\ PlaceInv' /\ PlaceTypes'
             /\ \A v \in Workers : pc'[v] \in Early => pc[v] \in Early
    <2>1. /\ m[2] \in PCs /\ m[2] \notin {"choose", "send"}
          /\ m[2] \in Early => m[1] \in Early
        BY DEF ReceiverMoves, PCs, Early
    <2>2. /\ pc' \in [Threads -> PCs] /\ pc[w] = m[1] /\ pc'[w] = m[2]
          /\ \A t \in Threads : t # w => pc'[t] = pc[t]
        BY <1>1, <1>4, <2>1 DEF Goto, PlaceTypes
    <2>3. \A v \in Workers : pc'[v] \in Early => pc[v] \in Early
        BY <1>1, <2>1, <2>2
    <2>4. \A v \in Workers : pc'[v] \in Early => v \notin Members'
        BY <1>2, <2>3 DEF PlaceInv, Early
    <2>5. \A v \in Workers : pc'[v] \notin {"choose", "send"}
        BY <1>1, <2>1, <2>2 DEF PlaceInv
    <2> QED BY <1>1, <1>4, <2>2, <2>3, <2>4, <2>5 DEF PlaceInv, PlaceTypes, Early
<1>5. ASSUME NEW m \in DispatcherMoves, Goto(Dispatcher, m[1], m[2]),
             m[2] \notin {"send", "choose"} => UNCHANGED target,
             m[2] = "choose" => target' = None,
             m[2] = "send" => Choose
      PROVE  /\ PlaceInv' /\ PlaceTypes'
             /\ \A v \in Workers : pc'[v] \in Early => pc[v] \in Early
    <2>1. /\ m[2] \in {"choose", "send", "remove", "removeEnter", "removeSignal"}
          /\ m[2] \in PCs
          /\ m[2] \notin {"send", "choose"} => m[1] # "choose"
        BY DEF DispatcherMoves, PCs
    <2>2. /\ pc' \in [Threads -> PCs] /\ pc[Dispatcher] = m[1] /\ pc'[Dispatcher] = m[2]
          /\ \A w \in Workers : pc'[w] = pc[w]
        BY <1>1, <1>5, <2>1 DEF Goto, PlaceTypes
    <2>3. \A v \in Workers : pc'[v] \in Early => v \notin Members'
        BY <1>2, <2>2 DEF PlaceInv, Early
    <2>4. m[2] = "send" => target' \in Workers
        <3> SUFFICES ASSUME Choose PROVE target' \in Workers
            BY <1>5
        <3> DEFINE k == CHOOSE i \in 0 .. Len(list) - 1 :
                           /\ After(current, i) \in ready
                           /\ \A j \in 0 .. i - 1 : After(current, j) \notin ready
        <3>1. ready # {} /\ target' = After(current, k)
            BY DEF Choose
        <3>2. After(current, k) \in ready
            BY <3>1, NextNode
        <3> QED BY <1>2, <3>1, <3>2 DEF ListInv
    <2>5. pc'[Dispatcher] # "choose" => target' \in Workers
        <3>1. CASE m[2] \notin {"send", "choose"}
            BY <1>5, <2>1, <2>2, <3>1 DEF PlaceInv
        <3> QED BY <2>2, <2>4, <3>1
    <2>6. target' \in Workers \cup {None}
        <3>1. CASE m[2] = "choose"
            BY <1>5, <3>1
        <3> QED BY <2>2, <2>5, <3>1
    <2> QED BY <2>1, <2>2, <2>3, <2>5, <2>6 DEF PlaceInv, PlaceTypes, Early
<1> QED BY <1>3, <1>4, <1>5, Moves

\* Who waits where after a thread moved.
LEMMA AtGoto ==
    ASSUME PlaceTypes, NEW t \in Threads, NEW a, NEW b \in PCs, a # b, Goto(t, a, b)
    PROVE  /\ At(a)' = At(a) \ {t} /\ t \in At(a)
           /\ At(b)' = At(b) \cup {t} /\ t \notin At(b)
           /\ \A l : l \notin {a, b} => At(l)' = At(l)
<1>1. /\ pc[t] = a /\ pc'[t] = b
      /\ \A u \in Threads : u # t => pc'[u] = pc[u]
    BY DEF Goto, PlaceTypes
<1> QED BY <1>1 DEF At

\* The same, counted.
LEMMA AtCounted ==
    ASSUME PlaceTypes, NEW t \in Threads, NEW a, NEW b \in PCs, a # b, Goto(t, a, b)
    PROVE  /\ \A l : Cardinality(At(l)) \in Nat
           /\ Cardinality(At(a)') = Cardinality(At(a)) - 1
           /\ Cardinality(At(b)') = Cardinality(At(b)) + 1
           /\ \A l : l \notin {a, b} => Cardinality(At(l)') = Cardinality(At(l))
<1> USE RegistryAssumption
<1>1. IsFiniteSet(Threads)
    BY FS_Singleton, FS_Union DEF Threads
<1>2. \A l : IsFiniteSet(At(l)) /\ Cardinality(At(l)) \in Nat
    BY <1>1, FS_Subset, FS_CardinalityType DEF At
<1>3. /\ At(a)' = At(a) \ {t} /\ t \in At(a)
      /\ At(b)' = At(b) \cup {t} /\ t \notin At(b)
      /\ \A l : l \notin {a, b} => At(l)' = At(l)
    BY AtGoto
<1>4. Cardinality(At(a) \ {t}) = Cardinality(At(a)) - 1
    BY <1>2, <1>3, FS_RemoveElement
<1>5. Cardinality(At(b) \cup {t}) = Cardinality(At(b)) + 1
    BY <1>2, <1>3, FS_AddElement
<1> QED BY <1>2, <1>3, <1>4, <1>5

LEMMA PermitStep ==
    ASSUME PermitTypes, [Next]_vars
    PROVE  PermitTypes'
<1> USE RegistryAssumption
<1>1. \A n \in 0 .. MaxWorkers : Released(n) \in 0 .. MaxWorkers
    BY DEF Released
<1>2. \/ UNCHANGED <<notEmpty, notFull>>
      \/ notFull > 0 /\ notFull' = notFull - 1 /\ UNCHANGED notEmpty
      \/ notEmpty > 0 /\ notEmpty' = notEmpty - 1 /\ UNCHANGED notFull
      \/ notEmpty' = Released(notEmpty) /\ UNCHANGED notFull
      \/ notFull' = Released(notFull) /\ UNCHANGED notEmpty
    BY DEF Next, ReceiverStep, RemoveStep, vars, Connect, Crash, ReceiveReady, AddWait, AddEnter,
       AddSignal, SetReady, Broadcast, SendRegistry, ReceiveFails, CloseConnection, RemoveWait,
       RemoveEnter, RemoveSignal, Choose, ChooseNone, Send
<1> QED BY <1>1, <1>2 DEF PermitTypes

LEMMA WorkerStep ==
    ASSUME WorkerTypes, ListInv, [Next]_vars
    PROVE  WorkerTypes'
<1> USE DEF WorkerTypes
<1>1. Members \subseteq Workers
    BY Positions
<1>2. CASE UNCHANGED <<socket, alive, peers, asked>>
    BY <1>2
<1>3. ASSUME NEW w \in Workers, Connect(w) \/ Crash(w) \/ CloseConnection(w)
      PROVE  WorkerTypes'
    BY <1>3 DEF Connect, Crash, CloseConnection, Ends
<1>4. ASSUME NEW w \in Workers, Broadcast(w)
      PROVE  WorkerTypes'
    BY <1>4 DEF Broadcast
<1>5. ASSUME NEW w \in Workers, SendRegistry(w)
      PROVE  WorkerTypes'
    BY <1>1, <1>5 DEF SendRegistry
<1> QED BY <1>2, <1>3, <1>4, <1>5 DEF Next, ReceiverStep, RemoveStep, vars, ReceiveReady, AddWait,
           AddEnter, AddSignal, SetReady, ReceiveFails, RemoveWait, RemoveEnter, RemoveSignal,
           Choose, ChooseNone, Send


LEMMA BackedStep ==
    ASSUME PlaceTypes, PlaceInv, PermitTypes, ListInv, RemovalsBacked, [Next]_vars
    PROVE  RemovalsBacked'
<1> USE RegistryAssumption
<1> DEFINE rem == Cardinality(At("removeEnter"))
           sig == Cardinality(At("addSignal"))
<1>1. /\ Workers \subseteq Threads /\ Dispatcher \in Threads
      /\ PCs = PCs \cup {"removeEnter", "addSignal", "removeSignal", "setReady"}
    BY DEF Threads, PCs
<1>2. \A l : Cardinality(At(l)) \in Nat
    <2>1. IsFiniteSet(Threads)
        BY FS_Singleton, FS_Union DEF Threads
    <2> QED BY <2>1, FS_Subset, FS_CardinalityType DEF At
<1>3. Len(list) \in Nat /\ rem \in Nat /\ sig \in Nat /\ rem + sig + notEmpty <= Len(list)
    BY <1>2, Positions DEF RemovalsBacked, PermitTypes
<1> HIDE DEF rem, sig
<1>4. ASSUME NEW t \in Threads, NEW a, NEW b \in PCs, Goto(t, a, b), a # b,
             {a, b} \cap {"removeEnter", "addSignal"} = {}, UNCHANGED <<list, notEmpty>>
      PROVE  RemovalsBacked'
    <2>1. \A l : l \notin {a, b} => Cardinality(At(l)') = Cardinality(At(l))
        BY <1>4, AtCounted
    <2>2. rem' = rem /\ sig' = sig
        BY <1>4, <2>1 DEF rem, sig
    <2> QED BY <1>4, <2>2 DEF RemovalsBacked, rem, sig
<1>5. CASE UNCHANGED <<pc, list, notEmpty>>
    BY <1>5 DEF RemovalsBacked, At
<1>6. ASSUME NEW w \in Workers, AddEnter(w)
      PROVE  RemovalsBacked'
    <2>1. CASE Len(list) >= MaxWorkers
        <3>1. Goto(w, "addEnter", "setReady") /\ UNCHANGED <<list, notEmpty>>
            BY <1>6, <2>1 DEF AddEnter, listVars
        <3> QED BY <1>1, <1>4, <3>1
    <2>2. CASE ~(Len(list) >= MaxWorkers)
        <3>1. /\ Goto(w, "addEnter", "addSignal") /\ UNCHANGED notEmpty
              /\ list' = Append(list, w)
            BY <1>6, <2>2 DEF AddEnter, Link
        <3>2. Len(list') = Len(list) + 1
            BY <3>1, AppendProperties DEF ListInv
        <3>3. rem' = rem /\ sig' = sig + 1
            BY <1>1, <3>1, AtCounted DEF rem, sig
        <3> QED BY <1>3, <3>1, <3>2, <3>3 DEF RemovalsBacked, PermitTypes, rem, sig
    <2> QED BY <2>1, <2>2
<1>7. ASSUME NEW w \in Workers, AddSignal(w)
      PROVE  RemovalsBacked'
    <2>1. Goto(w, "addSignal", "setReady") /\ notEmpty' = Released(notEmpty) /\ UNCHANGED list
        BY <1>7 DEF AddSignal, listVars
    <2>2. rem' = rem /\ sig' = sig - 1
        BY <1>1, <2>1, AtCounted DEF rem, sig
    <2>3. notEmpty' \in Nat /\ notEmpty' <= notEmpty + 1 /\ notEmpty \in Nat
        BY <2>1 DEF Released, PermitTypes
    <2> QED BY <1>3, <2>1, <2>2, <2>3, SMTT(30) DEF RemovalsBacked, rem, sig
<1>8. ASSUME NEW t \in Threads, RemoveWait(t)
      PROVE  RemovalsBacked'
    <2>1. CASE notEmpty = 0
        <3>1. Return(t, "remove") /\ UNCHANGED <<list, notEmpty>>
            BY <1>8, <2>1 DEF RemoveWait, listVars
        <3>2. Goto(t, "remove", "choose") \/ Goto(t, "remove", "close")
            BY <3>1 DEF Return
        <3> QED BY <1>4, <3>1, <3>2 DEF PCs
    <2>2. CASE notEmpty # 0
        <3>1. Goto(t, "remove", "removeEnter") /\ notEmpty' = notEmpty - 1 /\ UNCHANGED list
            BY <1>8, <2>2 DEF RemoveWait, listVars
        <3>2. rem' = rem + 1 /\ sig' = sig
            BY <1>1, <3>1, AtCounted DEF rem, sig
        <3>3. notEmpty \in Nat
            BY DEF PermitTypes
        <3> QED BY <1>3, <2>2, <3>1, <3>2, <3>3 DEF RemovalsBacked, rem, sig
    <2> QED BY <2>1, <2>2
<1>9. ASSUME NEW t \in Threads, RemoveEnter(t)
      PROVE  RemovalsBacked'
    <2>1. Goto(t, "removeEnter", "removeSignal") /\ UNCHANGED notEmpty
        BY <1>9 DEF RemoveEnter
    <2>2. rem' = rem - 1 /\ sig' = sig
        BY <1>1, <2>1, AtCounted DEF rem, sig
    <2>3. Len(list') >= Len(list) - 1
        <3>1. CASE Victim(t) \in Members
            <4>1. list' = Without(Victim(t))
                BY <1>9, <3>1 DEF RemoveEnter, Unlink
            <4>2. Len(list') = Len(list) - 1
                BY <3>1, <4>1, Unlinked
            <4> QED BY <1>3, <4>2
        <3>2. CASE Victim(t) \notin Members
            BY <1>3, <1>9, <3>2 DEF RemoveEnter, listVars
        <3> QED BY <3>1, <3>2
    <2>4. Len(list') \in Nat
        <3>1. CASE Victim(t) \in Members
            <4>1. list' = Without(Victim(t))
                BY <1>9, <3>1 DEF RemoveEnter, Unlink
            <4>2. list' \in Seq(Workers)
                BY <3>1, <4>1, Unlinked
            <4> QED BY <4>2, LenProperties
        <3>2. CASE Victim(t) \notin Members
            BY <1>3, <1>9, <3>2 DEF RemoveEnter, listVars
        <3> QED BY <3>1, <3>2
    <2>5. notEmpty \in Nat
        BY DEF PermitTypes
    <2> QED BY <1>3, <2>1, <2>2, <2>3, <2>4, <2>5 DEF RemovalsBacked, rem, sig
<1>10. ASSUME NEW t \in Threads, RemoveSignal(t)
       PROVE  RemovalsBacked'
    <2>1. Return(t, "removeSignal") /\ UNCHANGED <<list, notEmpty>>
        BY <1>10 DEF RemoveSignal, listVars
    <2>2. Goto(t, "removeSignal", "choose") \/ Goto(t, "removeSignal", "close")
        BY <2>1 DEF Return
    <2> QED BY <1>4, <2>1, <2>2 DEF PCs
<1>11. ASSUME NEW w \in Workers, Connect(w) \/ Crash(w) \/ ReceiverStep(w)
       PROVE  RemovalsBacked'
    <2>1. CASE AddEnter(w) \/ AddSignal(w)
        BY <1>6, <1>7, <2>1
    <2>2. CASE Crash(w)
        BY <1>5, <2>2 DEF Crash, listVars
    <2>3. CASE \/ Connect(w) \/ ReceiveReady(w) \/ AddWait(w) \/ SetReady(w) \/ Broadcast(w)
               \/ SendRegistry(w) \/ ReceiveFails(w) \/ CloseConnection(w)
        <3>1. /\ UNCHANGED <<list, notEmpty>>
              /\ \/ Goto(w, "none", "receive")
                 \/ Goto(w, "receive", "add") \/ Goto(w, "add", "addEnter")
                 \/ Goto(w, "add", "setReady")
                 \/ Goto(w, "setReady", "broadcast") \/ Goto(w, "setReady", "serve")
                 \/ Goto(w, "broadcast", "sendRegistry") \/ Goto(w, "sendRegistry", "serve")
                 \/ Goto(w, "receive", "close") \/ Goto(w, "serve", "remove")
                 \/ Goto(w, "close", "done")
            BY <2>3 DEF Connect, ReceiveReady, AddWait, SetReady, Broadcast, SendRegistry,
               ReceiveFails, CloseConnection, listVars
        <3> QED BY <1>1, <1>4, <3>1 DEF PCs
    <2> QED BY <1>11, <2>1, <2>2, <2>3 DEF ReceiverStep
<1>12. CASE Choose
    <2>1. Goto(Dispatcher, "choose", "send") /\ UNCHANGED <<list, notEmpty>>
        BY <1>12 DEF Choose
    <2> QED BY <1>1, <1>4, <2>1 DEF PCs
<1>13. CASE Send
    <2>1. /\ Goto(Dispatcher, "send", "choose") \/ Goto(Dispatcher, "send", "remove")
          /\ UNCHANGED <<list, notEmpty>>
        BY <1>13 DEF Send, listVars
    <2> QED BY <1>1, <1>4, <2>1 DEF PCs
<1>14. CASE ChooseNone \/ UNCHANGED vars
    BY <1>5, <1>14 DEF ChooseNone, vars, listVars
<1> QED BY <1>8, <1>9, <1>10, <1>11, <1>12, <1>13, <1>14 DEF Next, RemoveStep

-----------------------------------------------------------------------------
(* Who knows whom, and who is seeded.                                      *)

Announced == {"sendRegistry", "serve"}   \* past BroadcastNewWorkerJoined

(* A live member that has announced itself is known to every live member   *)
(* that serves: either the other was listed when it did, or the other was  *)
(* told of it when it was sent the registry.                               *)
MeetInv == \A v, w \in Members \cap alive :
              v # w /\ pc[w] \in Announced /\ pc[v] = "serve" => w \in peers[v]

AllAlive == \A u \in Workers : pc[u] # "none" => u \in alive

SeedInv == AllAlive => \A v, w \in ready :
              v # w /\ pc[v] \in Announced /\ pc[w] \in Announced => v \in asked \/ w \in asked

\* Only a broadcast announces, only a registry that was sent lets a worker serve.
LEMMA Announcing ==
    ASSUME PlaceTypes, ListTypes, ListInv, PlaceInv, [Next]_vars,
           NEW v \in Members', pc'[v] \in Announced
    PROVE  \/ /\ v \in Members /\ pc[v] \in Announced
              /\ pc'[v] = "serve" => pc[v] = "serve" \/ SendRegistry(v)
           \/ v \in Members /\ pc'[v] = "sendRegistry" /\ Broadcast(v)
<1> USE RegistryAssumption DEF Announced
<1>1. /\ v \in Members /\ v \in Workers /\ Members \subseteq Workers
    BY ListStep, Positions
<1>2. ASSUME NEW t \in Threads, NEW a, NEW b, Goto(t, a, b), b \notin Announced
      PROVE  pc[v] = pc'[v]
    <2>1. t # v
        BY <1>2 DEF Goto, PlaceTypes
    <2> QED BY <1>1, <1>2, <2>1 DEF Goto, PlaceTypes, Threads
<1>3. Workers \subseteq Threads /\ Dispatcher \in Threads
    BY DEF Threads
<1>4. CASE UNCHANGED pc
    BY <1>1, <1>4
<1>5. ASSUME NEW w \in Workers, ReceiverStep(w)
      PROVE  \/ /\ pc[v] \in Announced
                /\ pc'[v] = "serve" => pc[v] = "serve" \/ SendRegistry(v)
             \/ pc'[v] = "sendRegistry" /\ Broadcast(v)
    <2>1. CASE SendRegistry(w)
        <3>1. CASE v = w
            BY <2>1, <3>1 DEF SendRegistry, Goto
        <3>2. CASE v # w
            BY <1>1, <1>3, <2>1, <3>2 DEF SendRegistry, Goto, PlaceTypes
        <3> QED BY <3>1, <3>2
    <2>2. CASE Broadcast(w)
        <3>1. CASE v = w
            BY <1>1, <1>3, <2>2, <3>1 DEF Broadcast, Goto, PlaceTypes
        <3>2. CASE v # w
            BY <1>1, <1>3, <2>2, <3>2 DEF Broadcast, Goto, PlaceTypes
        <3> QED BY <3>1, <3>2
    <2>3. CASE SetReady(w)
        <3>1. CASE w \in Members
            BY <1>2, <1>3, <2>3, <3>1 DEF SetReady
        <3>2. CASE w \notin Members
            BY <1>1, <1>3, <2>3, <3>2 DEF SetReady, Goto, PlaceTypes
        <3> QED BY <3>1, <3>2
    <2>4. CASE \/ ReceiveReady(w) \/ AddWait(w) \/ AddEnter(w) \/ AddSignal(w)
               \/ ReceiveFails(w) \/ CloseConnection(w)
        <3>1. \E b \in PCs \ Announced, a \in PCs : Goto(w, a, b)
            BY <2>4 DEF ReceiveReady, AddWait, AddEnter, AddSignal, ReceiveFails,
               CloseConnection, PCs
        <3> QED BY <1>2, <1>3, <3>1
    <2> QED BY <1>5, <2>1, <2>2, <2>3, <2>4 DEF ReceiverStep
<1>6. ASSUME NEW w \in Workers, Connect(w)
      PROVE  pc[v] = pc'[v]
    BY <1>2, <1>3, <1>6 DEF Connect
<1>7. ASSUME NEW t \in Threads, RemoveStep(t)
      PROVE  pc[v] = pc'[v]
    <2>1. \E b \in PCs \ Announced, a \in PCs : Goto(t, a, b)
        BY <1>7 DEF RemoveStep, RemoveWait, RemoveEnter, RemoveSignal, Return, PCs
    <2> QED BY <1>2, <2>1
<1>8. CASE Choose \/ Send
    <2>1. \E b \in PCs \ Announced, a \in PCs : Goto(Dispatcher, a, b)
        BY <1>8 DEF Choose, Send, PCs
    <2>2. pc[v] = pc'[v]
        BY <1>2, <1>3, <2>1
    <2> QED BY <1>1, <2>2
<1>9. CASE ChooseNone \/ (\E w \in Workers : Crash(w)) \/ UNCHANGED vars
    BY <1>4, <1>9 DEF ChooseNone, Crash, vars
<1> QED BY <1>1, <1>5, <1>6, <1>7, <1>8, <1>9 DEF Next

\* Who dies is no longer alive; what the others know stays known.
LEMMA Knowing ==
    ASSUME WorkerTypes, PlaceTypes, ListInv, [Next]_vars
    PROVE  /\ \A v \in alive' : v \in alive \/ (v \in Workers /\ pc[v] = "none")
           /\ \A v \in alive' : peers[v] \subseteq peers'[v]
           /\ asked \subseteq asked'
           /\ \A w \in Workers : SendRegistry(w) /\ w \in Members \cap alive
                 => Members \ {w} \subseteq peers'[w]
           /\ \A w \in Workers : Broadcast(w) /\ w \in Members
                 => \A v \in (Members \cap alive) \ {w} : w \in peers'[v]
<1> USE DEF WorkerTypes
<1>1. CASE UNCHANGED <<alive, peers, asked>>
    <2>1. ASSUME NEW w \in Workers, SendRegistry(w), w \in Members \cap alive
          PROVE  Members \ {w} \subseteq peers'[w]
        BY <2>1 DEF SendRegistry
    <2>2. ASSUME NEW w \in Workers, Broadcast(w), w \in Members
          PROVE  \A v \in (Members \cap alive) \ {w} : w \in peers'[v]
        BY <2>2 DEF Broadcast
    <2> QED BY <1>1, <2>1, <2>2
<1>2. ASSUME NEW w \in Workers, SendRegistry(w), w \in Members \cap alive
      PROVE  Members \ {w} \subseteq peers'[w]
    BY <1>2 DEF SendRegistry
<1>3. ASSUME NEW w \in Workers, Broadcast(w), w \in Members
      PROVE  \A v \in (Members \cap alive) \ {w} : w \in peers'[v]
    BY <1>3 DEF Broadcast
<1>4. ASSUME NEW w \in Workers, Connect(w) \/ Crash(w) \/ CloseConnection(w)
      PROVE  /\ \A v \in alive' : v \in alive \/ (v \in Workers /\ pc[v] = "none")
             /\ \A v \in alive' : peers[v] \subseteq peers'[v]
             /\ asked \subseteq asked'
    BY <1>4 DEF Connect, Crash, CloseConnection, Ends, Goto
<1>5. ASSUME NEW w \in Workers, Broadcast(w) \/ SendRegistry(w)
      PROVE  /\ \A v \in alive' : v \in alive \/ (v \in Workers /\ pc[v] = "none")
             /\ \A v \in alive' : peers[v] \subseteq peers'[v]
             /\ asked \subseteq asked'
    BY <1>5 DEF Broadcast, SendRegistry
<1> QED BY <1>1, <1>2, <1>3, <1>4, <1>5 DEF Next, ReceiverStep, RemoveStep, vars, ReceiveReady,
           AddWait, AddEnter, AddSignal, SetReady, ReceiveFails, RemoveWait, RemoveEnter,
           RemoveSignal, Choose, ChooseNone, Send

LEMMA MeetStep ==
    ASSUME WorkerTypes, PlaceTypes, ListTypes, ListInv, PlaceInv, MeetInv, [Next]_vars
    PROVE  MeetInv'
<1> USE RegistryAssumption
<1> SUFFICES ASSUME NEW v \in Members' \cap alive', NEW w \in Members' \cap alive', v # w,
                    pc'[w] \in Announced, pc'[v] = "serve"
             PROVE  w \in peers'[v]
    BY DEF MeetInv
<1>1. /\ v \in Members /\ w \in Members /\ Members \subseteq Workers
      /\ pc[v] \in Announced
      /\ pc[v] = "serve" \/ SendRegistry(v)
    BY Announcing, Positions DEF Announced
<1>2. w \in Members /\ (pc[w] \in Announced \/ Broadcast(w))
    BY Announcing
<1>3. pc[w] # "none"
    BY <1>2, Positions DEF PlaceInv
<1>4. v \in alive /\ w \in alive /\ peers[v] \subseteq peers'[v]
    BY <1>1, <1>3, Knowing DEF Announced
<1>5. CASE SendRegistry(v)
    BY <1>1, <1>2, <1>4, <1>5, Knowing
<1>6. CASE pc[v] = "serve" /\ Broadcast(w)
    BY <1>1, <1>2, <1>4, <1>6, Knowing
<1>7. CASE pc[v] = "serve" /\ pc[w] \in Announced
    BY <1>1, <1>2, <1>4, <1>7 DEF MeetInv
<1> QED BY <1>1, <1>2, <1>5, <1>6, <1>7

\* Nobody forgets his connection; who becomes ready has not announced himself.
LEMMA Readying ==
    ASSUME PlaceTypes, ListInv, [Next]_vars
    PROVE  /\ \A v \in Workers : pc'[v] = "none" => pc[v] = "none"
           /\ \A v \in ready' : v \in ready \/ pc'[v] = "broadcast"
<1> USE RegistryAssumption
<1>1. \A v \in Workers : pc'[v] = "none" => pc[v] = "none"
    <2>1. ASSUME NEW t \in Threads, NEW a, NEW b, b # "none", Goto(t, a, b)
          PROVE  \A v \in Workers : pc'[v] = "none" => pc[v] = "none"
        BY <2>1 DEF Goto, PlaceTypes, Threads
    <2>2. (\A m \in ReceiverMoves : m[2] # "none") /\ (\A m \in DispatcherMoves : m[2] # "none")
        BY DEF ReceiverMoves, DispatcherMoves
    <2>3. CASE UNCHANGED <<pc, target>>
        BY <2>3
    <2>4. CASE \E w \in Workers, m \in ReceiverMoves : Goto(w, m[1], m[2]) /\ UNCHANGED target
        BY <2>1, <2>2, <2>4 DEF Threads
    <2>5. CASE \E m \in DispatcherMoves : Goto(Dispatcher, m[1], m[2])
        BY <2>1, <2>2, <2>5 DEF Threads
    <2> QED BY <2>3, <2>4, <2>5, Moves
<1>2. ASSUME NEW w \in Workers, SetReady(w)
      PROVE  \A v \in ready' : v \in ready \/ pc'[v] = "broadcast"
    <2>1. CASE w \in Members
        BY <1>2, <2>1 DEF SetReady, Goto, PlaceTypes, Threads
    <2>2. CASE w \notin Members
        BY <1>2, <2>2 DEF SetReady
    <2> QED BY <2>1, <2>2
<1>3. ASSUME NEW w \in Workers, AddEnter(w)
      PROVE  ready' = ready
    BY <1>3 DEF AddEnter, Link, listVars
<1>4. ASSUME NEW t \in Threads, RemoveEnter(t)
      PROVE  ready' \subseteq ready
    BY <1>4 DEF RemoveEnter, Unlink, listVars
<1>5. CASE Choose
    BY <1>1, <1>5 DEF Choose
<1>6. CASE ListKept
    BY <1>1, <1>6, ListKeptStep DEF listVars
<1> QED BY <1>1, <1>2, <1>3, <1>4, <1>5, <1>6, NextCases

LEMMA SeedStep ==
    ASSUME WorkerTypes, PlaceTypes, ListTypes, ListInv, PlaceInv, SeedInv, [Next]_vars
    PROVE  SeedInv'
<1> USE RegistryAssumption
<1>1. AllAlive' => AllAlive
    <2> SUFFICES ASSUME AllAlive', NEW u \in Workers, pc[u] # "none" PROVE u \in alive
        BY DEF AllAlive
    <2>1. pc'[u] # "none"
        BY Readying
    <2>2. u \in alive'
        BY <2>1 DEF AllAlive
    <2> QED BY <2>2, Knowing
<1>2. ASSUME AllAlive, NEW v \in ready', NEW w \in ready', v # w, Broadcast(v)
      PROVE  v \in asked'
    <2>1. ready' = ready /\ v \in Workers
        BY <1>2, Positions DEF Broadcast, listVars, ListInv
    <2>2. /\ v \in Members /\ ready \subseteq Members /\ Members \subseteq Workers
          /\ \A u \in Members : Position(u) \in 1 .. Len(list) /\ list[Position(u)] = u
        BY <2>1, Positions DEF ListInv
    <2> DEFINE A == {Position(u) : u \in ready \ {v}}
    <2>3. A # {} /\ A \subseteq Nat
        BY <1>2, <2>1, <2>2
    <2>4. PICK j \in A : \A k \in A : j <= k
        BY <2>3, LeastNumber
    <2>5. PICK s \in ready \ {v} : j = Position(s)
        BY <2>4
    <2>6. s \in ExportSources(v)
        BY <2>4, <2>5 DEF ExportSources
    <2>7. s \in alive
        <3>1. pc[s] # "none" /\ s \in Workers
            BY <2>2, <2>5 DEF PlaceInv
        <3> QED BY <1>2, <3>1 DEF AllAlive
    <2>8. ExportSources(v) \cap alive # {}
        BY <2>6, <2>7
    <2> QED BY <1>2, <2>2, <2>8 DEF Broadcast
<1> SUFFICES ASSUME AllAlive, NEW v \in ready', NEW w \in ready', v # w,
                    pc'[v] \in Announced, pc'[w] \in Announced
             PROVE  v \in asked' \/ w \in asked'
    BY <1>1 DEF SeedInv
<1>3. v \in Members' /\ w \in Members'
    BY ListStep DEF ListInv
<1>4. v \in ready /\ w \in ready
    BY Readying DEF Announced
<1>5. (pc[v] \in Announced \/ Broadcast(v)) /\ (pc[w] \in Announced \/ Broadcast(w))
    BY <1>3, Announcing
<1>6. CASE Broadcast(v)
    BY <1>2, <1>6
<1>7. CASE Broadcast(w)
    BY <1>2, <1>7
<1>8. CASE pc[v] \in Announced /\ pc[w] \in Announced
    BY <1>4, <1>8, Knowing DEF SeedInv
<1> QED BY <1>5, <1>6, <1>7, <1>8

-----------------------------------------------------------------------------
(* Whose turn it is.                                                       *)

Place(s, u) == CHOOSE i \in 1 .. Len(s) : s[i] = u
Ring(n, c, p) == IF p >= c THEN p - c ELSE p - c + n
Turn(s, c, u) == Ring(Len(s), Place(s, c), Place(s, u))   \* links from c to u

(* Who was chosen since v's own turn and is still listed is further from   *)
(* current than v is.                                                      *)
TurnInv == /\ \A v \in ready : \A u \in passed[v] :
                 /\ pc[u] \notin Early
                 /\ u \in Members => Turn(list, current, v) < Turn(list, current, u)
           /\ \A v \in Workers \ ready : passed[v] = {}

LEMMA Places ==
    ASSUME ListInv
    PROVE  \A v \in Members : Place(list, v) = Position(v)
BY DEF Place, Position

\* current moves past the chosen node, which becomes the last.
LEMMA TurnChosen ==
    ASSUME NEW n \in Nat, NEW c \in 1 .. n, NEW p \in 1 .. n, NEW q \in 1 .. n, NEW x \in 1 .. n,
           NEW d, d = IF x + 1 > n THEN x + 1 - n ELSE x + 1
    PROVE  /\ /\ Ring(n, c, x) < Ring(n, c, p)
              /\ Ring(n, c, p) < Ring(n, c, q)
              => Ring(n, d, p) < Ring(n, d, q)
           /\ p # x => Ring(n, d, p) < Ring(n, d, x)
<1>1. CASE x = n
    BY <1>1 DEF Ring
<1>2. CASE x # n
    BY <1>2 DEF Ring
<1> QED BY <1>1, <1>2

\* A node is unlinked; if current stood there it moves to the next one.
LEMMA TurnUnlinked ==
    ASSUME NEW n \in Nat, NEW c \in 1 .. n, NEW p \in 1 .. n, NEW q \in 1 .. n, NEW x \in 1 .. n,
           p # x, q # x, Ring(n, c, p) < Ring(n, c, q),
           NEW p1, p1 = IF p < x THEN p ELSE p - 1,
           NEW q1, q1 = IF q < x THEN q ELSE q - 1,
           NEW c1, c1 = IF c = x THEN (IF x = n THEN 1 ELSE x)
                        ELSE IF c < x THEN c ELSE c - 1
    PROVE  Ring(n - 1, c1, p1) < Ring(n - 1, c1, q1)
<1>1. CASE c = x
    BY <1>1 DEF Ring
<1>2. CASE c < x
    BY <1>2 DEF Ring
<1>3. CASE c > x
    BY <1>3 DEF Ring
<1> QED BY <1>1, <1>2, <1>3

\* A node is linked at the end.
LEMMA TurnLinked ==
    ASSUME NEW n \in Nat, NEW c \in 1 .. n, NEW p \in 1 .. n, NEW q \in 1 .. n,
           Ring(n, c, p) < Ring(n, c, q)
    PROVE  Ring(n + 1, c, p) < Ring(n + 1, c, q)
BY DEF Ring

\* Where the others stand when w is unlinked.
LEMMA PlacesUnlinked ==
    ASSUME ListInv, NEW w \in Members, list' = Without(w), NEW u \in Members, u # w
    PROVE  Place(list', u) = IF Position(u) < Position(w) THEN Position(u) ELSE Position(u) - 1
<1> DEFINE n == Len(list)
           p == Position(w)
           q == Position(u)
           r == IF q < p THEN q ELSE q - 1
<1>1. n \in Nat /\ p \in 1 .. n /\ q \in 1 .. n /\ list[p] = w /\ list[q] = u
    BY Positions
<1>2. p # q
    BY <1>1
<1>3. /\ list' = [i \in 1 .. n - 1 |-> list[IF i < p THEN i ELSE i + 1]]
      /\ Len(list') = n - 1 /\ Distinct'
    BY Unlinked DEF Without
<1>4. r \in 1 .. n - 1 /\ list'[r] = u
    <2>1. CASE q < p
        BY <1>1, <1>3, <2>1
    <2>2. CASE q > p
        BY <1>1, <1>3, <2>2
    <2> QED BY <1>1, <1>2, <2>1, <2>2
<1> HIDE DEF r
<1>5. \A i \in 1 .. Len(list') : list'[i] = u => i = r
    BY <1>3, <1>4 DEF Distinct
<1>6. Place(list', u) = r
    BY <1>3, <1>4, <1>5 DEF Place
<1> QED BY <1>6 DEF r

\* Where the others stand when w is linked.
LEMMA PlacesLinked ==
    ASSUME ListInv, NEW w \in Workers, w \notin Members, list' = Append(list, w), NEW u \in Members
    PROVE  Place(list', u) = Position(u)
<1> DEFINE n == Len(list)
           q == Position(u)
<1>1. n \in Nat /\ q \in 1 .. n /\ list[q] = u
    BY Positions
<1>2. Len(list') = n + 1 /\ Distinct' /\ \A i \in 1 .. n : list'[i] = list[i]
    BY Linked, AppendProperties DEF ListInv
<1>3. q \in 1 .. Len(list') /\ list'[q] = u
    BY <1>1, <1>2
<1> HIDE DEF q
<1>4. \A i \in 1 .. Len(list') : list'[i] = u => i = q
    BY <1>3, <1>2 DEF Distinct
<1>5. Place(list', u) = q
    BY <1>3, <1>4 DEF Place
<1> QED BY <1>5 DEF q

\* The k-th link from current, and the worker there.
LEMMA TurnOf ==
    ASSUME ListInv, current \in Members
    PROVE  /\ \A v \in Members : /\ Turn(list, current, v) \in 0 .. Len(list) - 1
                                 /\ After(current, Turn(list, current, v)) = v
           /\ \A k \in 0 .. Len(list) - 1 : Turn(list, current, After(current, k)) = k
<1> DEFINE n == Len(list)
           c == Position(current)
<1>1. n \in Nat /\ c \in 1 .. n /\ Place(list, current) = c
    BY Positions, Places
<1>2. ASSUME NEW v \in Members
      PROVE  /\ Turn(list, current, v) \in 0 .. n - 1
             /\ After(current, Turn(list, current, v)) = v
    <2> DEFINE q == Position(v)
    <2>1. q \in 1 .. n /\ list[q] = v /\ Place(list, v) = q
        BY Positions, Places
    <2>2. Turn(list, current, v) = IF q >= c THEN q - c ELSE q - c + n
        BY <1>1, <2>1 DEF Turn, Ring
    <2> HIDE DEF q
    <2>3. Turn(list, current, v) \in 0 .. n - 1
        BY <1>1, <2>1, <2>2
    <2>4. LET r == c + Turn(list, current, v) IN (IF r > n THEN r - n ELSE r) = q
        BY <1>1, <2>1, <2>2
    <2> QED BY <2>1, <2>3, <2>4 DEF After
<1>3. ASSUME NEW k \in 0 .. n - 1 PROVE Turn(list, current, After(current, k)) = k
    <2> DEFINE r == IF c + k > n THEN c + k - n ELSE c + k
    <2>1. r \in 1 .. n /\ After(current, k) = list[r]
        BY <1>1 DEF After
    <2>2. Ring(n, c, r) = k
        BY <1>1 DEF Ring
    <2> HIDE DEF r
    <2>3. list[r] \in Members /\ Position(list[r]) = r
        BY <2>1, Positions DEF Members
    <2>4. Place(list, list[r]) = r
        BY <2>3, Places
    <2> QED BY <1>1, <2>1, <2>2, <2>4 DEF Turn
<1> QED BY <1>2, <1>3

\* GetNextWorker: the chosen worker goes to the end of everybody's turns.
LEMMA TurnChoice ==
    ASSUME ListTypes, ListInv, PlaceInv, TurnInv, PlaceTypes, Choose
    PROVE  /\ \A v \in ready : target' \notin passed[v] \/ v = target'
           /\ \A v \in ready' : \A u \in passed'[v] :
                 /\ pc[u] \notin Early
                 /\ u \in Members => Turn(list, current', v) < Turn(list, current', u)
           /\ \A v \in Workers \ ready : passed'[v] = {}
<1> DEFINE k == CHOOSE i \in 0 .. Len(list) - 1 :
                   /\ After(current, i) \in ready
                   /\ \A j \in 0 .. i - 1 : After(current, j) \notin ready
           w == After(current, k)
           n == Len(list)
<1>1. /\ ready # {} /\ ready' = ready
      /\ target' = w /\ current' = After(w, 1)
      /\ passed' = [v \in Workers |-> IF v = w \/ v \notin ready THEN {} ELSE passed[v] \cup {w}]
    BY DEF Choose
<1>2. \E i \in 0 .. Len(list) - 1 : /\ After(current, i) \in ready
                                    /\ \A j \in 0 .. i - 1 : After(current, j) \notin ready
    <2> DEFINE A == {i \in 0 .. Len(list) - 1 : After(current, i) \in ready}
    <2>1. k \in A
        BY <1>1, NextNode
    <2>2. A \subseteq Nat /\ A # {}
        BY <2>1
    <2>3. PICK m \in A : \A i \in A : m <= i
        BY <2>2, LeastNumber
    <2>4. \A j \in 0 .. m - 1 : After(current, j) \notin ready
        <3> SUFFICES ASSUME NEW j \in 0 .. m - 1, After(current, j) \in ready PROVE FALSE
            OBVIOUS
        <3>1. m \in 0 .. Len(list) - 1 /\ Len(list) \in Nat
            BY Positions
        <3>2. j \in A /\ j < m
            BY <3>1
        <3> QED BY <2>3, <3>1, <3>2
    <2> QED BY <2>3, <2>4
<1>3. k \in 0 .. n - 1 /\ w \in ready /\ \A j \in 0 .. k - 1 : After(current, j) \notin ready
    BY <1>2
<1> HIDE DEF k
<1>4. /\ ready \subseteq Members /\ Members \subseteq Workers /\ n \in Nat
      /\ current \in Members /\ w \in Members
      /\ \A v \in Members : Position(v) \in 1 .. n /\ list[Position(v)] = v
    BY <1>3, Positions DEF ListInv
<1>5. Turn(list, current, w) = k
    BY <1>3, <1>4, TurnOf
<1>6. \A v \in ready : v # w => k < Turn(list, current, v)
    <2> SUFFICES ASSUME NEW v \in ready, v # w PROVE k < Turn(list, current, v)
        OBVIOUS
    <2> DEFINE t == Turn(list, current, v)
    <2>1. t \in 0 .. n - 1 /\ After(current, t) = v
        BY <1>4, TurnOf
    <2> HIDE DEF t
    <2>2. t \notin 0 .. k - 1 /\ t # k
        BY <1>3, <2>1
    <2>3. k < t
        BY <1>3, <1>4, <2>1, <2>2
    <2> QED BY <2>3 DEF t
<1> HIDE DEF w
<1> DEFINE c == Position(current)
           x == Position(w)
           d == IF x + 1 > n THEN x + 1 - n ELSE x + 1
<1>7. /\ c \in 1 .. n /\ x \in 1 .. n /\ Place(list, current') = d
      /\ \A v \in Members : /\ Turn(list, current, v) = Ring(n, c, Position(v))
                            /\ Turn(list, current', v) = Ring(n, d, Position(v))
    <2>1. c \in 1 .. n /\ x \in 1 .. n
        BY <1>4
    <2>2. d \in 1 .. n
        BY <1>4, <2>1
    <2>3. current' = list[d]
        <3>1. current' = After(w, 1)
            BY <1>1
        <3>2. After(w, 1) = list[d]
            BY <1>4, <2>1 DEF After
        <3> QED BY <3>1, <3>2
    <2>4. list[d] \in Members /\ Position(list[d]) = d
        BY <2>2, Positions DEF Members
    <2>5. Place(list, list[d]) = d /\ Place(list, current) = c
        BY <1>4, <2>4, Places
    <2> HIDE DEF c, x, d
    <2> QED BY <2>1, <2>3, <2>5, Places DEF Turn
<1>8. \A v \in ready : w \notin passed[v] \/ v = w
    <2> SUFFICES ASSUME NEW v \in ready, v # w, w \in passed[v] PROVE FALSE
        OBVIOUS
    <2>1. Turn(list, current, v) < Turn(list, current, w)
        BY <1>4 DEF TurnInv
    <2>2. k < Turn(list, current, v) /\ Turn(list, current, v) \in Int /\ k \in Int
        BY <1>3, <1>4, <1>6, TurnOf
    <2> QED BY <1>5, <2>1, <2>2
<1>9. ASSUME NEW v \in ready, NEW u \in passed'[v]
      PROVE  /\ pc[u] \notin Early
             /\ u \in Members => Turn(list, current', v) < Turn(list, current', u)
    <2>1. v # w /\ v \in Members /\ u \in passed[v] \cup {w}
        BY <1>1, <1>4, <1>9
    <2>2. pc[w] \notin Early
        BY <1>4 DEF PlaceInv, Early
    <2>3. pc[u] \notin Early
        BY <2>1, <2>2 DEF TurnInv
    <2>4. Position(v) # x /\ Position(v) \in 1 .. n
        BY <1>4, <2>1
    <2>5. CASE u = w
        <3>1. Ring(n, d, Position(v)) < Ring(n, d, x)
            <4> HIDE DEF n, c, x
            <4> QED BY <1>4, <1>7, <2>4, TurnChosen
        <3> QED BY <1>4, <1>7, <2>1, <2>3, <2>5, <3>1
    <2>6. CASE u # w /\ u \in Members
        <3>1. Turn(list, current, v) < Turn(list, current, u)
            BY <2>1, <2>6 DEF TurnInv
        <3>2. Turn(list, current, w) < Turn(list, current, v)
            BY <1>5, <1>6, <2>1
        <3>3. Position(u) \in 1 .. n
            BY <1>4, <2>6
        <3>4. Ring(n, c, x) < Ring(n, c, Position(v))
            BY <1>4, <1>7, <2>1, <3>2
        <3>5. Ring(n, c, Position(v)) < Ring(n, c, Position(u))
            BY <1>7, <2>1, <2>6, <3>1
        <3>6. Ring(n, d, Position(v)) < Ring(n, d, Position(u))
            <4> HIDE DEF n, c, x
            <4> QED BY <1>4, <1>7, <2>4, <3>3, <3>4, <3>5, TurnChosen
        <3> QED BY <1>7, <2>1, <2>3, <2>6, <3>6
    <2> QED BY <2>1, <2>3, <2>5, <2>6
<1>10. \A v \in Workers \ ready : passed'[v] = {}
    BY <1>1
<1> QED BY <1>1, <1>8, <1>9, <1>10

LEMMA TurnStep ==
    ASSUME ListTypes, ListInv, PlaceTypes, PlaceInv, TurnInv, [Next]_vars
    PROVE  TurnInv'
<1> USE RegistryAssumption
<1>1. /\ Members \subseteq Workers /\ ready \subseteq Members
      /\ \A v \in Workers : pc'[v] \in Early => pc[v] \in Early
      /\ \A v \in Workers : passed[v] \subseteq Workers
    BY Positions, PlaceStep DEF ListInv, ListTypes
<1>2. CASE UNCHANGED <<list, ready, current, passed>>
    <2>1. Members' = Members
        BY <1>2 DEF Members
    <2>2. \A v \in ready : \A u \in passed[v] : u \in Workers
        BY <1>1
    <2>3. \A v \in ready : \A u \in passed[v] :
             /\ pc'[u] \notin Early
             /\ u \in Members' => Turn(list', current', v) < Turn(list', current', u)
        BY <1>1, <1>2, <2>1, <2>2 DEF TurnInv
    <2>4. \A v \in Workers \ ready : passed[v] = {}
        BY DEF TurnInv
    <2> QED BY <1>2, <2>3, <2>4 DEF TurnInv
<1>3. ASSUME NEW w \in Workers, SetReady(w)
      PROVE  TurnInv'
    <2>1. UNCHANGED <<list, current, passed>> /\ ready' \in {ready, ready \cup {w}}
        BY <1>3 DEF SetReady
    <2>2. Members' = Members
        BY <2>1 DEF Members
    <2>3. \A v \in ready' \ ready : passed[v] = {}
        BY <2>1 DEF TurnInv
    <2>4. \A v \in ready' : \A u \in passed[v] :
             /\ pc'[u] \notin Early
             /\ u \in Members => Turn(list, current, v) < Turn(list, current, u)
        <3> SUFFICES ASSUME NEW v \in ready', NEW u \in passed[v]
                     PROVE  /\ pc'[u] \notin Early
                            /\ u \in Members => Turn(list, current, v) < Turn(list, current, u)
            OBVIOUS
        <3>1. v \in ready
            BY <2>3
        <3>2. u \in Workers
            BY <1>1, <3>1
        <3> QED BY <1>1, <3>1, <3>2 DEF TurnInv
    <2>5. \A v \in Workers \ ready' : passed[v] = {}
        BY <2>1 DEF TurnInv
    <2> QED BY <2>1, <2>2, <2>4, <2>5 DEF TurnInv
<1>4. ASSUME NEW w \in Workers, AddEnter(w), ~ UNCHANGED listVars
      PROVE  TurnInv'
    <2>1. /\ list' = Append(list, w) /\ UNCHANGED <<ready, passed>>
          /\ current' = IF list = << >> THEN w ELSE current
          /\ pc[w] = "addEnter"
        BY <1>4 DEF AddEnter, Link, Goto, listVars
    <2>2. w \notin Members
        BY <2>1 DEF PlaceInv
    <2>3. Members' = Members \cup {w} /\ Len(list') = Len(list) + 1 /\ Len(list) \in Nat
        BY <2>1, <2>2, Linked, Positions
    <2>4. ASSUME NEW v \in ready, NEW u \in passed[v]
          PROVE  /\ pc'[u] \notin Early
                 /\ u \in Members' => Turn(list', current', v) < Turn(list', current', u)
        <3>1. v \in Members /\ u \in Workers /\ pc[u] \notin Early /\ u # w
            BY <1>1, <2>1 DEF TurnInv, Early
        <3>2. pc'[u] \notin Early
            BY <1>1, <3>1
        <3>3. current \in Members /\ current' = current
            BY <2>1, <3>1, Positions DEF ListInv
        <3>4. ASSUME u \in Members PROVE Turn(list', current', v) < Turn(list', current', u)
            <4> DEFINE n == Len(list)
                       c == Position(current)
                       p == Position(v)
                       q == Position(u)
            <4>1. c \in 1 .. n /\ p \in 1 .. n /\ q \in 1 .. n
                BY <3>1, <3>3, <3>4, Positions
            <4>2. Turn(list, current, v) < Turn(list, current, u)
                BY <3>4 DEF TurnInv
            <4>3. Ring(n, c, p) < Ring(n, c, q)
                BY <3>1, <3>3, <3>4, <4>2, Places DEF Turn
            <4>4. /\ Place(list', current') = c /\ Place(list', v) = p /\ Place(list', u) = q
                BY <2>1, <2>2, <3>1, <3>3, <3>4, PlacesLinked
            <4>5. Ring(n + 1, c, p) < Ring(n + 1, c, q)
                <5> HIDE DEF n, c, p, q
                <5>1. n \in Nat
                    BY <2>3 DEF n
                <5> QED BY <4>1, <4>3, <5>1, TurnLinked
            <4> QED BY <2>3, <4>4, <4>5 DEF Turn
        <3> QED BY <2>3, <3>1, <3>2, <3>4
    <2>5. \A v \in Workers \ ready : passed[v] = {}
        BY DEF TurnInv
    <2> QED BY <2>1, <2>4, <2>5 DEF TurnInv
<1>5. ASSUME NEW t \in Threads, RemoveEnter(t), Victim(t) \in Members
      PROVE  TurnInv'
    <2> DEFINE w == Victim(t)
    <2>1. /\ list' = Without(w) /\ ready' = ready \ {w}
          /\ current' = IF Len(list) = 1 THEN None
                        ELSE IF current = w THEN After(w, 1) ELSE current
          /\ passed' = [passed EXCEPT ![w] = {}]
          /\ w \in Members
        BY <1>5 DEF RemoveEnter, Unlink
    <2> HIDE DEF w
    <2>2. /\ Members' = Members \ {w} /\ Len(list') = Len(list) - 1 /\ Len(list) \in Nat
          /\ w \in Workers
        BY <1>1, <2>1, Unlinked, Positions
    <2>3. /\ \A v \in Workers : v # w => passed'[v] = passed[v]
          /\ passed'[w] = {}
        BY <2>1, <2>2 DEF ListTypes
    <2>4. ASSUME NEW v \in ready', NEW u \in passed'[v]
          PROVE  /\ pc'[u] \notin Early
                 /\ u \in Members' => Turn(list', current', v) < Turn(list', current', u)
        <3>1. v \in ready /\ v # w /\ v \in Members /\ u \in passed[v] /\ u \in Workers
            BY <1>1, <2>1, <2>3
        <3>2. pc'[u] \notin Early
            BY <1>1, <3>1 DEF TurnInv
        <3>3. current \in Members
            BY <3>1, Positions DEF ListInv
        <3>4. ASSUME u \in Members, u # w
              PROVE  Turn(list', current', v) < Turn(list', current', u)
            <4> DEFINE n == Len(list)
                       c == Position(current)
                       p == Position(v)
                       q == Position(u)
                       x == Position(w)
                       p1 == IF p < x THEN p ELSE p - 1
                       q1 == IF q < x THEN q ELSE q - 1
                       c1 == IF c = x THEN (IF x = n THEN 1 ELSE x)
                             ELSE IF c < x THEN c ELSE c - 1
            <4>1. /\ c \in 1 .. n /\ p \in 1 .. n /\ q \in 1 .. n /\ x \in 1 .. n /\ n \in Nat
                  /\ list[c] = current /\ list[p] = v /\ list[q] = u /\ list[x] = w
                BY <2>1, <2>2, <3>1, <3>3, <3>4, Positions
            <4>2. p # x /\ q # x
                BY <3>1, <3>4, <4>1
            <4>3. Turn(list, current, v) < Turn(list, current, u)
                BY <3>1, <3>4 DEF TurnInv
            <4>4. Ring(n, c, p) < Ring(n, c, q)
                BY <3>1, <3>3, <3>4, <4>3, Places DEF Turn
            <4>5. Place(list', v) = p1 /\ Place(list', u) = q1
                BY <2>1, <3>1, <3>4, PlacesUnlinked
            <4>6. n # 1
                <5> HIDE DEF n, p, x
                <5> QED BY <4>1, <4>2
            <4>7. Place(list', current') = c1
                <5>1. CASE current # w
                    <6>1. current' = current /\ c # x
                        BY <2>1, <4>1, <4>6, <5>1
                    <6>2. Place(list', current) = IF c < x THEN c ELSE c - 1
                        BY <2>1, <3>3, <5>1, PlacesUnlinked
                    <6> QED BY <6>1, <6>2
                <5>2. CASE current = w
                    <6> DEFINE y == IF x + 1 > n THEN x + 1 - n ELSE x + 1
                    <6>1. current' = After(w, 1) /\ c = x
                        BY <2>1, <4>6, <5>2
                    <6>2. y \in 1 .. n /\ y # x
                        <7> HIDE DEF n, x
                        <7> QED BY <4>1, <4>6
                    <6>3. After(w, 1) = list[y]
                        BY <4>1 DEF After
                    <6>4. list[y] \in Members /\ Position(list[y]) = y /\ list[y] # w
                        BY <4>1, <6>2, Positions DEF Members
                    <6>5. Place(list', list[y]) = IF y < x THEN y ELSE y - 1
                        <7> HIDE DEF y
                        <7> QED BY <2>1, <6>4, PlacesUnlinked
                    <6>6. (IF y < x THEN y ELSE y - 1) = IF x = n THEN 1 ELSE x
                        <7> HIDE DEF n, x
                        <7> QED BY <4>1, <4>6
                    <6> QED BY <6>1, <6>3, <6>5, <6>6
                <5> QED BY <5>1, <5>2
            <4>8. Ring(n - 1, c1, p1) < Ring(n - 1, c1, q1)
                <5> HIDE DEF n, c, p, q, x
                <5> QED BY <4>1, <4>2, <4>4, TurnUnlinked
            <4> QED BY <2>2, <4>5, <4>7, <4>8 DEF Turn
        <3> QED BY <2>2, <3>1, <3>2, <3>4
    <2>5. \A v \in Workers \ ready' : passed'[v] = {}
        BY <2>1, <2>2, <2>3 DEF TurnInv
    <2> QED BY <2>4, <2>5 DEF TurnInv
<1>6. CASE Choose
    <2>1. UNCHANGED <<list, ready>> /\ Members' = Members
        BY <1>6 DEF Choose, Members
    <2>2. /\ \A v \in ready' : \A u \in passed'[v] :
                /\ pc[u] \notin Early
                /\ u \in Members => Turn(list, current', v) < Turn(list, current', u)
          /\ \A v \in Workers \ ready : passed'[v] = {}
        BY <1>6, TurnChoice
    <2>3. \A v \in ready' : \A u \in passed'[v] : u \in Workers
        BY <1>1, <2>1, ListStep DEF ListTypes
    <2> QED BY <1>1, <2>1, <2>2, <2>3 DEF TurnInv
<1>7. CASE ListKept
    BY <1>2, <1>7, ListKeptStep DEF listVars
<1>8. ASSUME NEW w \in Workers, AddEnter(w) PROVE TurnInv'
    BY <1>2, <1>4, <1>8 DEF listVars
<1>9. ASSUME NEW t \in Threads, RemoveEnter(t) PROVE TurnInv'
    <2>1. CASE Victim(t) \notin Members
        BY <1>2, <1>9, <2>1 DEF RemoveEnter, listVars
    <2> QED BY <1>5, <1>9, <2>1
<1> QED BY <1>3, <1>6, <1>7, <1>8, <1>9, NextCases

-----------------------------------------------------------------------------
(* What removals that found no permit leave behind.                        *)

\* Places of a worker that is not ready yet.
Unready == Early \cup {"addSignal", "setReady"}

PastInv == /\ \A w \in ready : pc[w] \notin Unready
           /\ target # None => pc[target] \notin Unready
           /\ pc[Dispatcher] = "choose" => target = None
           /\ \A w \in Workers : pc[w] = "addSignal" => w \in Members
           /\ \A t \in Threads : pc[t] = "removeSignal" => Victim(t) \notin Members

(* StaleNodesExplained is not inductive: the dispatcher may let go of a    *)
(* worker whose receiver is gone, and a permit has come back meanwhile.    *)
(* Such a worker is counted from the moment its receiver gave up.          *)
Leaving == {w \in Members : \/ pc[w] \in {"removeEnter", "close", "done"}
                            \/ pc[Dispatcher] = "removeEnter" /\ target = w}

SpentInv == Cardinality(Leaving) + notEmpty + Cardinality(At("addSignal")) <= Len(list)

\* Who is about to signal has just been in the critical section.
LEMMA Entering ==
    ASSUME PlaceTypes, ListInv, PlaceInv, [Next]_vars, NEW t \in Threads
    PROVE  /\ pc'[t] = "addSignal" => pc[t] = "addSignal" \/ t \in Members'
           /\ pc'[t] = "removeSignal"
                 => \/ pc[t] = "removeSignal" /\ (t = Dispatcher => UNCHANGED target)
                    \/ RemoveEnter(t)
<1> USE RegistryAssumption
<1>1. Workers \subseteq Threads /\ Dispatcher \in Threads /\ Dispatcher \notin Workers
    BY DEF Threads
<1>2. ASSUME NEW u \in Threads, NEW a, NEW b \in PCs \ {"addSignal", "removeSignal"}, Goto(u, a, b)
      PROVE  pc'[t] \in {"addSignal", "removeSignal"} => pc'[t] = pc[t] /\ t # u
    BY <1>2 DEF Goto, PlaceTypes
<1>3. CASE UNCHANGED <<pc, target>>
    BY <1>3
<1>4. ASSUME NEW u \in Threads, NEW a, NEW b \in PCs \ {"addSignal", "removeSignal"},
             Goto(u, a, b), u = Dispatcher \/ UNCHANGED target
      PROVE  /\ pc'[t] = "addSignal" => pc[t] = "addSignal"
             /\ pc'[t] = "removeSignal"
                   => pc[t] = "removeSignal" /\ (t = Dispatcher => UNCHANGED target)
    BY <1>2, <1>4
<1>5. ASSUME NEW w \in Workers, AddEnter(w)
      PROVE  /\ pc'[t] = "addSignal" => pc[t] = "addSignal" \/ t \in Members'
             /\ pc'[t] = "removeSignal"
                   => pc[t] = "removeSignal" /\ (t = Dispatcher => UNCHANGED target)
    <2>1. CASE Len(list) >= MaxWorkers
        <3>1. Goto(w, "addEnter", "setReady") /\ UNCHANGED target
            BY <1>5, <2>1 DEF AddEnter
        <3> QED BY <1>1, <1>4, <3>1 DEF PCs
    <2>2. CASE ~(Len(list) >= MaxWorkers)
        <3>1. Goto(w, "addEnter", "addSignal") /\ list' = Append(list, w) /\ UNCHANGED target
            BY <1>5, <2>2 DEF AddEnter, Link
        <3>2. w \notin Members
            BY <3>1 DEF Goto, PlaceInv
        <3>3. w \in Members'
            BY <3>1, <3>2, Linked
        <3> QED BY <1>1, <3>1, <3>3 DEF Goto, PlaceTypes
    <2> QED BY <2>1, <2>2
<1>6. ASSUME NEW w \in Workers, Connect(w) \/ (ReceiverStep(w) /\ ~AddEnter(w))
      PROVE  /\ pc'[t] = "addSignal" => pc[t] = "addSignal"
             /\ pc'[t] = "removeSignal"
                   => pc[t] = "removeSignal" /\ (t = Dispatcher => UNCHANGED target)
    <2>1. UNCHANGED target /\ \E a, b \in PCs \ {"addSignal", "removeSignal"} :
                                 Goto(w, a, b) \/ Goto(w, "addSignal", b)
        BY <1>6 DEF Connect, ReceiverStep, ReceiveReady, AddWait, AddSignal, SetReady, Broadcast,
           SendRegistry, ReceiveFails, CloseConnection, PCs
    <2> QED BY <1>1, <1>4, <2>1
<1>7. ASSUME NEW u \in Threads, RemoveStep(u)
      PROVE  /\ pc'[t] = "addSignal" => pc[t] = "addSignal"
             /\ pc'[t] = "removeSignal"
                   => \/ pc[t] = "removeSignal" /\ (t = Dispatcher => UNCHANGED target)
                      \/ RemoveEnter(t)
    <2>1. CASE RemoveEnter(u)
        <3>1. Goto(u, "removeEnter", "removeSignal") /\ UNCHANGED target
            BY <2>1 DEF RemoveEnter
        <3> QED BY <2>1, <3>1 DEF Goto, PlaceTypes
    <2>2. CASE RemoveWait(u) \/ RemoveSignal(u)
        <3>1. \E a, b \in {"remove", "removeEnter", "choose", "close"} :
                 Goto(u, a, b) \/ Goto(u, "removeSignal", b)
            BY <2>2 DEF RemoveWait, RemoveSignal, Return
        <3>2. u = Dispatcher \/ UNCHANGED target
            BY <2>2 DEF RemoveWait, RemoveSignal, Return
        <3> QED BY <1>4, <3>1, <3>2 DEF PCs
    <2> QED BY <1>7, <2>1, <2>2 DEF RemoveStep
<1>8. CASE Choose \/ Send
    <2>1. \E a, b \in {"choose", "send", "remove"} : Goto(Dispatcher, a, b)
        BY <1>8 DEF Choose, Send
    <2> QED BY <1>1, <1>4, <2>1 DEF PCs
<1>9. CASE ChooseNone \/ (\E w \in Workers : Crash(w)) \/ UNCHANGED vars
    BY <1>3, <1>9 DEF ChooseNone, Crash, vars
<1> QED BY <1>5, <1>6, <1>7, <1>8, <1>9 DEF Next

\* A worker that becomes ready or is chosen stays past SetWorkerReady.
LEMMA PastStep ==
    ASSUME PlaceTypes, ListTypes, ListInv, PlaceInv, PastInv, [Next]_vars
    PROVE  /\ PastInv'
           /\ \A v \in Workers : pc'[v] \in Unready => pc[v] \in Unready
<1> USE RegistryAssumption
<1>1. /\ Workers \subseteq Threads /\ Dispatcher \in Threads /\ Dispatcher \notin Workers
      /\ Members \subseteq Workers /\ ListInv' /\ PlaceTypes'
      /\ \A v \in Members' \ Members : pc'[v] = "addSignal"
    BY ListStep, PlaceStep, Positions DEF Threads
<1>2. Members' \subseteq Workers /\ ready' \subseteq Members'
    BY <1>1 DEF ListInv, Members
<1>3. \A v \in Workers : pc'[v] \in Unready => pc[v] \in Unready
    <2>1. CASE UNCHANGED <<pc, target>>
        BY <2>1
    <2>2. ASSUME NEW w \in Workers, NEW m \in ReceiverMoves, Goto(w, m[1], m[2])
          PROVE  \A v \in Workers : pc'[v] \in Unready => pc[v] \in Unready
        <3>1. m[2] \in Unready => m[1] \in Unready
            BY DEF ReceiverMoves, Unready, Early
        <3> QED BY <1>1, <2>2, <3>1 DEF Goto, PlaceTypes
    <2>3. ASSUME NEW m \in DispatcherMoves, Goto(Dispatcher, m[1], m[2])
          PROVE  \A v \in Workers : pc'[v] \in Unready => pc[v] \in Unready
        BY <1>1, <2>3 DEF Goto, PlaceTypes
    <2> QED BY <2>1, <2>2, <2>3, Moves
<1>4. \A w \in ready' : pc'[w] \notin Unready
    BY <1>1, <1>2, <1>3, Readying DEF PastInv, Unready, Early
<1>5. /\ target' # None => pc'[target'] \notin Unready
      /\ pc'[Dispatcher] = "choose" => target' = None
    <2>1. CASE UNCHANGED <<pc, target>>
        BY <2>1 DEF PastInv
    <2>2. ASSUME NEW w \in Workers, NEW m \in ReceiverMoves, Goto(w, m[1], m[2]), UNCHANGED target
          PROVE  /\ target' # None => pc'[target'] \notin Unready
                 /\ pc'[Dispatcher] = "choose" => target' = None
        <3>1. pc'[Dispatcher] = pc[Dispatcher]
            BY <1>1, <2>2 DEF Goto, PlaceTypes
        <3> QED BY <1>3, <2>2, <3>1 DEF PastInv, PlaceTypes
    <2>3. CASE Choose
        <3> DEFINE k == CHOOSE i \in 0 .. Len(list) - 1 :
                           /\ After(current, i) \in ready
                           /\ \A j \in 0 .. i - 1 : After(current, j) \notin ready
        <3>1. ready # {} /\ target' = After(current, k) /\ Goto(Dispatcher, "choose", "send")
            BY <2>3 DEF Choose
        <3>2. After(current, k) \in ready
            BY <3>1, NextNode
        <3>3. target' \in ready /\ target' \in Workers
            BY <1>1, <3>1, <3>2 DEF ListInv
        <3>4. pc'[target'] \notin Unready
            BY <1>3, <3>3 DEF PastInv
        <3>5. pc'[Dispatcher] = "send"
            BY <1>1, <3>1 DEF Goto, PlaceTypes
        <3> QED BY <3>4, <3>5
    <2>4. ASSUME NEW m \in DispatcherMoves, Goto(Dispatcher, m[1], m[2]),
                 m[2] # "send", m[2] # "choose" => UNCHANGED target, m[2] = "choose" => target' = None
          PROVE  /\ target' # None => pc'[target'] \notin Unready
                 /\ pc'[Dispatcher] = "choose" => target' = None
        <3>1. pc'[Dispatcher] = m[2]
            BY <1>1, <2>4 DEF Goto, PlaceTypes
        <3> QED BY <1>3, <2>4, <3>1 DEF PastInv, PlaceTypes
    <2> QED BY <2>1, <2>2, <2>3, <2>4, Moves
<1>6. ASSUME NEW w \in Members, w \notin Members'
      PROVE  \E t \in Threads : RemoveEnter(t) /\ w = Victim(t)
    <2>1. CASE ListKept
        BY <1>6, <2>1, ListKeptStep DEF listVars, Members
    <2>2. ASSUME NEW v \in Workers, AddEnter(v) \/ SetReady(v) PROVE FALSE
        <3>1. list' = list \/ (AddEnter(v) /\ list' = Append(list, v))
            BY <2>2 DEF AddEnter, SetReady, Link, listVars
        <3>2. CASE list' = list
            BY <1>6, <3>2 DEF Members
        <3>3. CASE AddEnter(v) /\ list' = Append(list, v)
            <4>1. v \notin Members
                BY <3>3 DEF AddEnter, Goto, PlaceInv
            <4> QED BY <1>6, <3>3, <4>1, Linked
        <3> QED BY <3>1, <3>2, <3>3
    <2>3. ASSUME NEW t \in Threads, RemoveEnter(t) PROVE w = Victim(t)
        <3>1. CASE Victim(t) \in Members
            <4>1. list' = Without(Victim(t))
                BY <2>3, <3>1 DEF RemoveEnter, Unlink
            <4> QED BY <1>6, <3>1, <4>1, Unlinked
        <3>2. CASE Victim(t) \notin Members
            BY <1>6, <2>3, <3>2 DEF RemoveEnter, listVars, Members
        <3> QED BY <3>1, <3>2
    <2>4. CASE Choose
        BY <1>6, <2>4 DEF Choose, Members
    <2> QED BY <2>1, <2>2, <2>3, <2>4, NextCases
<1>7. ASSUME NEW w \in Workers, pc'[w] = "addSignal"
      PROVE  w \in Members'
    <2> SUFFICES ASSUME pc[w] = "addSignal", w \in Members, w \notin Members' PROVE FALSE
        BY <1>1, <1>7, Entering DEF PastInv
    <2>1. PICK t \in Threads : RemoveEnter(t) /\ w = Victim(t)
        BY <1>6
    <2>2. pc[t] = "removeEnter"
        BY <2>1 DEF RemoveEnter, Goto
    <2>3. t = Dispatcher /\ target = w
        BY <2>1, <2>2 DEF Victim
    <2> QED BY <2>3 DEF PastInv, Unready
<1>8. ASSUME NEW t \in Threads, pc'[t] = "removeSignal", Victim(t)' \in Members'
      PROVE  FALSE
    <2>1. CASE pc[t] = "removeSignal" /\ (t = Dispatcher => UNCHANGED target)
        <3>1. Victim(t)' = Victim(t) /\ Victim(t) \notin Members
            BY <2>1 DEF Victim, PastInv
        <3>2. Victim(t) \in Workers /\ pc'[Victim(t)] = "addSignal"
            BY <1>1, <1>2, <1>8, <3>1
        <3>3. t = Dispatcher /\ Victim(t) = target
            BY <1>8, <3>2 DEF Victim
        <3> QED BY <1>3, <3>2, <3>3 DEF PastInv, Unready
    <2>2. CASE RemoveEnter(t)
        <3>1. Victim(t)' = Victim(t)
            BY <2>2 DEF RemoveEnter, Victim
        <3>2. CASE Victim(t) \in Members
            <4>1. list' = Without(Victim(t))
                BY <2>2, <3>2 DEF RemoveEnter, Unlink
            <4> QED BY <1>8, <3>1, <3>2, <4>1, Unlinked
        <3>3. CASE Victim(t) \notin Members
            BY <1>8, <2>2, <3>1, <3>3 DEF RemoveEnter, listVars, Members
        <3> QED BY <3>2, <3>3
    <2> QED BY <1>8, <2>1, <2>2, Entering
<1> QED BY <1>3, <1>4, <1>5, <1>7, <1>8 DEF PastInv

\* Members and waiting workers, counted.
LEMMA LeavingCounted ==
    ASSUME PlaceTypes, PlaceInv, ListInv
    PROVE  /\ Leaving \subseteq Members /\ Members \subseteq Workers
           /\ IsFiniteSet(Members) /\ Cardinality(Members) = Len(list)
           /\ IsFiniteSet(Leaving) /\ Cardinality(Leaving) \in Nat
           /\ IsFiniteSet(At("addSignal")) /\ Cardinality(At("addSignal")) \in Nat
           /\ At("addSignal") \subseteq Workers
<1> USE RegistryAssumption
<1>1. Leaving \subseteq Members /\ Members \subseteq Workers
    BY Positions DEF Leaving
<1>2. IsFiniteSet(Members) /\ IsFiniteSet(Leaving) /\ Cardinality(Leaving) \in Nat
    BY <1>1, FS_Subset, FS_CardinalityType
<1>3. At("addSignal") \subseteq Workers
    BY DEF At, Threads, PlaceInv
<1>4. IsFiniteSet(At("addSignal")) /\ Cardinality(At("addSignal")) \in Nat
    BY <1>3, FS_Subset, FS_CardinalityType
<1> QED BY <1>1, <1>2, <1>3, <1>4, MembersCounted

\* With no permit left, everybody who leaves has a node of his own.
LEMMA NoPermitLeft ==
    ASSUME PlaceTypes, PlaceInv, ListInv, PastInv, notEmpty = 0
    PROVE  SpentInv
<1> USE RegistryAssumption
<1> DEFINE S == At("addSignal")
<1>1. /\ IsFiniteSet(Members) /\ Cardinality(Members) = Len(list)
      /\ IsFiniteSet(Leaving) /\ Cardinality(Leaving) \in Nat
      /\ IsFiniteSet(S) /\ Cardinality(S) \in Nat
      /\ Leaving \subseteq Members /\ S \subseteq Workers
    BY LeavingCounted
<1>2. S \subseteq Members
    BY <1>1 DEF PastInv, At
<1>3. Leaving \cap S = {}
    BY <1>1 DEF Leaving, At, PastInv, Unready
<1> HIDE DEF S
<1>4. Cardinality(Leaving \cup S) = Cardinality(Leaving) + Cardinality(S)
    <2>1. Cardinality(Leaving \cap S) = 0
        BY <1>3, FS_EmptySet
    <2>2. Cardinality(Leaving \cup S) = Cardinality(Leaving) + Cardinality(S) - Cardinality(Leaving \cap S)
        BY <1>1, FS_Union
    <2> QED BY <1>1, <2>1, <2>2
<1>5. Cardinality(Leaving \cup S) <= Cardinality(Members)
    <2>1. Leaving \cup S \subseteq Members
        BY <1>1, <1>2
    <2> QED BY <1>1, <2>1, FS_Subset
<1>6. Cardinality(Leaving) + 0 + Cardinality(S) <= Len(list)
    BY <1>1, <1>4, <1>5
<1> QED BY <1>6 DEF SpentInv, S

\* Both in the state after a step.
Counted == /\ Leaving \subseteq Members /\ Members \subseteq Workers
           /\ IsFiniteSet(Leaving) /\ Cardinality(Leaving) \in Nat
           /\ Cardinality(At("addSignal")) \in Nat /\ Len(list) \in Nat

NonePermitted == notEmpty = 0

LEMMA CountedNext ==
    /\ PlaceTypes' /\ PlaceInv' /\ ListInv' => Counted'
    /\ PlaceTypes' /\ PlaceInv' /\ ListInv' /\ PastInv' /\ NonePermitted' => SpentInv'
<1>1. PlaceTypes /\ PlaceInv /\ ListInv => Counted
    BY LeavingCounted, Positions DEF Counted
<1>2. PlaceTypes /\ PlaceInv /\ ListInv /\ PastInv /\ NonePermitted => SpentInv
    BY NoPermitLeft DEF NonePermitted
<1> QED BY <1>1, <1>2, PTL

LEMMA SpentStep ==
    ASSUME PlaceTypes, PlaceInv, PermitTypes, ListTypes, ListInv, PastInv, SpentInv, [Next]_vars
    PROVE  SpentInv'
<1> USE RegistryAssumption
<1> DEFINE c == Cardinality(Leaving)
           sig == Cardinality(At("addSignal"))
<1>1. /\ Workers \subseteq Threads /\ Dispatcher \in Threads /\ Dispatcher \notin Workers
      /\ PCs = PCs \cup {"removeEnter", "addSignal", "removeSignal", "setReady"}
      /\ PlaceTypes' /\ PlaceInv' /\ ListInv' /\ PastInv' /\ PermitTypes'
    BY PlaceStep, ListStep, PastStep, PermitStep DEF Threads, PCs
<1>2. /\ Leaving \subseteq Members /\ Members \subseteq Workers /\ IsFiniteSet(Leaving)
      /\ c \in Nat /\ sig \in Nat /\ Len(list) \in Nat /\ notEmpty \in Nat
      /\ c + notEmpty + sig <= Len(list)
    BY LeavingCounted, Positions DEF SpentInv, PermitTypes
<1>3. /\ IsFiniteSet(Leaving') /\ c' \in Nat /\ sig' \in Nat /\ Len(list') \in Nat /\ notEmpty' \in Nat
      /\ Leaving' \subseteq Members' /\ Members' \subseteq Workers
    BY <1>1, CountedNext DEF PermitTypes, Counted
<1>4. Leaving' \subseteq Leaving => c' <= c
    BY <1>2, FS_Subset
<1> HIDE DEF c, sig
\* Any step that neither counts anybody anew nor touches a permit.
<1>5. ASSUME UNCHANGED <<list, notEmpty>>, Leaving' \subseteq Leaving, sig' <= sig
      PROVE  SpentInv'
    <2>1. c' + notEmpty' + sig' <= Len(list')
        BY <1>2, <1>3, <1>4, <1>5
    <2> QED BY <2>1 DEF SpentInv, c, sig
<1>6. ASSUME NEW t \in Threads, NEW a, NEW b \in PCs, Goto(t, a, b), a # b, b # "addSignal",
             UNCHANGED <<list, notEmpty>>, b \notin {"removeEnter", "close", "done"},
             t = Dispatcher \/ UNCHANGED target
      PROVE  SpentInv'
    <2>1. sig' <= sig
        BY <1>2, <1>6, AtCounted DEF sig
    <2>2. Members' = Members
        BY <1>6 DEF Members
    <2>3. Leaving' \subseteq Leaving
        BY <1>1, <1>2, <1>6, <2>2 DEF Leaving, Goto, PlaceTypes
    <2> QED BY <1>5, <1>6, <2>1, <2>3
<1>7. ASSUME NEW w \in Workers, NEW a, Goto(w, a, "close") \/ Goto(w, a, "done"),
             w \notin Members \/ a \in {"close", "done"}, a # "addSignal",
             UNCHANGED <<list, notEmpty, target>>
      PROVE  SpentInv'
    <2>1. At("addSignal")' = At("addSignal")
        BY <1>1, <1>7 DEF At, Goto, PlaceTypes
    <2>2. Members' = Members
        BY <1>7 DEF Members
    <2>3. Leaving' \subseteq Leaving
        BY <1>1, <1>2, <1>7, <2>2 DEF Leaving, Goto, PlaceTypes
    <2> QED BY <1>2, <1>5, <1>7, <2>1, <2>3 DEF sig
<1>8. CASE UNCHANGED <<pc, target, list, notEmpty>>
    <2>1. Leaving' = Leaving /\ sig' = sig
        BY <1>8 DEF Leaving, Members, sig, At
    <2> QED BY <1>2, <1>5, <1>8, <2>1
<1>9. ASSUME NEW w \in Workers, AddEnter(w)
      PROVE  SpentInv'
    <2>1. CASE Len(list) >= MaxWorkers
        <3>1. Goto(w, "addEnter", "setReady") /\ UNCHANGED <<list, notEmpty, target>>
            BY <1>9, <2>1 DEF AddEnter, listVars
        <3> QED BY <1>1, <1>6, <3>1
    <2>2. CASE ~(Len(list) >= MaxWorkers)
        <3>1. /\ Goto(w, "addEnter", "addSignal") /\ UNCHANGED <<notEmpty, target>>
              /\ list' = Append(list, w)
            BY <1>9, <2>2 DEF AddEnter, Link
        <3>2. w \notin Members /\ pc[w] \in Unready
            BY <3>1 DEF Goto, PlaceInv, Unready, Early
        <3>3. Len(list') = Len(list) + 1 /\ Members' = Members \cup {w}
            BY <3>1, <3>2, Linked
        <3>4. sig' = sig + 1
            BY <1>1, <3>1, AtCounted DEF sig
        <3>5. target # w
            BY <3>2, RegistryAssumption DEF PastInv
        <3>6. Leaving' \subseteq Leaving
            BY <1>1, <1>2, <3>1, <3>3, <3>5 DEF Leaving, Goto, PlaceTypes
        <3>7. c' + notEmpty' + sig' <= Len(list')
            BY <1>2, <1>3, <1>4, <3>1, <3>3, <3>4, <3>6
        <3> QED BY <3>7 DEF SpentInv, c, sig
    <2> QED BY <2>1, <2>2
<1>10. ASSUME NEW w \in Workers, AddSignal(w)
       PROVE  SpentInv'
    <2>1. /\ Goto(w, "addSignal", "setReady") /\ notEmpty' = Released(notEmpty)
          /\ UNCHANGED <<list, target>>
        BY <1>10 DEF AddSignal, listVars
    <2>2. sig' = sig - 1
        BY <1>1, <2>1, AtCounted DEF sig
    <2>3. notEmpty' <= notEmpty + 1
        BY <1>2, <2>1 DEF Released
    <2>4. Members' = Members
        BY <2>1 DEF Members
    <2>5. Leaving' \subseteq Leaving
        BY <1>1, <1>2, <2>1, <2>4 DEF Leaving, Goto, PlaceTypes
    <2>6. c' + notEmpty' + sig' <= Len(list')
        BY <1>2, <1>3, <1>4, <2>1, <2>2, <2>3, <2>5
    <2> QED BY <2>6 DEF SpentInv, c, sig
<1>11. ASSUME NEW t \in Threads, RemoveWait(t)
       PROVE  SpentInv'
    <2>1. CASE notEmpty = 0
        <3>1. notEmpty' = 0
            BY <1>11, <2>1 DEF RemoveWait
        <3> QED BY <1>1, <3>1, CountedNext DEF NonePermitted
    <2>2. CASE notEmpty # 0
        <3>1. /\ Goto(t, "remove", "removeEnter") /\ notEmpty' = notEmpty - 1
              /\ UNCHANGED <<list, target>>
            BY <1>11, <2>2 DEF RemoveWait, listVars
        <3>2. sig' = sig
            BY <1>1, <3>1, AtCounted DEF sig
        <3>3. Members' = Members
            BY <3>1 DEF Members
        <3>4. Leaving' \subseteq Leaving \cup {Victim(t)}
            BY <1>1, <1>2, <3>1, <3>3 DEF Leaving, Goto, PlaceTypes, Victim
        <3>5. /\ IsFiniteSet(Leaving \cup {Victim(t)})
              /\ Cardinality(Leaving \cup {Victim(t)}) \in Nat
              /\ Cardinality(Leaving \cup {Victim(t)}) <= c + 1
            <4>1. /\ IsFiniteSet(Leaving \cup {Victim(t)})
                  /\ Cardinality(Leaving \cup {Victim(t)})
                        = IF Victim(t) \in Leaving THEN c ELSE c + 1
                BY <1>2, FS_AddElement DEF c
            <4> QED BY <1>2, <4>1
        <3>6. c' <= c + 1
            BY <1>2, <1>3, <3>4, <3>5, FS_Subset DEF c
        <3>7. c' + notEmpty' + sig' <= Len(list')
            BY <1>2, <1>3, <3>1, <3>2, <3>6
        <3> QED BY <3>7 DEF SpentInv, c, sig
    <2> QED BY <2>1, <2>2
<1>12. ASSUME NEW t \in Threads, RemoveEnter(t)
       PROVE  SpentInv'
    <2>1. Goto(t, "removeEnter", "removeSignal") /\ UNCHANGED <<notEmpty, target>>
        BY <1>12 DEF RemoveEnter
    <2>2. sig' = sig
        BY <1>1, <2>1, AtCounted DEF sig
    <2>3. CASE Victim(t) \in Members
        <3>1. list' = Without(Victim(t))
            BY <1>12, <2>3 DEF RemoveEnter, Unlink
        <3>2. Len(list') = Len(list) - 1 /\ Members' = Members \ {Victim(t)}
            BY <2>3, <3>1, Unlinked
        <3>3. Victim(t) \in Leaving
            BY <2>1, <2>3 DEF Leaving, Goto, Victim
        <3>4. Leaving' \subseteq Leaving \ {Victim(t)}
            BY <1>1, <1>2, <2>1, <3>2 DEF Leaving, Goto, PlaceTypes, Victim
        <3>5. /\ IsFiniteSet(Leaving \ {Victim(t)})
              /\ Cardinality(Leaving \ {Victim(t)}) = c - 1
            BY <1>2, <3>3, FS_RemoveElement DEF c
        <3>6. c' <= c - 1
            BY <1>2, <1>3, <3>4, <3>5, FS_Subset DEF c
        <3>7. c' + notEmpty' + sig' <= Len(list')
            BY <1>2, <1>3, <2>1, <2>2, <3>2, <3>6
        <3> QED BY <3>7 DEF SpentInv, c, sig
    <2>4. CASE Victim(t) \notin Members
        <3>1. UNCHANGED list
            BY <1>12, <2>4 DEF RemoveEnter, listVars
        <3> QED BY <1>1, <1>6, <2>1, <3>1
    <2> QED BY <2>3, <2>4
<1>13. ASSUME NEW t \in Threads, RemoveSignal(t)
       PROVE  SpentInv'
    <2>1. Return(t, "removeSignal") /\ UNCHANGED <<list, notEmpty>>
        BY <1>13 DEF RemoveSignal, listVars
    <2>2. CASE t = Dispatcher
        <3>1. Goto(t, "removeSignal", "choose")
            BY <2>1, <2>2 DEF Return
        <3> QED BY <1>1, <1>6, <2>1, <2>2, <3>1 DEF PCs
    <2>3. CASE t # Dispatcher
        <3>1. Goto(t, "removeSignal", "close") /\ UNCHANGED target /\ t \in Workers
            BY <2>1, <2>3 DEF Return, Threads
        <3>2. t \notin Members
            BY <2>3, <3>1 DEF PastInv, Victim, Goto
        <3> QED BY <1>7, <2>1, <3>1, <3>2
    <2> QED BY <2>2, <2>3
<1>14. ASSUME NEW w \in Workers, Connect(w) \/ Crash(w) \/ ReceiverStep(w)
       PROVE  SpentInv'
    <2>1. CASE AddEnter(w) \/ AddSignal(w)
        BY <1>9, <1>10, <2>1
    <2>2. CASE Crash(w)
        BY <1>8, <2>2 DEF Crash, listVars
    <2>3. CASE \/ Connect(w) \/ ReceiveReady(w) \/ AddWait(w) \/ SetReady(w) \/ Broadcast(w)
               \/ SendRegistry(w) \/ (ReceiveFails(w) /\ Goto(w, "serve", "remove"))
        <3>1. /\ UNCHANGED <<list, notEmpty, target>>
              /\ \/ Goto(w, "none", "receive")
                 \/ Goto(w, "receive", "add") \/ Goto(w, "add", "addEnter")
                 \/ Goto(w, "add", "setReady")
                 \/ Goto(w, "setReady", "broadcast") \/ Goto(w, "setReady", "serve")
                 \/ Goto(w, "broadcast", "sendRegistry") \/ Goto(w, "sendRegistry", "serve")
                 \/ Goto(w, "serve", "remove")
            BY <2>3 DEF Connect, ReceiveReady, AddWait, SetReady, Broadcast, SendRegistry,
               ReceiveFails, listVars
        <3> QED BY <1>1, <1>6, <3>1 DEF PCs
    <2>4. CASE ReceiveFails(w) /\ Goto(w, "receive", "close")
        <3>1. UNCHANGED <<list, notEmpty, target>> /\ w \notin Members
            BY <2>4 DEF ReceiveFails, listVars, Goto, PlaceInv
        <3> QED BY <1>7, <2>4, <3>1
    <2>5. CASE CloseConnection(w)
        <3>1. Goto(w, "close", "done") /\ UNCHANGED <<list, notEmpty, target>>
            BY <2>5 DEF CloseConnection, listVars
        <3> QED BY <1>7, <3>1
    <2>6. CASE ReceiveFails(w)
        <3>1. Goto(w, "receive", "close") \/ Goto(w, "serve", "remove")
            BY <2>6 DEF ReceiveFails
        <3> QED BY <2>3, <2>4, <2>6, <3>1
    <2>7. CASE ReceiverStep(w)
        BY <2>1, <2>3, <2>5, <2>6, <2>7 DEF ReceiverStep
    <2>8. CASE Connect(w)
        BY <2>3, <2>8
    <2> QED BY <1>14, <2>2, <2>7, <2>8
<1>15. CASE Choose \/ Send
    <2>1. /\ \/ Goto(Dispatcher, "choose", "send")
             \/ Goto(Dispatcher, "send", "choose")
             \/ Goto(Dispatcher, "send", "remove")
          /\ UNCHANGED <<list, notEmpty>>
        BY <1>15 DEF Choose, Send, listVars
    <2> QED BY <1>1, <1>6, <2>1 DEF PCs
<1>16. CASE ChooseNone \/ UNCHANGED vars
    BY <1>8, <1>16 DEF ChooseNone, vars, listVars
<1> QED BY <1>11, <1>12, <1>13, <1>14, <1>15, <1>16 DEF Next, RemoveStep

-----------------------------------------------------------------------------
(* The inductive invariant, and what follows from it.                      *)

RegistryInv == /\ ListTypes /\ ListInv /\ PlaceTypes /\ PlaceInv /\ PermitTypes /\ WorkerTypes
               /\ RemovalsBacked /\ MeetInv /\ SeedInv /\ TurnInv /\ PastInv /\ SpentInv

LEMMA InitInv == Init => RegistryInv
<1> SUFFICES ASSUME Init PROVE RegistryInv
    OBVIOUS
<1> USE RegistryAssumption DEF Init
<1>1. Len(list) = 0 /\ Members = {} /\ list \in Seq(Workers)
    BY DEF Members
<1>2. ListInv /\ ListTypes
    BY <1>1 DEF ListInv, ListTypes, Distinct
<1>3. PlaceTypes
    BY DEF PlaceTypes, PCs
<1>4. PlaceInv
    BY <1>1 DEF PlaceInv, Threads
<1>5. PermitTypes /\ WorkerTypes
    BY DEF PermitTypes, WorkerTypes
<1>6. RemovalsBacked
    <2>1. At("removeEnter") = {} /\ At("addSignal") = {}
        BY DEF At
    <2>2. Cardinality(At("removeEnter")) = 0 /\ Cardinality(At("addSignal")) = 0
        BY <2>1, FS_EmptySet
    <2>3. notEmpty = 0
        OBVIOUS
    <2> HIDE DEF Init
    <2> QED BY <1>1, <2>2, <2>3 DEF RemovalsBacked
<1>7. MeetInv /\ SeedInv /\ TurnInv
    BY <1>1 DEF MeetInv, SeedInv, TurnInv
<1>8. PastInv
    BY DEF PastInv, Threads
<1>9. SpentInv
    BY <1>2, <1>3, <1>4, <1>8, NoPermitLeft
<1> QED BY <1>2, <1>3, <1>4, <1>5, <1>6, <1>7, <1>8, <1>9 DEF RegistryInv

LEMMA InvStep == RegistryInv /\ [Next]_vars => RegistryInv'
BY ListStep, PlaceStep, PermitStep, WorkerStep, BackedStep, MeetStep, SeedStep, TurnStep,
   PastStep, SpentStep
   DEF RegistryInv

LEMMA InvAlways == Spec => []RegistryInv
BY InitInv, InvStep, PTL DEF Spec

(* Every variable keeps its type, whatever the workers and the capacity.   *)
THEOREM TypeCorrect == Spec => []TypeOK
<1>1. RegistryInv => TypeOK
    BY DEF RegistryInv, TypeOK, ListInv, ListTypes, PlaceTypes, PermitTypes, WorkerTypes, Members
<1> QED BY <1>1, InvAlways, PTL

(* The list stays a list of distinct workers within its capacity, and the  *)
(* round-robin pointer points into it (WorkerList.c 94-213, 216-249).      *)
THEOREM ListStaysWellFormed == Spec => []ListWellFormed
<1>1. RegistryInv => ListWellFormed
    BY MembersCounted DEF RegistryInv, ListInv, ListWellFormed
<1> QED BY <1>1, InvAlways, PTL

(* A thread that got past RemoveWorker's wait meets a node to remove       *)
(* (WorkerList.c 141-213).                                                 *)
THEOREM RemovalsAreBacked == Spec => []RemovalsBacked
<1>1. RegistryInv => RemovalsBacked
    BY DEF RegistryInv
<1> QED BY <1>1, InvAlways, PTL

(* Workers stay listed for ever, their receivers gone, only as far as      *)
(* permits were used up for nothing (WorkerList.c 154).                    *)
THEOREM StaleNodesAreExplained == Spec => []StaleNodesExplained
<1>1. RegistryInv => StaleNodesExplained
    <2> SUFFICES ASSUME RegistryInv PROVE StaleNodesExplained
        OBVIOUS
    <2> USE RegistryAssumption
    <2> DEFINE V == {Victim(t) : t \in At("removeEnter")} \cap Members
    <2>1. /\ IsFiniteSet(Leaving) /\ Cardinality(Leaving) \in Nat
          /\ Cardinality(At("addSignal")) \in Nat /\ Len(list) \in Nat /\ notEmpty \in Nat
          /\ Cardinality(Leaving) + notEmpty + Cardinality(At("addSignal")) <= Len(list)
        BY LeavingCounted, Positions DEF RegistryInv, SpentInv, PermitTypes
    <2>2. Members \subseteq Workers
        BY Positions DEF RegistryInv
    <2>3. V \subseteq Leaving
        BY DEF Leaving, At, Victim
    <2>4. Stale \subseteq Leaving
        BY DEF Leaving, Stale
    <2>5. Stale \cap V = {}
        BY <2>2 DEF Stale, At, Victim, Threads
    <2> HIDE DEF V
    <2>6. /\ IsFiniteSet(V) /\ IsFiniteSet(Stale) /\ Cardinality(V) \in Nat
          /\ Cardinality(Stale) \in Nat
        BY <2>1, <2>3, <2>4, FS_Subset, FS_CardinalityType
    <2>7. Cardinality(Stale \cup V) = Cardinality(Stale) + Cardinality(V)
        <3>1. Cardinality(Stale \cap V) = 0
            BY <2>5, FS_EmptySet
        <3>2. Cardinality(Stale \cup V)
                 = Cardinality(Stale) + Cardinality(V) - Cardinality(Stale \cap V)
            BY <2>6, FS_Union
        <3> QED BY <2>6, <3>1, <3>2
    <2>8. Cardinality(Stale \cup V) <= Cardinality(Leaving)
        BY <2>1, <2>3, <2>4, FS_Subset
    <2>9. Cardinality(Stale) + notEmpty + Cardinality(At("addSignal")) + Cardinality(V) <= Len(list)
        BY <2>1, <2>6, <2>7, <2>8
    <2> QED BY <2>9 DEF StaleNodesExplained, V
<1> QED BY <1>1, InvAlways, PTL

(* Any two live workers that have finished registering know each other     *)
(* (WorkerDataReceiverThread.c 47-66).                                     *)
THEOREM WorkersMeet == Spec => []RegisteredWorkersMeet
<1>1. RegistryInv => RegisteredWorkersMeet
    BY DEF RegistryInv, ListInv, MeetInv, Announced, RegisteredWorkersMeet
<1> QED BY <1>1, InvAlways, PTL

(* While nobody is lost, at most one of the registered workers was seeded  *)
(* by nobody (WorkerList.c 515-551).                                       *)
THEOREM NewcomersAreSeeded == Spec => []NewcomersSeeded
<1>1. RegistryInv => NewcomersSeeded
    BY DEF RegistryInv, SeedInv, AllAlive, Announced, NewcomersSeeded
<1> QED BY <1>1, InvAlways, PTL

(* While a ready worker waits for its turn no other is chosen twice,       *)
(* whatever is added and removed in between (WorkerList.c 216-249).        *)
THEOREM RoundRobin == Spec => RoundRobinFair
<1> DEFINE Fair == pc[Dispatcher] = "choose" /\ pc'[Dispatcher] = "send"
                     => \A v \in ready \ {target'} : target' \notin passed[v]
<1>1. RegistryInv /\ [Next]_vars => [Fair]_vars
    <2> SUFFICES ASSUME RegistryInv, [Next]_vars,
                        pc[Dispatcher] = "choose", pc'[Dispatcher] = "send",
                        NEW v \in ready \ {target'}
                 PROVE  target' \notin passed[v]
        OBVIOUS
    <2>1. Choose
        <3>1. pc[Dispatcher] # pc'[Dispatcher]
            OBVIOUS
        <3>2. \A w \in Workers, m \in ReceiverMoves : ~ Goto(w, m[1], m[2])
            <4>1. ASSUME NEW w \in Workers, NEW m \in ReceiverMoves, Goto(w, m[1], m[2])
                  PROVE  pc[Dispatcher] = pc'[Dispatcher]
                BY <4>1, RegistryAssumption DEF Goto, RegistryInv, PlaceTypes, Threads
            <4> QED BY <3>1, <4>1
        <3>3. \A m \in DispatcherMoves : Goto(Dispatcher, m[1], m[2]) => m[2] = "send"
            BY DEF Goto, RegistryInv, PlaceTypes, Threads
        <3> QED BY <3>1, <3>2, <3>3, Moves DEF RegistryInv
    <2> QED BY <2>1, TurnChoice DEF RegistryInv
<1> QED BY <1>1, InvAlways, PTL DEF Spec, RoundRobinFair
=============================================================================
