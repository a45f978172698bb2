------------------------- MODULE ClientSessionProofs -------------------------
(***************************************************************************)
(* Proofs about ClientSession, for every number of messages: its types,    *)
(* that the permits stop every thread, that a paused sender sends at most  *)
(* once, and that "all responses received" is said early by no more than   *)
(* the answers that were another client's.                                 *)
(***************************************************************************)
EXTENDS ClientSession, FiniteSetTheorems, SequenceTheorems, TLAPS

\* How often x occurs in s.
Places(s, x) == {i \in 1 .. Len(s) : s[i] = x}
Count(s, x) == Cardinality(Places(s, x))

\* The requests of a type that are not answered, or never will be.
Open(type) == {r \in asked \cup refused : r[1] = type}

\* The requests of a type the sender has sent.
SentCount(type) == IF type = "put" THEN messageCounter ELSE verificationCounter

Types == {"put", "get"}

(* CompleteMeansVerified and the bounds of counted are not inductive: what *)
(* is needed is where the answers counted came from.                       *)
OpenInv == /\ IsFiniteSet(asked \cup refused)
           /\ asked \cap refused = {}
           /\ \A r \in asked \cup refused : r[1] \in Types /\ r[2] \in 1 .. SentCount(r[1])

Accounted == \A type \in Types :
    counted[type] + Count(answers, type) + Cardinality(Open(type))
        <= SentCount(type) + foreign[type]

CompleteInv == complete => counted.get >= MessageCount

PauseInv == /\ pauseSender <=> receiver = "sleep"
            /\ ~pauseSender => hasty = 0
            /\ hasty <= 1
            /\ hasty = 1 => sender # "send"

PermitInv == /\ ~finishFlag => finishSignal = 0
             /\ PermitsSuffice

Answers == {"put", "get", "busy", "shutdown"}

SessionInv == TypeOK /\ OpenInv /\ Accounted /\ CompleteInv /\ PauseInv /\ PermitInv

-----------------------------------------------------------------------------
(* Counting.                                                               *)

LEMMA PlacesFinite ==
    ASSUME NEW S, NEW s \in Seq(S), NEW x
    PROVE  IsFiniteSet(Places(s, x)) /\ Count(s, x) \in Nat
<1>1. Len(s) \in Nat /\ IsFiniteSet(1 .. Len(s))
    BY FS_Interval
<1>2. Places(s, x) \in SUBSET (1 .. Len(s))
    BY DEF Places
<1> QED BY <1>1, <1>2, FS_Subset, FS_CardinalityType DEF Count

\* Append adds one occurrence, of its element.
LEMMA CountAppend ==
    ASSUME NEW S, NEW s \in Seq(S), NEW e \in S, NEW x
    PROVE  Count(Append(s, e), x) = IF e = x THEN Count(s, x) + 1 ELSE Count(s, x)
<1> DEFINE n == Len(s)
<1>1. /\ n \in Nat
      /\ Append(s, e) \in Seq(S) /\ Len(Append(s, e)) = n + 1
      /\ \A i \in 1 .. n : Append(s, e)[i] = s[i]
      /\ Append(s, e)[n + 1] = e
    BY AppendProperties
<1>2. Places(Append(s, e), x) = IF e = x THEN Places(s, x) \cup {n + 1} ELSE Places(s, x)
    BY <1>1 DEF Places
<1>3. n + 1 \notin Places(s, x)
    BY <1>1 DEF Places
<1> QED BY <1>2, <1>3, PlacesFinite, FS_AddElement DEF Count

\* Tail takes one occurrence away, of the head.
LEMMA CountTail ==
    ASSUME NEW S, NEW s \in Seq(S), s # << >>, NEW x
    PROVE  Count(Tail(s), x) = IF Head(s) = x THEN Count(s, x) - 1 ELSE Count(s, x)
<1> DEFINE n == Len(s)
           P == Places(Tail(s), x)
           Q == Places(s, x) \ {1}
           f == [i \in P |-> i + 1]
<1>1. /\ n \in Nat \ {0}
      /\ Tail(s) \in Seq(S) /\ Len(Tail(s)) = n - 1
      /\ \A i \in 1 .. n - 1 : Tail(s)[i] = s[i + 1]
      /\ Head(s) = s[1]
    BY HeadTailProperties, EmptySeq
<1>2. P = {i \in 1 .. n - 1 : s[i + 1] = x} /\ Q = {i \in 2 .. n : s[i] = x}
    BY <1>1 DEF Places
<1>3. f \in Bijection(P, Q)
    <2>1. f \in [P -> Q]
        BY <1>1, <1>2
    <2>2. \A i, j \in P : f[i] = f[j] => i = j
        BY <1>1, <1>2
    <2>3. \A j \in Q : \E i \in P : f[i] = j
        <3> SUFFICES ASSUME NEW j \in Q PROVE j - 1 \in P /\ f[j - 1] = j
            OBVIOUS
        <3>1. j - 1 \in P
            BY <1>1, <1>2
        <3> QED BY <3>1, <1>1, <1>2
    <2> QED BY <2>1, <2>2, <2>3 DEF Bijection, Injection, Surjection, IsInjective
<1>4. IsFiniteSet(P) /\ IsFiniteSet(Places(s, x)) /\ Count(s, x) \in Nat
    BY <1>1, PlacesFinite
<1>5. Cardinality(Q) = Cardinality(P)
    BY <1>3, <1>4, FS_Bijection DEF ExistsBijection
<1>6. 1 \in Places(s, x) <=> Head(s) = x
    BY <1>1 DEF Places
<1> QED BY <1>4, <1>5, <1>6, FS_RemoveElement DEF Count

-----------------------------------------------------------------------------
LEMMA OpenFinite ==
    ASSUME OpenInv, NEW type
    PROVE  IsFiniteSet(Open(type)) /\ Cardinality(Open(type)) \in Nat
<1>1. Open(type) \in SUBSET (asked \cup refused)
    BY DEF Open
<1> QED BY <1>1, FS_Subset, FS_CardinalityType DEF OpenInv

LEMMA InitInv == Init => SessionInv
<1> SUFFICES ASSUME Init PROVE SessionInv
    OBVIOUS
<1>1. /\ finishFlag \in BOOLEAN /\ pauseSender \in BOOLEAN
      /\ ~finishFlag /\ ~pauseSender /\ ~complete
    BY Zenon DEF Init
<1>2. answers \in Seq(Answers) /\ Len(answers) = 0
    BY DEF Init
<1>3. TypeOK
    BY <1>1, <1>2, SessionAssumption DEF Init, TypeOK, ThreadCount, Answers
<1>4. asked \cup refused = {}
    BY DEF Init
<1>5. OpenInv
    BY <1>4, FS_EmptySet DEF OpenInv
<1>6. \A type \in Types : Open(type) = {} /\ Places(answers, type) = {}
    BY <1>2, <1>4 DEF Open, Places
<1>7. Accounted
    <2>1. \A type \in Types : Cardinality(Open(type)) = 0 /\ Count(answers, type) = 0
        BY <1>6, FS_EmptySet, Zenon DEF Count
    <2>2. \A type \in Types : counted[type] = 0 /\ SentCount(type) = 0 /\ foreign[type] = 0
        BY DEF Init, Types, SentCount
    <2> QED BY <2>1, <2>2 DEF Accounted
<1>8. CompleteInv /\ PauseInv /\ PermitInv
    BY <1>1 DEF Init, CompleteInv, PauseInv, PermitInv, PermitsSuffice
<1> QED BY <1>3, <1>5, <1>7, <1>8 DEF SessionInv

-----------------------------------------------------------------------------
(* The permits.  A thread that ends takes one, gives three, or needs none. *)

LEMMA SignalFacts ==
    ASSUME TypeOK
    PROVE  /\ SetFinishSignal => finishFlag' /\ finishFlag' \in BOOLEAN
           /\ TakePermit \/ UNCHANGED signalVars => /\ finishFlag' <=> finishFlag
                                                    /\ finishFlag' \in BOOLEAN
<1>1. finishFlag \in BOOLEAN
    BY DEF TypeOK
<1>2. ASSUME SetFinishSignal PROVE finishFlag' /\ finishFlag' \in BOOLEAN
    BY <1>2, Zenon DEF SetFinishSignal
<1>3. ASSUME TakePermit \/ UNCHANGED signalVars
      PROVE  (finishFlag' <=> finishFlag) /\ finishFlag' \in BOOLEAN
    <2>1. finishFlag' = finishFlag
        BY <1>3, Zenon DEF TakePermit, signalVars
    <2> QED BY <1>1, <2>1, Zenon
<1> QED BY <1>2, <1>3, Zenon

LEMMA PermitStep ==
    ASSUME TypeOK, PermitInv, [Next]_vars
    PROVE  /\ PermitInv'
           /\ finishFlag' \in BOOLEAN
           /\ finishSignal' \in 0 .. 3
<1> DEFINE Goal == /\ PermitInv'
                   /\ finishFlag' \in BOOLEAN
                   /\ finishSignal' \in 0 .. 3
           Still == Needs(input') + Needs(sender') + Needs(receiver')
           Before == Needs(input) + Needs(sender) + Needs(receiver)
<1>0. /\ finishSignal \in 0 .. 3
      /\ Before \in 0 .. 3 /\ Still \in 0 .. 3
      /\ ~finishFlag => finishSignal = 0
      /\ finishFlag => finishSignal >= Before
    BY DEF TypeOK, PermitInv, PermitsSuffice, Needs, ThreadCount
<1>1. CASE UNCHANGED signalVars /\ Still <= Before
    <2>1. finishSignal' = finishSignal
        BY <1>1 DEF signalVars
    <2> QED BY <1>0, <1>1, <2>1, SignalFacts DEF PermitInv, PermitsSuffice
<1>2. CASE SetFinishSignal /\ Still <= Before
    <2>1. finishSignal' = IF finishFlag THEN finishSignal ELSE finishSignal + 3
        BY <1>2 DEF SetFinishSignal, ThreadCount
    <2> QED BY <1>0, <1>2, <2>1, SignalFacts DEF PermitInv, PermitsSuffice
<1>3. CASE TakePermit /\ Still <= Before - 1
    <2>1. finishSignal > 0 /\ finishSignal' = finishSignal - 1
        BY <1>3 DEF TakePermit
    <2> QED BY <1>0, <1>3, <2>1, SignalFacts DEF PermitInv, PermitsSuffice
<1>4. CASE InputEnds
    BY <1>2, <1>3, <1>4 DEF InputEnds, Needs
<1>5. CASE Sender
    BY <1>1, <1>3, <1>5 DEF Sender, SenderStops, SenderPolls, GetPauseSender, StartVerification,
       EndVerification, SendPut, SendGet, SendFails, SenderMoves, Needs
<1>6. CASE Receiver
    BY <1>1, <1>2, <1>3, <1>6 DEF Receiver, ReceiverMoves, ReceiverStops, ReceiverPolls,
       ReceiverCompletes, ReceiveResponse, ReceiveShutdown, ReceiveBusy, ResumeSender,
       ReceiveFails, Needs
<1>7. CASE Main \/ Server \/ UNCHANGED vars
    BY <1>0, <1>1, <1>7 DEF Main, PrintVerificationSummary, MainEnds, MainMoves,
       Server, ServerMoves, Answer,
       AnswerOther, Refuse, Lose, ServerEnds, vars,
       threadVars, Needs
<1> QED BY <1>4, <1>5, <1>6, <1>7 DEF Next

-----------------------------------------------------------------------------
(* The pause.  What is sent while the sender is paused was past its poll.  *)

LEMMA PauseStep ==
    ASSUME TypeOK, PauseInv, [Next]_vars
    PROVE  /\ PauseInv'
           /\ pauseSender' \in BOOLEAN
           /\ hasty' \in Nat
<1> DEFINE Goal == /\ PauseInv'
                   /\ pauseSender' \in BOOLEAN
                   /\ hasty' \in Nat
<1>0. /\ pauseSender \in BOOLEAN /\ hasty \in 0 .. 1
      /\ pauseSender <=> receiver = "sleep"
      /\ ~pauseSender => hasty = 0
      /\ hasty = 1 => sender # "send"
    BY DEF PauseInv, TypeOK
<1>1. ASSUME UNCHANGED pauseSender
      PROVE  (pauseSender' <=> pauseSender) /\ pauseSender' \in BOOLEAN
    <2>1. pauseSender \in BOOLEAN
        BY <1>0
    <2> QED BY <1>1, <2>1, Zenon
<1>2. CASE /\ UNCHANGED <<pauseSender, hasty>>
           /\ sender' = sender \/ (sender' = "send" => ~pauseSender)
           /\ receiver' = "sleep" <=> receiver = "sleep"
    BY <1>0, <1>1, <1>2 DEF PauseInv
<1>3. CASE SendPut \/ SendGet
    <2>1. /\ UNCHANGED <<pauseSender, receiver>>
          /\ sender = "send" /\ sender' = "poll"
          /\ hasty' = IF pauseSender THEN hasty + 1 ELSE hasty
        BY <1>3 DEF SendPut, SendGet, Sent, SenderMoves
    <2> QED BY <1>0, <1>1, <2>1 DEF PauseInv
<1>4. CASE ReceiveBusy
    <2>1. pauseSender' /\ pauseSender' \in BOOLEAN
        BY <1>4, Zenon DEF ReceiveBusy
    <2>2. receiver = "receive" /\ receiver' = "sleep" /\ UNCHANGED <<hasty, sender>>
        BY <1>4 DEF ReceiveBusy, ReceiverMoves
    <2> QED BY <1>0, <2>1, <2>2 DEF PauseInv
<1>5. CASE ResumeSender
    <2>1. ~pauseSender' /\ pauseSender' \in BOOLEAN
        BY <1>5, Zenon DEF ResumeSender
    <2>2. receiver' = "poll" /\ hasty' = 0
        BY <1>5 DEF ResumeSender, ReceiverMoves
    <2> QED BY <2>1, <2>2 DEF PauseInv
<1>6. CASE Sender /\ ~(SendPut \/ SendGet)
    BY <1>2, <1>6 DEF Sender, SenderStops, SenderPolls, GetPauseSender, StartVerification,
       EndVerification, SendFails, SenderMoves
<1>7. CASE Receiver /\ ~(ReceiveBusy \/ ResumeSender)
    BY <1>2, <1>7 DEF Receiver, ReceiverMoves, ReceiverStops, ReceiverPolls, ReceiverCompletes,
       ReceiveResponse, ReceiveShutdown, ReceiveFails
<1>8. CASE InputEnds \/ Main \/ Server \/ UNCHANGED vars
    BY <1>2, <1>8 DEF InputEnds, Main, PrintVerificationSummary, MainEnds, MainMoves,
       Server, ServerMoves,
       Answer, AnswerOther, Refuse, Lose, ServerEnds, vars, threadVars
<1> QED BY <1>3, <1>4, <1>5, <1>6, <1>7, <1>8 DEF Next

-----------------------------------------------------------------------------
(* The answers: what is sent, open, answered and counted.                  *)

CountedOK == /\ counted \in [put : 0 .. MessageCount + MaxForeign,
                             get : 0 .. MessageCount + MaxForeign]
             /\ foreign \in [put : 0 .. MaxForeign, get : 0 .. MaxForeign]

CounterOK == /\ messageCounter \in 0 .. MessageCount
             /\ verificationCounter \in 0 .. MessageCount
             /\ verificationPhase \in {0, 1}

TrafficOK == /\ asked \subseteq Requests /\ refused \subseteq Requests
             /\ answers \in Seq(Answers)

CountingInv == CountedOK /\ CounterOK /\ TrafficOK /\ OpenInv /\ Accounted /\ CompleteInv

LEMMA CountingTypes ==
    ASSUME CountingInv
    PROVE  \A type \in Types : /\ counted[type] \in Nat
                               /\ Count(answers, type) \in Nat
                               /\ IsFiniteSet(Open(type))
                               /\ Cardinality(Open(type)) \in Nat
                               /\ SentCount(type) \in 0 .. MessageCount
                               /\ foreign[type] \in Nat /\ foreign[type] <= MaxForeign
<1>1. answers \in Seq(Answers)
    BY DEF CountingInv, TrafficOK
<1>2. \A type \in Types : Count(answers, type) \in Nat
    BY <1>1, PlacesFinite
<1>3. \A type \in Types : IsFiniteSet(Open(type)) /\ Cardinality(Open(type)) \in Nat
    BY OpenFinite DEF CountingInv
<1>4. \A type \in Types : /\ counted[type] \in Nat
                           /\ SentCount(type) \in 0 .. MessageCount
                           /\ foreign[type] \in Nat /\ foreign[type] <= MaxForeign
    BY SessionAssumption DEF CountingInv, CountedOK, CounterOK, Types, SentCount
<1> QED BY <1>2, <1>3, <1>4

\* Sending a request opens it and nothing else.
LEMMA SendCounts ==
    ASSUME CountingInv, NEW r, NEW n \in Types,
           r = <<n, SentCount(n) + 1>>, r \in Requests,
           asked' = asked \cup {r}, UNCHANGED <<counted, answers, refused, foreign>>,
           SentCount(n)' = SentCount(n) + 1,
           \A type \in Types \ {n} : SentCount(type)' = SentCount(type)
    PROVE  OpenInv' /\ Accounted' /\ TrafficOK'
<1>1. TrafficOK'
    BY DEF CountingInv, TrafficOK
<1>2. \A q \in asked \cup refused : q[1] \in Types /\ q[2] \in 1 .. SentCount(q[1])
    BY DEF CountingInv, OpenInv
<1>3. \A type \in Types : SentCount(type) \in Nat
    BY CountingTypes
<1>4. r[1] = n /\ r[2] = SentCount(n) + 1
    OBVIOUS
<1>5. r \notin asked \cup refused
    BY <1>2, <1>3, <1>4
<1>6. (asked \cup refused)' = (asked \cup refused) \cup {r}
    OBVIOUS
<1>7. IsFiniteSet((asked \cup refused)')
    BY <1>6, FS_AddElement DEF CountingInv, OpenInv
<1>8. (asked \cap refused)' = {}
    BY <1>5 DEF CountingInv, OpenInv
<1>9. \A q \in (asked \cup refused)' : q[1] \in Types /\ q[2] \in 1 .. SentCount(q[1])'
    BY <1>2, <1>3, <1>4, <1>6
<1>10. OpenInv'
    BY <1>7, <1>8, <1>9 DEF OpenInv
<1>11. ASSUME NEW type \in Types
       PROVE  counted'[type] + Count(answers', type) + Cardinality(Open(type)')
                  <= SentCount(type)' + foreign'[type]
    <2>1. Open(type)' = IF type = n THEN Open(type) \cup {r} ELSE Open(type)
        BY <1>4, <1>6 DEF Open
    <2>2. r \notin Open(type)
        BY <1>5 DEF Open
    <2>3. Cardinality(Open(type)') = IF type = n THEN Cardinality(Open(type)) + 1
                                                 ELSE Cardinality(Open(type))
        BY <2>1, <2>2, CountingTypes, FS_AddElement
    <2>4. counted[type] + Count(answers, type) + Cardinality(Open(type))
              <= SentCount(type) + foreign[type]
        BY DEF CountingInv, Accounted
    <2> HIDE DEF SentCount
    <2>5. SentCount(type)' = IF type = n THEN SentCount(type) + 1 ELSE SentCount(type)
        OBVIOUS
    <2> QED BY <2>3, <2>4, <2>5, CountingTypes
<1> QED BY <1>1, <1>10, <1>11 DEF Accounted

\* A message of the load balancer that is read is counted, if it is an answer.
LEMMA ReadCounts ==
    ASSUME CountingInv, NEW x, Receives(x),
           UNCHANGED <<asked, refused, foreign, messageCounter, verificationCounter>>,
           counted' = IF x \in Types THEN [counted EXCEPT ![x] = @ + 1] ELSE counted
    PROVE  OpenInv' /\ Accounted' /\ TrafficOK' /\ CountedOK'
<1>1. answers \in Seq(Answers) /\ answers # << >> /\ Head(answers) = x /\ answers' = Tail(answers)
    BY DEF CountingInv, TrafficOK, Receives
<1>2. TrafficOK'
    <2>1. answers' \in Seq(Answers)
        BY <1>1, HeadTailProperties
    <2> QED BY <2>1 DEF CountingInv, TrafficOK
<1>3. \A type \in Types : SentCount(type)' = SentCount(type) /\ Open(type)' = Open(type)
    BY DEF SentCount, Open
<1>4. OpenInv'
    BY <1>3 DEF CountingInv, OpenInv, SentCount
<1>5. \A type \in Types : Count(answers', type) = IF type = x THEN Count(answers, type) - 1
                                                               ELSE Count(answers, type)
    BY <1>1, CountTail
<1>6. \A type \in Types : Count(answers', type) \in Nat
    BY <1>2, PlacesFinite DEF TrafficOK
<1>7. \A type \in Types : counted'[type] = IF type = x THEN counted[type] + 1 ELSE counted[type]
    BY DEF CountingInv, CountedOK, Types
<1>8. \A type \in Types :
         counted'[type] + Count(answers', type) + Cardinality(Open(type)')
             <= SentCount(type)' + foreign'[type]
    BY <1>3, <1>5, <1>7, CountingTypes DEF CountingInv, Accounted
<1>9. \A type \in Types : counted'[type] \in 0 .. MessageCount + MaxForeign
    <2> SUFFICES ASSUME NEW type \in Types
                 PROVE  counted'[type] \in 0 .. MessageCount + MaxForeign
        OBVIOUS
    <2>1. counted'[type] \in Nat
        BY <1>7, CountingTypes
    <2>2. counted'[type] + Count(answers', type) + Cardinality(Open(type))
              <= SentCount(type) + foreign[type]
        BY <1>3, <1>8
    <2> QED BY <2>1, <2>2, <1>6, CountingTypes, SessionAssumption
<1>10. CountedOK'
    BY <1>9 DEF CountingInv, CountedOK, Types
<1> QED BY <1>2, <1>4, <1>8, <1>10 DEF Accounted

\* An answer closes its request and waits to be read.
LEMMA AnswerCounts ==
    ASSUME CountingInv, NEW r \in asked, Answer(r)
    PROVE  OpenInv' /\ Accounted' /\ TrafficOK'
<1>1. /\ asked' = asked \ {r} /\ UNCHANGED <<counted, refused, foreign>>
      /\ messageCounter' = messageCounter /\ verificationCounter' = verificationCounter
      /\ answers' = Append(answers, r[1]) /\ r[1] \in Types
    BY DEF Answer, ServerMoves, senderVars, CountingInv, OpenInv
<1>2. answers \in Seq(Answers) /\ r[1] \in Answers
    BY <1>1 DEF CountingInv, TrafficOK, Types, Answers
<1>3. TrafficOK'
    <2>1. answers' \in Seq(Answers)
        BY <1>1, <1>2, AppendProperties
    <2> QED BY <1>1, <2>1 DEF CountingInv, TrafficOK
<1>4. r \notin refused
    BY DEF CountingInv, OpenInv
<1>5. (asked \cup refused)' = (asked \cup refused) \ {r}
    BY <1>1, <1>4
<1>6. \A type \in Types : SentCount(type)' = SentCount(type)
    BY <1>1 DEF SentCount
<1>7. OpenInv'
    <2>1. IsFiniteSet((asked \cup refused)')
        BY <1>5, FS_RemoveElement DEF CountingInv, OpenInv
    <2>2. (asked \cap refused)' = {}
        BY <1>1 DEF CountingInv, OpenInv
    <2> QED BY <1>5, <1>6, <2>1, <2>2 DEF CountingInv, OpenInv
<1>8. ASSUME NEW type \in Types
      PROVE  counted'[type] + Count(answers', type) + Cardinality(Open(type)')
                 <= SentCount(type)' + foreign'[type]
    <2>1. Open(type)' = IF type = r[1] THEN Open(type) \ {r} ELSE Open(type)
        BY <1>5 DEF Open
    <2>2. type = r[1] => r \in Open(type)
        BY DEF Open
    <2>3. Cardinality(Open(type)') = IF type = r[1] THEN Cardinality(Open(type)) - 1
                                                    ELSE Cardinality(Open(type))
        BY <2>1, <2>2, CountingTypes, FS_RemoveElement
    <2>4. Count(answers', type) = IF type = r[1] THEN Count(answers, type) + 1
                                                 ELSE Count(answers, type)
        BY <1>1, <1>2, CountAppend
    <2>5. counted'[type] = counted[type] /\ foreign'[type] = foreign[type]
        BY <1>1
    <2>6. counted[type] + Count(answers, type) + Cardinality(Open(type))
              <= SentCount(type) + foreign[type]
        BY DEF CountingInv, Accounted
    <2> QED BY <2>3, <2>4, <2>5, <2>6, <1>6, CountingTypes
<1> QED BY <1>3, <1>7, <1>8 DEF Accounted

\* A refused or lost request stays open, and what else the load balancer sends
\* is no answer.
LEMMA OtherCounts ==
    ASSUME CountingInv,
           \/ \E r \in asked : asked' = asked \ {r} /\ refused' = refused \cup {r}
           \/ UNCHANGED <<asked, refused>>,
           \/ answers' \in {answers, << >>}
           \/ \E e \in Answers \ Types : answers' = Append(answers, e),
           UNCHANGED <<counted, foreign, messageCounter, verificationCounter>>
    PROVE  OpenInv' /\ Accounted' /\ TrafficOK'
<1>1. answers \in Seq(Answers) /\ asked \subseteq Requests /\ refused \subseteq Requests
    BY DEF CountingInv, TrafficOK
<1>2. (asked \cup refused)' = asked \cup refused
    OBVIOUS
<1>3. asked' \subseteq Requests /\ refused' \subseteq Requests
    BY <1>1
<1>4. \A type \in Types : SentCount(type)' = SentCount(type) /\ Open(type)' = Open(type)
    BY <1>2 DEF SentCount, Open
<1>5. OpenInv'
    <2>1. (asked \cap refused)' = {}
        BY DEF CountingInv, OpenInv
    <2> QED BY <1>2, <1>4, <2>1 DEF CountingInv, OpenInv
<1>6. answers' \in Seq(Answers) /\ \A type \in Types : /\ Count(answers', type) \in Nat
                                                      /\ Count(answers', type) <= Count(answers, type)
    <2>1. CASE answers' = answers
        BY <1>1, <2>1, CountingTypes
    <2>2. CASE answers' = << >>
        <3>1. << >> \in Seq(Answers) /\ \A type \in Types : Places(<< >>, type) = {}
            BY DEF Places
        <3>2. \A type \in Types : Count(<< >>, type) = 0
            BY <3>1, FS_EmptySet, Zenon DEF Count
        <3> QED BY <2>2, <3>1, <3>2, CountingTypes
    <2>3. CASE \E e \in Answers \ Types : answers' = Append(answers, e)
        <3>1. PICK e \in Answers \ Types : answers' = Append(answers, e)
            BY <2>3
        <3>2. answers' \in Seq(Answers)
            BY <1>1, <3>1, AppendProperties
        <3>3. \A type \in Types : Count(answers', type) = Count(answers, type)
            BY <1>1, <3>1, CountAppend
        <3> QED BY <3>2, <3>3, CountingTypes
    <2> QED BY <2>1, <2>2, <2>3
<1>7. Accounted'
    <2> SUFFICES ASSUME NEW type \in Types
                 PROVE  counted'[type] + Count(answers', type) + Cardinality(Open(type)')
                            <= SentCount(type)' + foreign'[type]
        BY DEF Accounted
    <2>1. counted[type] + Count(answers, type) + Cardinality(Open(type))
              <= SentCount(type) + foreign[type]
        BY DEF CountingInv, Accounted
    <2>2. counted'[type] = counted[type]
        OBVIOUS
    <2> QED BY <1>4, <1>6, <2>1, <2>2, CountingTypes
<1> QED BY <1>3, <1>5, <1>6, <1>7 DEF TrafficOK

\* An answer that is another client's waits to be read like any other.
LEMMA OtherAnswerCounts ==
    ASSUME CountingInv, NEW n \in Types, AnswerOther(n)
    PROVE  CountingInv'
<1>1. /\ UNCHANGED <<counted, asked, refused, complete, senderVars>>
      /\ answers' = Append(answers, n) /\ n \in Answers /\ answers \in Seq(Answers)
      /\ foreign.put + foreign.get < MaxForeign
      /\ foreign' = [foreign EXCEPT ![n] = @ + 1]
    BY DEF AnswerOther, ServerMoves, CountingInv, TrafficOK, Types, Answers
<1>2. /\ foreign' \in [put : 0 .. MaxForeign, get : 0 .. MaxForeign]
      /\ \A type \in Types : foreign'[type] = IF type = n THEN foreign[type] + 1 ELSE foreign[type]
    BY <1>1, SessionAssumption DEF CountingInv, CountedOK, Types
<1>3. CountedOK' /\ CounterOK' /\ CompleteInv'
    BY <1>1, <1>2 DEF CountingInv, CountedOK, CounterOK, CompleteInv, senderVars
<1>4. \A type \in Types : SentCount(type)' = SentCount(type) /\ Open(type)' = Open(type)
    BY <1>1 DEF SentCount, Open, senderVars
<1>5. OpenInv'
    BY <1>1, <1>4 DEF CountingInv, OpenInv
<1>6. TrafficOK'
    <2>1. answers' \in Seq(Answers)
        BY <1>1, AppendProperties
    <2> QED BY <1>1, <2>1 DEF CountingInv, TrafficOK
<1>7. \A type \in Types : Count(answers', type) = IF type = n THEN Count(answers, type) + 1
                                                               ELSE Count(answers, type)
    BY <1>1, CountAppend
<1>8. ASSUME NEW type \in Types
      PROVE  counted'[type] + Count(answers', type) + Cardinality(Open(type)')
                 <= SentCount(type)' + foreign'[type]
    <2>1. counted[type] + Count(answers, type) + Cardinality(Open(type))
              <= SentCount(type) + foreign[type]
        BY DEF CountingInv, Accounted
    <2>2. counted'[type] = counted[type]
        BY <1>1
    <2> QED BY <1>2, <1>4, <1>7, <2>1, <2>2, CountingTypes
<1>9. Accounted'
    BY <1>8 DEF Accounted
<1> QED BY <1>3, <1>5, <1>6, <1>9 DEF CountingInv

LEMMA CountingStep ==
    ASSUME CountingInv, [Next]_vars
    PROVE  CountingInv'
<1> DEFINE Still == UNCHANGED <<counted, foreign, messageCounter, verificationCounter,
                                verificationPhase>>
<1>1. ASSUME Still, UNCHANGED complete \/ AllResponses
      PROVE  CountedOK' /\ CounterOK' /\ CompleteInv'
    BY <1>1 DEF CountingInv, CountedOK, CounterOK, CompleteInv, AllResponses
<1>2. CASE SendPut
    <2>1. /\ asked' = asked \cup {<<"put", SentCount("put") + 1>>}
          /\ UNCHANGED <<counted, foreign, answers, refused>>
          /\ SentCount("put")' = SentCount("put") + 1 /\ SentCount("get")' = SentCount("get")
          /\ UNCHANGED <<verificationCounter, verificationPhase, complete>>
          /\ messageCounter' = messageCounter + 1 /\ messageCounter < MessageCount
        BY <1>2 DEF SendPut, Sent, SenderMoves, SentCount
    <2>2. <<"put", SentCount("put") + 1>> \in Requests
        BY <2>1, SessionAssumption DEF CountingInv, CounterOK, Requests, Puts, SentCount
    <2>3. OpenInv' /\ Accounted' /\ TrafficOK'
        BY <2>1, <2>2, SendCounts DEF Types
    <2>4. CountedOK' /\ CounterOK' /\ CompleteInv'
        BY <2>1, SessionAssumption DEF CountingInv, CountedOK, CounterOK, CompleteInv
    <2> QED BY <2>3, <2>4 DEF CountingInv
<1>3. CASE SendGet
    <2>1. /\ asked' = asked \cup {<<"get", SentCount("get") + 1>>}
          /\ UNCHANGED <<counted, foreign, answers, refused>>
          /\ SentCount("get")' = SentCount("get") + 1 /\ SentCount("put")' = SentCount("put")
          /\ UNCHANGED <<messageCounter, verificationPhase, complete>> /\ verificationPhase = 1
          /\ verificationCounter' = verificationCounter + 1 /\ verificationCounter < MessageCount
        BY <1>3 DEF SendGet, Sent, SenderMoves, SentCount
    <2>2. <<"get", SentCount("get") + 1>> \in Requests
        BY <2>1, SessionAssumption DEF CountingInv, CounterOK, Requests, Gets, SentCount
    <2>3. OpenInv' /\ Accounted' /\ TrafficOK'
        BY <2>1, <2>2, SendCounts DEF Types
    <2>4. CountedOK' /\ CounterOK' /\ CompleteInv'
        BY <2>1, SessionAssumption DEF CountingInv, CountedOK, CounterOK, CompleteInv
    <2> QED BY <2>3, <2>4 DEF CountingInv
<1>4. CASE Sender /\ ~(SendPut \/ SendGet)
    <2>1. UNCHANGED <<asked, refused, answers, counted, foreign, messageCounter,
                      verificationCounter, complete>>
        BY <1>4 DEF Sender, SenderStops, SenderPolls, GetPauseSender, StartVerification,
           EndVerification, SendFails, SenderMoves, senderVars
    <2>2. verificationPhase' \in {verificationPhase, 1}
        BY <1>4 DEF Sender, SenderStops, SenderPolls, GetPauseSender, StartVerification,
           EndVerification, SendFails, SenderMoves, senderVars
    <2>3. CountedOK' /\ CounterOK' /\ CompleteInv'
        BY <2>1, <2>2 DEF CountingInv, CountedOK, CounterOK, CompleteInv
    <2> QED BY <2>1, <2>3, OtherCounts DEF CountingInv
<1>5. CASE ReceiveResponse \/ ReceiveShutdown \/ ReceiveBusy
    <2>1. PICK x \in Answers :
             /\ Receives(x)
             /\ counted' = IF x \in Types THEN [counted EXCEPT ![x] = @ + 1] ELSE counted
        BY <1>5 DEF ReceiveResponse, ReceiveShutdown, ReceiveBusy, Types, Answers
    <2>2. UNCHANGED <<asked, refused, foreign, messageCounter, verificationCounter,
                      verificationPhase, complete>>
        BY <1>5 DEF ReceiveResponse, ReceiveShutdown, ReceiveBusy, ReceiverMoves, senderVars
    <2>3. OpenInv' /\ Accounted' /\ TrafficOK' /\ CountedOK'
        BY <2>1, <2>2, ReadCounts
    <2>4. CounterOK'
        BY <2>2 DEF CountingInv, CounterOK
    <2>5. counted'["get"] \in Nat /\ counted["get"] \in Nat /\ counted'["get"] >= counted["get"]
        BY <2>1, SessionAssumption DEF CountingInv, CountedOK, Types
    <2>6. CompleteInv'
        BY <2>2, <2>5, SessionAssumption DEF CountingInv, CompleteInv
    <2> QED BY <2>3, <2>4, <2>6 DEF CountingInv
<1>6. CASE Receiver /\ ~(ReceiveResponse \/ ReceiveShutdown \/ ReceiveBusy)
    <2>1. UNCHANGED <<asked, refused, answers, counted, foreign, messageCounter,
                      verificationCounter, verificationPhase>>
        BY <1>6 DEF Receiver, ReceiverMoves, ReceiverStops, ReceiverPolls, ReceiverCompletes,
           ResumeSender, ReceiveFails, senderVars
    <2>2. UNCHANGED complete \/ AllResponses
        BY <1>6 DEF Receiver, ReceiverStops, ReceiverPolls, ReceiverCompletes, ResumeSender,
           ReceiveFails
    <2> QED BY <1>1, <2>1, <2>2, OtherCounts DEF CountingInv
<1>7. CASE Server
    <2>0. CASE \E type \in {"put", "get"} : AnswerOther(type)
        BY <2>0, OtherAnswerCounts DEF Types
    <2> SUFFICES ASSUME ~(\E type \in {"put", "get"} : AnswerOther(type)) PROVE CountingInv'
        BY <2>0
    <2>1. Still /\ UNCHANGED complete
        BY <1>7 DEF Server, Answer, Refuse, Lose, ServerEnds, ServerMoves, senderVars
    <2>2. CASE \E r \in asked : Answer(r)
        BY <1>1, <2>1, <2>2, AnswerCounts DEF CountingInv
    <2>3. CASE \E r \in asked : Refuse(r) \/ Lose(r)
        <3>1. \E r \in asked : asked' = asked \ {r} /\ refused' = refused \cup {r}
            BY <2>3 DEF Refuse, Lose
        <3>2. answers' \in {answers, << >>} \/ \E e \in Answers \ Types : answers' = Append(answers, e)
            BY <2>3 DEF Refuse, Lose, Answers, Types
        <3> QED BY <1>1, <2>1, <3>1, <3>2, OtherCounts DEF CountingInv
    <2>4. CASE ServerEnds
        <3>1. UNCHANGED <<asked, refused>>
            BY <2>4 DEF ServerEnds
        <3>2. answers' \in {answers, << >>} \/ \E e \in Answers \ Types : answers' = Append(answers, e)
            BY <2>4 DEF ServerEnds, Answers, Types
        <3> QED BY <1>1, <2>1, <3>1, <3>2, OtherCounts DEF CountingInv
    <2> QED BY <1>7, <2>2, <2>3, <2>4 DEF Server
<1>8. CASE InputEnds \/ Main \/ UNCHANGED vars
    <2>1. Still /\ UNCHANGED <<asked, refused, answers, complete>>
        BY <1>8 DEF InputEnds, Main, PrintVerificationSummary, MainEnds, MainMoves, vars, senderVars,
           netVars
    <2> QED BY <1>1, <2>1, OtherCounts DEF CountingInv
<1> QED BY <1>2, <1>3, <1>4, <1>5, <1>6, <1>7, <1>8 DEF Next

-----------------------------------------------------------------------------
(* The invariant and what follows from it.                                 *)

LEMMA PlaceStep ==
    ASSUME TypeOK, [Next]_vars
    PROVE  /\ input' \in {"poll", "done"}
           /\ sender' \in {"poll", "pause?", "send", "done"}
           /\ receiver' \in {"poll", "receive", "sleep", "done"}
           /\ main' \in {"join", "key", "exited"}
<1> USE DEF TypeOK
<1>1. CASE Sender
    BY <1>1 DEF Sender, SenderStops, SenderPolls, GetPauseSender, StartVerification,
       EndVerification, SendPut, SendGet, SendFails, SenderMoves
<1>2. CASE Receiver
    BY <1>2 DEF Receiver, ReceiverMoves, ReceiverStops, ReceiverPolls, ReceiverCompletes,
       ReceiveResponse, ReceiveShutdown, ReceiveBusy, ResumeSender, ReceiveFails
<1>3. CASE InputEnds \/ Main \/ Server \/ UNCHANGED vars
    BY <1>3 DEF InputEnds, Main, PrintVerificationSummary, MainEnds, MainMoves, Server, ServerMoves,
       Answer, AnswerOther, Refuse, Lose, ServerEnds, vars,
       threadVars
<1> QED BY <1>1, <1>2, <1>3 DEF Next

LEMMA InvStep == SessionInv /\ [Next]_vars => SessionInv'
<1> SUFFICES ASSUME SessionInv, [Next]_vars PROVE SessionInv'
    OBVIOUS
<1>1. TypeOK /\ PauseInv /\ PermitInv
    BY DEF SessionInv
<1>2. CountingInv
    BY DEF SessionInv, CountingInv, TypeOK, CountedOK, CounterOK, TrafficOK, Answers
<1>3. CountingInv'
    BY <1>2, CountingStep
<1>4. PermitInv' /\ finishFlag' \in BOOLEAN /\ finishSignal' \in 0 .. ThreadCount
    BY <1>1, PermitStep DEF ThreadCount
<1>5. PauseInv' /\ pauseSender' \in BOOLEAN /\ hasty' \in Nat
    BY <1>1, PauseStep
<1>6. TypeOK'
    BY <1>1, <1>3, <1>4, <1>5, PlaceStep
       DEF TypeOK, CountingInv, CountedOK, CounterOK, TrafficOK, Answers
<1> QED BY <1>3, <1>4, <1>5, <1>6 DEF SessionInv, CountingInv

LEMMA Invariance == Spec => []SessionInv
BY InitInv, InvStep, PTL DEF Spec

\* The type invariant: the counters of the program never pass messageCount.
THEOREM TypeCorrect == Spec => []TypeOK
<1>1. SessionInv => TypeOK
    BY DEF SessionInv
<1> QED BY <1>1, Invariance, PTL

\* The permits of SetFinishSignal suffice for every thread that still runs.
THEOREM PermitsAreEnough == Spec => []PermitsSuffice
<1>1. SessionInv => PermitsSuffice
    BY DEF SessionInv, PermitInv
<1> QED BY <1>1, Invariance, PTL

\* A paused sender sends at most the request whose poll came before the pause.
THEOREM PauseIsRespected == Spec => []PauseRespected
<1>1. SessionInv => PauseRespected
    BY DEF SessionInv, PauseInv, PauseRespected
<1> QED BY <1>1, Invariance, PTL

\* When the receiver has counted messageCount answers to GETs, those missing
\* are outnumbered by another client's: the answers counted, waiting and missing
\* add up to no more than the requests sent and the answers that are not ours.
THEOREM CompletionMeansVerified == Spec => []CompleteMeansVerified
<1>1. ASSUME SessionInv PROVE CompleteMeansVerified
    <2> SUFFICES ASSUME complete
                 PROVE  (MessageCount - verificationCounter)
                            + Cardinality((asked \cup refused) \cap Gets) <= foreign.get
        BY DEF CompleteMeansVerified
    <2>1. CountingInv
        BY <1>1 DEF SessionInv, CountingInv, TypeOK, CountedOK, CounterOK, TrafficOK, Answers
    <2>2. counted["get"] >= MessageCount
        BY <2>1 DEF CountingInv, CompleteInv
    <2>3. counted["get"] + Count(answers, "get") + Cardinality(Open("get"))
              <= verificationCounter + foreign["get"]
        BY <2>1 DEF CountingInv, Accounted, SentCount, Types
    <2>4. /\ counted["get"] \in Nat /\ Count(answers, "get") \in Nat
          /\ Cardinality(Open("get")) \in Nat /\ foreign["get"] \in Nat
        BY <2>1, CountingTypes, SessionAssumption DEF Types
    <2>5. verificationCounter \in 0 .. MessageCount
        BY <2>1 DEF CountingInv, CounterOK
    <2>6. (asked \cup refused) \cap Gets = Open("get")
        BY <2>1 DEF CountingInv, TrafficOK, Open, Requests, Puts, Gets
    <2>7. MessageCount - verificationCounter + Cardinality(Open("get")) <= foreign["get"]
        BY <2>2, <2>3, <2>4, <2>5, SessionAssumption
    <2> QED BY <2>6, <2>7
<1> QED BY <1>1, Invariance, PTL
=============================================================================
