------------------------------- MODULE Framing -------------------------------
(***************************************************************************)
(* One direction of a TCP connection and the messages on it: ProtocolSend  *)
(* and ProtocolReceive (Lib/Protocol.c), which send and receive a header   *)
(* and then a payload, each with SendBuffer and ReceiveBuffer              *)
(* (Lib/NetworkLib.c), which go on until everything is through or nothing  *)
(* has moved MAX_RETRIES times in a row.                                   *)
(*                                                                         *)
(* A connection may have several writers.  A worker's threads write to the *)
(* load balancer under context->lock; a worker's receiver writes to a peer *)
(* under peerLock and its export thread under the lock of a bucket; the    *)
(* threads of the load balancer share no lock for a client or a worker.    *)
(* lockOf says under which lock each writer of this connection writes.     *)
(*                                                                         *)
(* A header is HeaderSize units, a payload of m is PayloadSize[m] units,   *)
(* and send and recv move any number of them.  Not modelled: what a        *)
(* payload says; the errors of a connection that breaks, which end both    *)
(* sides.                                                                  *)
(***************************************************************************)
EXTENDS Integers, Sequences, FiniteSets, SequencesExt

CONSTANTS Writers,
          Messages,
          WriterOf,    \* the thread that sends each message
          PayloadSize, \* of each message; SHUTDOWN has none
          Locks,
          Capacity,    \* units the connection holds
          MaxRetries,  \* MAX_RETRIES
          Garbled      \* what is read when the units do not make a message

HeaderSize == 2

ASSUME FramingAssumption == /\ WriterOf \in [Messages -> Writers]
                            /\ PayloadSize \in [Messages -> Nat]
                            /\ Capacity \in Nat \ {0}
                            /\ MaxRetries \in Nat \ {0}
                            /\ Garbled \notin Messages

VARIABLES lockOf,     \* the lock each writer holds in ProtocolSend
          unsent,     \* messages no one has begun to send
          holder,     \* the writers inside ProtocolSend, each under its lock
          current,    \* the message each writer sends; Garbled for none
          part,       \* the buffer of its SendBuffer: "header" or "payload"
          sent,       \* units of that buffer that are sent
          retries,    \* sends in a row that moved nothing
          wire,       \* units on the connection, oldest first
          reading,    \* the buffer of the reader's ReceiveBuffer, or "closed"
          need, got,  \* the units it wants, and has
          header,     \* the message whose header was read
          patience,   \* receives in a row that moved nothing
          received,   \* what ProtocolReceive has returned
          order,      \* history: messages in the order they were begun
          mixed,      \* history: a writer's units came among another's
          cut         \* history: messages a writer gave up

writerVars == <<unsent, holder, current, part, sent, retries>>
readerVars == <<reading, need, got, header, patience, received>>
vars == <<lockOf, writerVars, wire, readerVars, order, mixed, cut>>

Unit(m, i) == [msg |-> m, pos |-> i]
Header(m) == [i \in 1 .. HeaderSize |-> Unit(m, i)]
Payload(m) == [i \in 1 .. PayloadSize[m] |-> Unit(m, HeaderSize + i)]

\* A thread takes its lock around ProtocolSend; which, depends on the connection.
Init == /\ lockOf \in [Writers -> Locks]
        /\ unsent = Messages
        /\ holder = {}
        /\ current = [t \in Writers |-> Garbled]
        /\ part = [t \in Writers |-> "header"]
        /\ sent = [t \in Writers |-> 0]
        /\ retries = [t \in Writers |-> 0]
        /\ wire = << >>
        /\ reading = "header"
        /\ need = HeaderSize
        /\ got = << >>
        /\ header = Garbled
        /\ patience = 0
        /\ received = << >>
        /\ order = << >>
        /\ mixed = FALSE
        /\ cut = {}

-----------------------------------------------------------------------------
(* A writer.                                                               *)

\* The buffer SendBuffer was called with.
Buffer(t) == IF part[t] = "header" THEN Header(current[t]) ELSE Payload(current[t])

\* EnterCriticalSection and the call of ProtocolSend.
BeginSend(t, m) ==
    /\ t \notin holder
    /\ m \in unsent
    /\ WriterOf[m] = t
    /\ \A u \in holder : lockOf[u] # lockOf[t]
    /\ holder' = holder \cup {t}
    /\ unsent' = unsent \ {m}
    /\ current' = [current EXCEPT ![t] = m]
    /\ part' = [part EXCEPT ![t] = "header"]
    /\ sent' = [sent EXCEPT ![t] = 0]
    /\ retries' = [retries EXCEPT ![t] = 0]
    /\ order' = Append(order, m)
    /\ mixed' = (mixed \/ holder # {})
    /\ UNCHANGED <<lockOf, wire, readerVars, cut>>

\* Slip: what is left is taken from the start of the buffer again.
SafeSendAgain(t) ==
    /\ t \in holder
    /\ \E n \in 1 .. Len(Buffer(t)) - sent[t] :
          /\ Len(wire) + n <= Capacity
          /\ wire' = wire \o SubSeq(Buffer(t), 1, n)
          /\ sent' = [sent EXCEPT ![t] = @ + n]
    /\ retries' = [retries EXCEPT ![t] = 0]
    /\ UNCHANGED <<lockOf, unsent, holder, current, part, readerVars, order, mixed, cut>>

\* SafeSend moved some of what is left of the buffer.
SafeSend(t) ==
    /\ t \in holder
    /\ \E n \in 1 .. Len(Buffer(t)) - sent[t] :
          /\ Len(wire) + n <= Capacity
          /\ wire' = wire \o SubSeq(Buffer(t), sent[t] + 1, sent[t] + n)
          /\ sent' = [sent EXCEPT ![t] = @ + n]
    /\ retries' = [retries EXCEPT ![t] = 0]
    /\ UNCHANGED <<lockOf, unsent, holder, current, part, readerVars, order, mixed, cut>>

\* SafeSend moved nothing, and SendBuffer sleeps.
SafeSendBlocks(t) ==
    /\ t \in holder
    /\ sent[t] < Len(Buffer(t))
    /\ retries[t] < MaxRetries
    /\ Len(wire) = Capacity
    /\ retries' = [retries EXCEPT ![t] = @ + 1]
    /\ UNCHANGED <<lockOf, unsent, holder, current, part, sent, wire, readerVars, order, mixed,
                   cut>>

\* SendBuffer gives up in the middle; the callers go on with the next message.
GiveUp(t) ==
    /\ t \in holder
    /\ sent[t] < Len(Buffer(t))
    /\ retries[t] = MaxRetries
    /\ holder' = holder \ {t}
    /\ cut' = cut \cup {current[t]}
    /\ UNCHANGED <<lockOf, unsent, current, part, sent, retries, wire, readerVars, order, mixed>>

\* The header is sent and there is a payload.
BeginPayload(t) ==
    /\ t \in holder
    /\ part[t] = "header"
    /\ sent[t] = HeaderSize
    /\ PayloadSize[current[t]] > 0
    /\ part' = [part EXCEPT ![t] = "payload"]
    /\ sent' = [sent EXCEPT ![t] = 0]
    /\ retries' = [retries EXCEPT ![t] = 0]
    /\ UNCHANGED <<lockOf, unsent, holder, current, wire, readerVars, order, mixed, cut>>

\* ProtocolSend returns and the lock is released.
EndSend(t) ==
    /\ t \in holder
    /\ sent[t] = Len(Buffer(t))
    /\ part[t] = "payload" \/ PayloadSize[current[t]] = 0
    /\ holder' = holder \ {t}
    /\ UNCHANGED <<lockOf, unsent, current, part, sent, retries, wire, readerVars, order, mixed,
                   cut>>

-----------------------------------------------------------------------------
(* The reader.                                                             *)

ReaderSkips == UNCHANGED <<lockOf, writerVars, order, mixed, cut>>

\* Slip: the length asked for is not reduced by what has come.
SafeReceiveGreedy ==
    /\ reading # "closed"
    /\ Len(got) < need
    /\ \E n \in 1 .. need :
          /\ n <= Len(wire)
          /\ got' = got \o SubSeq(wire, 1, n)
          /\ wire' = SubSeq(wire, n + 1, Len(wire))
    /\ patience' = 0
    /\ UNCHANGED <<reading, need, header, received>>
    /\ ReaderSkips

\* SafeReceive moved some of what is wanted.
SafeReceive ==
    /\ reading # "closed"
    /\ \E n \in 1 .. need - Len(got) :
          /\ n <= Len(wire)
          /\ got' = got \o SubSeq(wire, 1, n)
          /\ wire' = SubSeq(wire, n + 1, Len(wire))
    /\ patience' = 0
    /\ UNCHANGED <<reading, need, header, received>>
    /\ ReaderSkips

\* SafeReceive moved nothing, and ReceiveBuffer sleeps or gives up.
SafeReceiveIdles ==
    /\ reading # "closed"
    /\ Len(got) < need
    /\ wire = << >>
    /\ patience < MaxRetries
    /\ patience' = patience + 1
    /\ reading' = IF patience' = MaxRetries THEN "closed" ELSE reading
    /\ UNCHANGED <<wire, need, got, header, received>>
    /\ ReaderSkips

\* The next call of ProtocolReceive.
Returned(m) == /\ received' = Append(received, m)
               /\ reading' = "header"
               /\ need' = HeaderSize
               /\ got' = << >>

\* Slip: ReceiveBuffer is called for a payload of no units, and refuses.
HeaderReadEmpty == /\ reading = "header"
                   /\ Len(got) = HeaderSize
                   /\ \E m \in Messages :
                         /\ got = Header(m)
                         /\ header' = m
                         /\ IF PayloadSize[m] = 0
                            THEN /\ reading' = "closed"
                                 /\ UNCHANGED <<need, got>>
                            ELSE /\ reading' = "payload"
                                 /\ need' = PayloadSize[m]
                                 /\ got' = << >>
                         /\ UNCHANGED received
                   /\ UNCHANGED <<wire, patience>>
                   /\ ReaderSkips

\* The header is that of m: its length is PayloadSize[m].
HeaderRead == /\ reading = "header"
              /\ Len(got) = HeaderSize
              /\ \E m \in Messages :
                    /\ got = Header(m)
                    /\ header' = m
                    /\ IF PayloadSize[m] = 0 THEN Returned(m)
                       ELSE /\ reading' = "payload"
                            /\ need' = PayloadSize[m]
                            /\ got' = << >>
                            /\ UNCHANGED received
              /\ UNCHANGED <<wire, patience>>
              /\ ReaderSkips

\* Units that are no header: an error that closes the connection, or any length,
\* none included.
HeaderMisread ==
    /\ reading = "header"
    /\ Len(got) = HeaderSize
    /\ \A m \in Messages : got # Header(m)
    /\ header' = Garbled
    /\ \/ /\ reading' = "closed"
          /\ received' = Append(received, Garbled)
          /\ UNCHANGED <<need, got>>
       \/ Returned(Garbled)
       \/ \E m \in Messages : /\ PayloadSize[m] > 0
                              /\ reading' = "payload"
                              /\ need' = PayloadSize[m]
                              /\ got' = << >>
                              /\ UNCHANGED received
    /\ UNCHANGED <<wire, patience>>
    /\ ReaderSkips

PayloadRead == /\ reading = "payload"
               /\ Len(got) = need
               /\ Returned(IF header # Garbled /\ got = Payload(header) THEN header ELSE Garbled)
               /\ UNCHANGED <<wire, header, patience>>
               /\ ReaderSkips

-----------------------------------------------------------------------------
Writes(t) == \/ \E m \in Messages : BeginSend(t, m)
             \/ SafeSend(t) \/ SafeSendBlocks(t) \/ GiveUp(t)
             \/ BeginPayload(t) \/ EndSend(t)
Reads == SafeReceive \/ SafeReceiveIdles \/ HeaderRead \/ HeaderMisread \/ PayloadRead

Next == Reads \/ \E t \in Writers : Writes(t)

Spec == Init /\ [][Next]_vars

(* A thread inside ProtocolSend or ProtocolReceive goes on; nobody has to  *)
(* send the next message.                                                  *)
Fairness == /\ WF_vars(Reads)
            /\ \A t \in Writers : WF_vars(t \in holder /\ Writes(t))

FairSpec == Spec /\ Fairness

-----------------------------------------------------------------------------
TypeOK == /\ lockOf \in [Writers -> Locks]
          /\ unsent \subseteq Messages
          /\ holder \subseteq Writers
          /\ current \in [Writers -> Messages \cup {Garbled}]
          /\ part \in [Writers -> {"header", "payload"}]
          /\ sent \in [Writers -> Nat]
          /\ retries \in [Writers -> 0 .. MaxRetries]
          /\ Len(wire) <= Capacity
          /\ reading \in {"header", "payload", "closed"}
          /\ Len(got) <= need
          /\ header \in Messages \cup {Garbled}
          /\ patience \in 0 .. MaxRetries
          /\ received \in Seq(Messages \cup {Garbled})
          /\ order \in Seq(Messages)
          /\ mixed \in BOOLEAN
          /\ cut \subseteq Messages

\* All writers of this connection take one lock.
OneLock == \A t, u \in Writers : lockOf[t] = lockOf[u]

\* The stream can be trusted: the writers share a lock, or happened not to
\* overlap, and none gave up in the middle of a message.
Orderly == (OneLock \/ ~mixed) /\ cut = {}

\* On an orderly stream the reader gets every message whole, and in the order
\* they were begun.
MessagesWhole == Orderly => IsPrefix(received, order)

\* On a stream that stays orderly every message that was begun is read, unless
\* the reader has found it silent for MAX_RETRIES polls.
MessagesArrive ==
    \A m \in Messages : m \notin unsent
        ~> (m \in Range(received) \/ patience = MaxRetries \/ ~Orderly)
=============================================================================
