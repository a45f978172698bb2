---------------------------- MODULE ClientSession ----------------------------
(***************************************************************************)
(* One run of the client program: the sender (Client/SenderThread.c) that  *)
(* PUTs messageCount keys and then GETs them, the receiver                 *)
(* (ReceiverThread.c) that counts the answers and pauses the sender when   *)
(* the server is busy, the input handler (InputHanderThread.c), and main   *)
(* (Client.c), which waits for the three and prints the summary.           *)
(*                                                                         *)
(* A thread stops when it takes one of the THREAD_COUNT permits of         *)
(* context->finishSignal, or of its own accord.  The load balancer is the  *)
(* environment: it answers a request at most once, refuses it, or loses    *)
(* it, in any order (RequestPath says why), and may send this client an    *)
(* answer that belongs to another one (ResponseDelivery, the run           *)
(* delivery_wrong_client).  The receiver cannot tell: it compares no key.  *)
(* Not modelled: the failing startup of main; keys and values; how long    *)
(* the threads sleep; putCount and getCount, which nothing reads; what the *)
(* load balancer makes of a message sent in part (Framing).                *)
(***************************************************************************)
EXTENDS Integers, Sequences, FiniteSets

CONSTANTS MessageCount,   \* context->messageCount
          MaxForeign      \* bound: the answers meant for other clients

ASSUME SessionAssumption == MessageCount \in Nat \ {0} /\ MaxForeign \in Nat

ThreadCount == 3   \* THREAD_COUNT

VARIABLES finishFlag,    \* context->finishFlag
          finishSignal,  \* permits of context->finishSignal
          pauseSender,   \* context->pauseSender
          input, sender, receiver, main, \* where each thread is
          messageCounter, verificationCounter, verificationPhase, \* the sender's
          counted,       \* testData: the answers counted, by what was asked
          asked,         \* requests the load balancer has and has not answered
          answers,       \* what it sent and the receiver has not read
          connected,     \* the connection works, or may still be read
          refused,       \* history: requests refused as busy, or lost
          foreign,       \* history: answers of each type that were another's
          complete,      \* history: the receiver found that it has every answer
          hasty          \* history: requests sent since SetPauseSender(true)

signalVars == <<finishFlag, finishSignal>>
threadVars == <<input, sender, receiver, main>>
senderVars == <<messageCounter, verificationCounter, verificationPhase>>
netVars == <<asked, answers, connected, refused, foreign>>
vars == <<signalVars, pauseSender, threadVars, senderVars, counted, netVars,
          complete, hasty>>

Puts == {"put"} \X (1 .. MessageCount)
Gets == {"get"} \X (1 .. MessageCount)
Requests == Puts \cup Gets

Init == /\ finishFlag = FALSE
        /\ finishSignal = 0
        /\ pauseSender = FALSE
        /\ input = "poll"
        /\ sender = "poll"
        /\ receiver = "poll"
        /\ main = "join"
        /\ messageCounter = 0
        /\ verificationCounter = 0
        /\ verificationPhase = 0
        /\ counted = [put |-> 0, get |-> 0]
        /\ asked = {}
        /\ answers = << >>
        /\ connected = TRUE
        /\ refused = {}
        /\ foreign = [put |-> 0, get |-> 0]
        /\ complete = FALSE
        /\ hasty = 0

-----------------------------------------------------------------------------
(* Stopping.                                                               *)

\* Slips: a single permit; the permits every time.
SetFinishSignalShort ==
    /\ finishFlag' = TRUE
    /\ finishSignal' = IF finishFlag THEN finishSignal ELSE finishSignal + 1

SetFinishSignalAgain ==
    /\ finishFlag' = TRUE
    /\ finishSignal' = finishSignal + ThreadCount

\* SetFinishSignal: the permits once.
SetFinishSignal ==
    /\ finishFlag' = TRUE
    /\ finishSignal' = IF finishFlag THEN finishSignal ELSE finishSignal + ThreadCount

\* WaitForSingleObject(finishSignal, 0) succeeds.
TakePermit == /\ finishSignal > 0
              /\ finishSignal' = finishSignal - 1
              /\ UNCHANGED finishFlag

Ended == /\ input = "done"
         /\ sender = "done"
         /\ receiver = "done"

-----------------------------------------------------------------------------
(* The input handler: a key stops the client, or another thread did.       *)

InputEnds == /\ input = "poll"
             /\ SetFinishSignal \/ TakePermit
             /\ input' = "done"
             /\ UNCHANGED <<pauseSender, sender, receiver, main, senderVars, counted, netVars,
                            complete, hasty>>

-----------------------------------------------------------------------------
(* The sender.                                                             *)

SenderMoves(from, to) == /\ sender = from
                         /\ sender' = to
                         /\ UNCHANGED <<pauseSender, input, receiver, main, counted, answers,
                                        connected, refused, foreign, complete>>

SenderStops == /\ SenderMoves("poll", "done")
               /\ TakePermit
               /\ UNCHANGED <<senderVars, asked, hasty>>

SenderPolls == /\ finishSignal = 0
               /\ SenderMoves("poll", "pause?")
               /\ UNCHANGED <<signalVars, senderVars, asked, hasty>>

\* Slip: the sender does not ask whether it is paused.
GetPauseSenderIgnored ==
    /\ SenderMoves("pause?", "send")
    /\ UNCHANGED <<signalVars, senderVars, asked, hasty>>

\* GetPauseSender: a paused sender sleeps and polls again.
GetPauseSender ==
    /\ IF pauseSender THEN SenderMoves("pause?", "poll") ELSE SenderMoves("pause?", "send")
    /\ UNCHANGED <<signalVars, senderVars, asked, hasty>>

\* Every PUT is sent: the GETs begin.
StartVerification ==
    /\ verificationPhase = 0
    /\ messageCounter >= MessageCount
    /\ verificationPhase' = 1
    /\ SenderMoves("send", "poll")
    /\ UNCHANGED <<signalVars, messageCounter, verificationCounter, asked, hasty>>

\* Every GET is sent: the sender is through, and takes no permit.
EndVerification == /\ verificationPhase = 1
                   /\ verificationCounter >= MessageCount
                   /\ SenderMoves("send", "done")
                   /\ UNCHANGED <<signalVars, senderVars, asked, hasty>>

\* A send may succeed although the connection has ended: nobody answers r then.
Sent(r) == /\ asked' = asked \cup {r}
           /\ hasty' = IF pauseSender THEN hasty + 1 ELSE hasty

SendPut == /\ verificationPhase = 0
           /\ messageCounter < MessageCount
           /\ messageCounter' = messageCounter + 1
           /\ Sent(<<"put", messageCounter'>>)
           /\ SenderMoves("send", "poll")
           /\ UNCHANGED <<signalVars, verificationCounter, verificationPhase>>

SendGet == /\ verificationPhase = 1
           /\ verificationCounter < MessageCount
           /\ verificationCounter' = verificationCounter + 1
           /\ Sent(<<"get", verificationCounter'>>)
           /\ SenderMoves("send", "poll")
           /\ UNCHANGED <<signalVars, messageCounter, verificationPhase>>

\* A send that fails is tried again with the same key, however often: the
\* connection is gone, or SendBuffer gave up on a full one (NetworkLib.c:139).
SendFails == /\ \/ verificationPhase = 0 /\ messageCounter < MessageCount
                \/ verificationPhase = 1 /\ verificationCounter < MessageCount
             /\ SenderMoves("send", "poll")
             /\ UNCHANGED <<signalVars, senderVars, asked, hasty>>

-----------------------------------------------------------------------------
(* The receiver.                                                           *)

ReceiverMoves(from, to) == /\ receiver = from
                           /\ receiver' = to
                           /\ UNCHANGED <<input, sender, main, senderVars, asked, connected,
                                          refused, foreign>>

ReceiverStops == /\ ReceiverMoves("poll", "done")
                 /\ TakePermit
                 /\ UNCHANGED <<pauseSender, counted, answers, complete, hasty>>

\* Slip: the answers to PUTs count as well.
AllResponsesMixed == counted.put + counted.get >= MessageCount

\* getSuccessCount + getFailureCount >= messageCount.
AllResponses == counted.get >= MessageCount

ReceiverPolls == /\ finishSignal = 0
                 /\ ~AllResponses
                 /\ ReceiverMoves("poll", "receive")
                 /\ UNCHANGED <<signalVars, pauseSender, counted, answers, complete, hasty>>

ReceiverCompletes == /\ finishSignal = 0
                     /\ AllResponses
                     /\ ReceiverMoves("poll", "done")
                     /\ SetFinishSignal
                     /\ complete' = TRUE
                     /\ UNCHANGED <<pauseSender, counted, answers, hasty>>

Receives(type) == /\ answers # << >>
                  /\ Head(answers) = type
                  /\ answers' = Tail(answers)

\* MSG_PUT_RESPONSE, MSG_GET_RESPONSE: a failed request counts too, and so does
\* an answer to a key that this client never asked for.
ReceiveResponse == /\ ReceiverMoves("receive", "poll")
                   /\ \E type \in {"put", "get"} :
                         /\ Receives(type)
                         /\ counted' = [counted EXCEPT ![type] = @ + 1]
                   /\ UNCHANGED <<signalVars, pauseSender, complete, hasty>>

\* MSG_SHUTDOWN: the loop goes on to its next round.
ReceiveShutdown == /\ ReceiverMoves("receive", "poll")
                   /\ Receives("shutdown")
                   /\ SetFinishSignal
                   /\ UNCHANGED <<pauseSender, counted, complete, hasty>>

\* MSG_ERROR with ERR_SERVER_BUSY: the sender is paused while the receiver sleeps.
ReceiveBusy == /\ ReceiverMoves("receive", "sleep")
               /\ Receives("busy")
               /\ pauseSender' = TRUE
               /\ UNCHANGED <<signalVars, counted, complete, hasty>>

ResumeSender == /\ ReceiverMoves("sleep", "poll")
                /\ pauseSender' = FALSE
                /\ hasty' = 0
                /\ UNCHANGED <<signalVars, counted, answers, complete>>

\* Slip: the thread ends alone.
ReceiveFailsAlone == /\ ReceiverMoves("receive", "done")
                     /\ answers = << >>
                     /\ UNCHANGED <<signalVars, pauseSender, counted, answers, complete, hasty>>

\* The connection has ended, or 5000 polls found nothing on it.
ReceiveFails == /\ ReceiverMoves("receive", "done")
                /\ answers = << >>
                /\ SetFinishSignal
                /\ UNCHANGED <<pauseSender, counted, answers, complete, hasty>>

-----------------------------------------------------------------------------
(* main joins the threads, prints the summary, cleans up, and waits for a  *)
(* key before the process ends.                                            *)

MainMoves(from, to) ==
    /\ main = from
    /\ main' = to
    /\ UNCHANGED <<signalVars, pauseSender, input, sender, receiver, senderVars, counted, netVars,
                   complete, hasty>>

PrintVerificationSummary == Ended /\ MainMoves("join", "key")

MainEnds == MainMoves("key", "exited")

-----------------------------------------------------------------------------
(* The load balancer.                                                      *)

ServerMoves == UNCHANGED <<signalVars, pauseSender, threadVars, senderVars, counted, complete,
                           hasty>>

Answer(r) == /\ connected
             /\ asked' = asked \ {r}
             /\ answers' = Append(answers, r[1])
             /\ UNCHANGED <<connected, refused, foreign>>
             /\ ServerMoves

\* The response dispatcher sends what another client asked for.
AnswerOther(type) == /\ connected
                     /\ foreign.put + foreign.get < MaxForeign
                     /\ foreign' = [foreign EXCEPT ![type] = @ + 1]
                     /\ answers' = Append(answers, type)
                     /\ UNCHANGED <<asked, connected, refused>>
                     /\ ServerMoves

\* No worker, or the request queue is full: SendError(ERR_SERVER_BUSY).
Refuse(r) == /\ connected
             /\ asked' = asked \ {r}
             /\ answers' = Append(answers, "busy")
             /\ refused' = refused \cup {r}
             /\ UNCHANGED <<connected, foreign>>
             /\ ServerMoves

\* The request or its answer is lost on the way through the load balancer.
Lose(r) == /\ asked' = asked \ {r}
           /\ refused' = refused \cup {r}
           /\ UNCHANGED <<answers, connected, foreign>>
           /\ ServerMoves

\* The load balancer sends SHUTDOWN and closes, or the connection breaks.
ServerEnds == /\ connected
              /\ connected' = FALSE
              /\ answers' \in {Append(answers, "shutdown"), answers, << >>}
              /\ UNCHANGED <<asked, refused, foreign>>
              /\ ServerMoves

-----------------------------------------------------------------------------
Sender == \/ SenderStops \/ SenderPolls \/ GetPauseSender \/ StartVerification
          \/ EndVerification \/ SendPut \/ SendGet \/ SendFails
Receiver == \/ ReceiverStops \/ ReceiverPolls \/ ReceiverCompletes \/ ReceiveResponse
            \/ ReceiveShutdown \/ ReceiveBusy \/ ResumeSender \/ ReceiveFails
Server == \/ \E r \in asked : Answer(r) \/ Refuse(r) \/ Lose(r)
          \/ \E type \in {"put", "get"} : AnswerOther(type)
          \/ ServerEnds
Main == PrintVerificationSummary \/ MainEnds

Next == InputEnds \/ Sender \/ Receiver \/ Main \/ Server

Spec == Init /\ [][Next]_vars

(* The threads of the client are scheduled, and the input handler sees a   *)
(* permit at its next poll; nobody has to press a key, to stop the client  *)
(* or to leave it, and the load balancer owes nothing.  The socket does    *)
(* not block, so a send or a receive comes back.                           *)
Fairness == /\ WF_vars(Sender)
            /\ WF_vars(Receiver)
            /\ WF_vars(PrintVerificationSummary)
            /\ WF_vars(finishSignal > 0 /\ InputEnds)

FairSpec == Spec /\ Fairness

-----------------------------------------------------------------------------
TypeOK == /\ finishFlag \in BOOLEAN
          /\ finishSignal \in 0 .. ThreadCount
          /\ pauseSender \in BOOLEAN
          /\ input \in {"poll", "done"}
          /\ sender \in {"poll", "pause?", "send", "done"}
          /\ receiver \in {"poll", "receive", "sleep", "done"}
          /\ main \in {"join", "key", "exited"}
          /\ messageCounter \in 0 .. MessageCount
          /\ verificationCounter \in 0 .. MessageCount
          /\ verificationPhase \in {0, 1}
          /\ counted \in [put : 0 .. MessageCount + MaxForeign,
                          get : 0 .. MessageCount + MaxForeign]
          /\ asked \subseteq Requests
          /\ answers \in Seq({"put", "get", "busy", "shutdown"})
          /\ refused \subseteq Requests
          /\ foreign \in [put : 0 .. MaxForeign, get : 0 .. MaxForeign]
          /\ hasty \in Nat

\* A thread that runs takes one permit.
Needs(place) == IF place = "done" THEN 0 ELSE 1

\* Once the client is told to finish there is a permit for every thread that
\* still runs (SetFinishSignal, and the threads that end without a permit).
PermitsSuffice ==
    finishFlag => finishSignal >= Needs(input) + Needs(sender) + Needs(receiver)

\* At most one request leaves while the sender is paused: the one whose poll of
\* GetPauseSender came before SetPauseSender.
PauseRespected == hasty <= 1

\* When "All responses received" is said (ReceiverThread.c:27) the GETs not yet
\* sent, not answered, refused or lost are no more than the answers that were
\* another client's: none, unless the load balancer confused two clients.
CompleteMeansVerified ==
    complete => (MessageCount - verificationCounter) + Cardinality((asked \cup refused) \cap Gets)
                    <= foreign.get

\* The three threads end and the summary is printed, whatever the load balancer
\* answers or leaves unanswered.
SessionEnds == <>(main # "join")
=============================================================================
