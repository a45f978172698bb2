---------------------------- MODULE WorkerThreads ----------------------------
(***************************************************************************)
(* The threads of one worker process, the queue through which the receiver *)
(* hands export requests to the export thread (Worker/ExportQueue.c,       *)
(* ExportThread.c), and how the process stops (Worker/Context.c, the loops *)
(* of InputHandlerThread.c, ReceiverThread.c, PeerListenerThread.c and the *)
(* wait of Worker.c).                                                      *)
(*                                                                         *)
(* A thread stops when it takes one of the THREAD_COUNT permits of         *)
(* context->finishSignal; the export thread has a finish semaphore of its  *)
(* own.                                                                    *)
(*                                                                         *)
(* The sockets to the peers are blocking (PeerManager.c:124), so a send to *)
(* a peer that reads nothing need not return: the receiver is then stuck   *)
(* under peerLock (PeerManager.c:64-78), the export thread under a bucket  *)
(* lock (HashTable.c:399-414), where everything else that needs that       *)
(* bucket waits for it.  Such a call is a place of its own.                *)
(*                                                                         *)
(* Not modelled: the failing startup of main; what the messages do to the  *)
(* hash table and to the peers (Replication).                              *)
(***************************************************************************)
EXTENDS Integers, Sequences, FiniteSets

CONSTANTS Targets,    \* workers the load balancer asks this one to export to
          MaxWorkers  \* MAX_WORKERS, the capacity of the export queue

ASSUME WorkerAssumption == IsFiniteSet(Targets) /\ MaxWorkers \in Nat \ {0}

ThreadCount == 4   \* THREAD_COUNT

VARIABLES finishFlag,   \* context->finishFlag
          finishSignal, \* permits of context->finishSignal
          exportFinish, \* permits of exportQueue->finishSignal
          exportSignal, \* permits of exportQueue->exportSignal
          requests,     \* exportQueue->requests, oldest first
          asked,        \* the export requests the load balancer has sent
          exporting,    \* the target the export thread is serving, if any
          exported,     \* the targets the export thread has served
          input, receiver, listener, exporter, main   \* where each thread is

finishVars == <<finishFlag, finishSignal, exportFinish>>
exportVars == <<exportSignal, requests, asked, exporting, exported>>
vars == <<finishVars, exportVars, input, receiver, listener, exporter, main>>

(* The peer listener ends at once when it cannot have its port.            *)
Init == /\ finishFlag = FALSE
        /\ finishSignal = 0
        /\ exportFinish = 0
        /\ exportSignal = 0
        /\ requests = << >>
        /\ asked = {}
        /\ exporting = {}
        /\ exported = {}
        /\ input = "poll"
        /\ receiver = "poll"
        /\ listener \in {"poll", "done"}
        /\ exporter = "wait"
        /\ main = "join"

-----------------------------------------------------------------------------
(* Stopping.                                                               *)

\* Slips: one permit short; the export thread is not told.
SetFinishSignalShort ==
    /\ finishFlag' = TRUE
    /\ finishSignal' = IF finishFlag THEN finishSignal ELSE finishSignal + ThreadCount - 1
    /\ exportFinish' = 1

SetFinishSignalNoExport ==
    /\ finishFlag' = TRUE
    /\ finishSignal' = IF finishFlag THEN finishSignal ELSE finishSignal + ThreadCount
    /\ UNCHANGED exportFinish

\* SetFinishSignal: the permits once, the export thread's every time.
SetFinishSignal ==
    /\ finishFlag' = TRUE
    /\ finishSignal' = IF finishFlag THEN finishSignal ELSE finishSignal + ThreadCount
    /\ exportFinish' = 1

\* WaitForSingleObject(finishSignal, 0) succeeds.
TakePermit == /\ finishSignal > 0
              /\ finishSignal' = finishSignal - 1
              /\ UNCHANGED <<finishFlag, exportFinish>>

-----------------------------------------------------------------------------
(* The input handler.                                                      *)

InputMoves(from, to) == /\ input = from
                        /\ input' = to
                        /\ UNCHANGED <<exportVars, receiver, listener, exporter, main>>

\* The top of the loop: a permit ends it.
InputPolls == \/ InputMoves("poll", "done") /\ TakePermit
              \/ finishSignal = 0 /\ InputMoves("poll", "key") /\ UNCHANGED finishVars

\* 'q'.
InputQuits == InputMoves("key", "done") /\ SetFinishSignal

\* 's': GetHashTableStats takes every bucket lock in turn.
InputShowsStatus == InputMoves("key", "status") /\ UNCHANGED finishVars
StatusShown == InputMoves("status", "poll") /\ UNCHANGED finishVars

\* No key, or another one.
InputSleeps == InputMoves("key", "poll") /\ UNCHANGED finishVars

-----------------------------------------------------------------------------
(* The receiver.                                                           *)

\* Nothing but the receiver's place changes.
ReceiverMoves(from, to) ==
    /\ receiver = from
    /\ receiver' = to
    /\ UNCHANGED <<input, listener, exporter, main>>

\* The top of the loop: a permit ends it.
ReceiverPolls == \/ /\ ReceiverMoves("poll", "done")
                    /\ TakePermit
                    /\ UNCHANGED exportVars
                 \/ /\ finishSignal = 0
                    /\ ReceiverMoves("poll", "receive")
                    /\ UNCHANGED <<finishVars, exportVars>>

\* No message, or one that is served at once.
ReceiverServes == /\ ReceiverMoves("receive", "poll")
                  /\ UNCHANGED <<finishVars, exportVars>>

(* MSG_STORE_REQUEST or MSG_RETRIEVE_REQUEST: the hash table, and for a    *)
(* STORE BroadcastData, which need not return.                             *)
ReceiverStores == /\ ReceiverMoves("receive", "store")
                  /\ UNCHANGED <<finishVars, exportVars>>

ReceiverStored == /\ ReceiverMoves("store", "poll")
                  /\ UNCHANGED <<finishVars, exportVars>>

\* MSG_SHUTDOWN goes on to the next round; a failed receive ends the loop.
ReceiverShutsDown == /\ \/ ReceiverMoves("receive", "poll")
                        \/ ReceiverMoves("receive", "done")
                     /\ SetFinishSignal
                     /\ UNCHANGED exportVars

\* Slip: the queue takes a request past its capacity.
AddExportRequestUnbounded(w) ==
    /\ w \notin asked
    /\ asked' = asked \cup {w}
    /\ requests' = Append(requests, w)
    /\ ReceiverMoves("receive", "signal")
    /\ UNCHANGED <<finishVars, exportSignal, exporting, exported>>

(* MSG_WORKER_ENTRY with shouldExportData: AddExportRequest drops it when  *)
(* the queue is full.                                                      *)
AddExportRequest(w) ==
    /\ w \notin asked
    /\ asked' = asked \cup {w}
    /\ IF Len(requests) >= MaxWorkers
       THEN ReceiverMoves("receive", "poll") /\ UNCHANGED requests
       ELSE ReceiverMoves("receive", "signal") /\ requests' = Append(requests, w)
    /\ UNCHANGED <<finishVars, exportSignal, exporting, exported>>

\* Slip: the release is forgotten.
SignalNothing == /\ ReceiverMoves("signal", "poll")
                 /\ UNCHANGED <<finishVars, exportVars>>

\* AddExportRequest, after its lock is left.
SignalExport == /\ ReceiverMoves("signal", "poll")
                /\ exportSignal' = IF exportSignal < MaxWorkers THEN exportSignal + 1
                                   ELSE exportSignal
                /\ UNCHANGED <<finishVars, requests, asked, exporting, exported>>

-----------------------------------------------------------------------------
(* The peer listener: a loop over connections around a loop over messages. *)

ListenerMoves(from, to) ==
    /\ listener = from
    /\ listener' = to
    /\ UNCHANGED <<exportVars, input, receiver, exporter, main>>

\* The outer loop's poll: a permit ends the thread.
ListenerPolls == \/ ListenerMoves("poll", "done") /\ TakePermit
                 \/ finishSignal = 0 /\ ListenerMoves("poll", "accept") /\ UNCHANGED finishVars

\* A peer has connected, or not.
ListenerAccepts == /\ \/ ListenerMoves("accept", "poll")
                      \/ ListenerMoves("accept", "connection")
                   /\ UNCHANGED finishVars

(* The inner loop's poll: a permit closes the connection and leads back to *)
(* the outer loop, whose poll takes another permit.                        *)
ConnectionPolls ==
    \/ ListenerMoves("connection", "poll") /\ TakePermit
    \/ finishSignal = 0 /\ ListenerMoves("connection", "message") /\ UNCHANGED finishVars

\* A message, none, or the end of the connection.
ConnectionReceives == /\ \/ ListenerMoves("message", "serve")
                         \/ ListenerMoves("message", "connection")
                         \/ ListenerMoves("message", "poll")
                      /\ UNCHANGED finishVars

\* HasHashTable and SetHashTable, or GetHashTableStats, have their locks.
ListenerStored == ListenerMoves("serve", "connection") /\ UNCHANGED finishVars

-----------------------------------------------------------------------------
(* The export thread.                                                      *)

(* WaitForMultipleObjects on both semaphores: the export signal, listed    *)
(* first, wins.                                                            *)
ExporterWakes ==
    /\ exporter = "wait"
    /\ \/ /\ exportSignal > 0
          /\ exportSignal' = exportSignal - 1
          /\ exporter' = "take"
          /\ UNCHANGED exportFinish
       \/ /\ exportSignal = 0 /\ exportFinish > 0
          /\ exportFinish' = exportFinish - 1
          /\ exporter' = "done"
          /\ UNCHANGED exportSignal
    /\ UNCHANGED <<finishFlag, finishSignal, requests, asked, exporting, exported, input,
                   receiver, listener, main>>

\* Slip: the requests are not moved up.
ExporterKeepsHead == /\ exporter = "take"
                     /\ requests # << >>
                     /\ exporting' = {Head(requests)}
                     /\ requests' = SubSeq(requests, 1, Len(requests) - 1)
                     /\ exporter' = "export"
                     /\ UNCHANGED <<finishVars, exportSignal, asked, exported, input, receiver,
                                    listener, main>>

\* The oldest request leaves the queue.
ExporterTakes ==
    /\ exporter = "take"
    /\ IF requests # << >>
       THEN /\ requests' = Tail(requests)
            /\ exporting' = {Head(requests)}
            /\ exporter' = "export"
       ELSE exporter' = "wait" /\ UNCHANGED <<requests, exporting>>
    /\ UNCHANGED <<finishVars, exportSignal, asked, exported, input, receiver, listener, main>>

\* GetHashTableCount and ExportHashTableToPeer return; they need not.
ExportReturns ==
    /\ exporter = "export"
    /\ exporter' = "wait"
    /\ exported' = exported \cup exporting
    /\ exporting' = {}
    /\ UNCHANGED <<finishVars, exportSignal, requests, asked, input, receiver, listener, main>>

-----------------------------------------------------------------------------
\* main waits for its four threads and cleans up; a key press then ends it.
MainJoins == /\ main = "join"
             /\ {input, receiver, listener, exporter} = {"done"}
             /\ main' = "cleaned"
             /\ UNCHANGED <<finishVars, exportVars, input, receiver, listener, exporter>>

InputStep == InputPolls \/ InputQuits \/ InputShowsStatus \/ InputSleeps
ReceiverStep == \/ ReceiverPolls \/ ReceiverServes \/ ReceiverStores \/ ReceiverShutsDown
                \/ SignalExport
                \/ \E w \in Targets : AddExportRequest(w)
ListenerStep == ListenerPolls \/ ListenerAccepts \/ ConnectionPolls \/ ConnectionReceives
ExporterStep == ExporterWakes \/ ExporterTakes

Next == \/ InputStep \/ StatusShown
        \/ ReceiverStep \/ ReceiverStored
        \/ ListenerStep \/ ListenerStored
        \/ ExporterStep \/ ExportReturns
        \/ MainJoins

Spec == Init /\ [][Next]_vars

(* Every thread keeps running, and a wait for a bucket lock ends when the  *)
(* export thread holds none.  Nobody is made to press 'q', and nothing     *)
(* makes a send to a peer return.                                          *)
Fairness == /\ WF_vars(InputStep)
            /\ WF_vars(StatusShown /\ exporter # "export")
            /\ WF_vars(ReceiverStep)
            /\ WF_vars(ListenerStep)
            /\ WF_vars(ListenerStored /\ exporter # "export")
            /\ WF_vars(ExporterStep)
            /\ WF_vars(MainJoins)

FairSpec == Spec /\ Fairness

-----------------------------------------------------------------------------
(* Properties.                                                             *)

TypeOK == /\ finishFlag \in BOOLEAN
          /\ finishSignal \in 0 .. ThreadCount
          /\ exportFinish \in 0 .. 1
          /\ exportSignal \in 0 .. MaxWorkers
          /\ requests \in Seq(Targets) /\ Len(requests) <= MaxWorkers
          /\ asked \subseteq Targets
          /\ exporting \subseteq Targets
          /\ exported \subseteq Targets
          /\ input \in {"poll", "key", "status", "done"}
          /\ receiver \in {"poll", "receive", "store", "signal", "done"}
          /\ listener \in {"poll", "accept", "connection", "message", "serve", "done"}
          /\ exporter \in {"wait", "take", "export", "done"}
          /\ main \in {"join", "cleaned"}

\* The permits a thread takes before it has stopped, at most.
Needs(place) == CASE place = "done" -> 0
                  [] place \in {"accept", "connection", "message", "serve"} -> 2
                  [] OTHER -> 1

(* After the signal the permits suffice for every thread that still runs,  *)
(* although the peer listener takes two, one for each of its loops: the    *)
(* one that would be the export thread's is never used by it               *)
(* (PeerListenerThread.c:52 and 70, Context.c:99).                         *)
PermitsSuffice ==
    finishFlag => finishSignal >= Needs(input) + Needs(receiver) + Needs(listener)

(* Every permit of exportSignal stands for a queued request, and every     *)
(* request has its permit or is about to get it: the export thread never   *)
(* wakes to an empty queue or sleeps on a full one (ExportQueue.c:52-72).  *)
SignalsMatchRequests ==
    exportSignal + (IF receiver = "signal" THEN 1 ELSE 0)
        + (IF exporter = "take" THEN 1 ELSE 0) = Len(requests)

(* No send to a peer hangs: the receiver gets out of BroadcastData and the *)
(* export thread out of its export whenever they are in it.                *)
SendsReturn == []<>(receiver # "store") /\ []<>(exporter # "export")

(* As long as the peers read what they are sent, a queued export is        *)
(* carried out, in spite of a stop in between, or else its permit came     *)
(* after the export thread had ended.                                      *)
QueuedExportServed ==
    SendsReturn =>
        \A w \in Targets :
            (exporter = "wait" /\ \E i \in 1 .. exportSignal : requests[i] = w)
                ~> (w \in exported)

(* As long as the peers read what they are sent, a worker process that is  *)
(* told to stop gets to its clean-up.  With a peer that does not, 'q' may  *)
(* leave it running for ever (Worker.c:116 waits for all threads).         *)
WorkerStops == SendsReturn => (finishFlag ~> (main = "cleaned"))
=============================================================================
