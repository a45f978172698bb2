------------------------- MODULE WorkerThreadsProofs -------------------------
(***************************************************************************)
(* Proofs about WorkerThreads, for every set of targets and every capacity *)
(* of the export queue: its types, that the export signals match the       *)
(* requests, and that THREAD_COUNT permits stop the process.               *)
(***************************************************************************)
EXTENDS WorkerThreads, SequenceTheorems, TLAPS

(* PermitsSuffice is not inductive: the step that gives the signal must    *)
(* find the semaphore empty, whoever gives it, and nothing is released     *)
(* again.                                                                  *)
PermitInv == /\ ~finishFlag => finishSignal = 0
             /\ PermitsSuffice

ThreadInv == TypeOK /\ SignalsMatchRequests /\ PermitInv

-----------------------------------------------------------------------------
\* A thread that runs needs a permit, and the peer listener never more than two.
LEMMA NeedsRange ==
    /\ \A place \in {"poll", "key", "status", "receive", "store", "signal"} : Needs(place) = 1
    /\ \A place \in {"accept", "connection", "message", "serve"} : Needs(place) = 2
    /\ Needs("done") = 0
BY DEF Needs

\* The signal gives four permits, once.
LEMMA SignalPermits ==
    ASSUME finishFlag \in BOOLEAN, finishSignal \in 0 .. 4, SetFinishSignal
    PROVE  /\ finishFlag' = TRUE
           /\ exportFinish' \in 0 .. 1
           /\ finishFlag => finishSignal' = finishSignal
           /\ ~finishFlag /\ finishSignal = 0 => finishSignal' = 4
           /\ finishSignal' \in Int
BY DEF SetFinishSignal, ThreadCount

LEMMA InitInv == Init => ThreadInv
<1> SUFFICES ASSUME Init PROVE ThreadInv
    OBVIOUS
<1>1. requests \in Seq(Targets) /\ Len(requests) = 0
    BY DEF Init
<1>2. Len(requests) <= MaxWorkers /\ 0 \in 0 .. MaxWorkers
    BY <1>1, WorkerAssumption
<1>3. /\ finishFlag = FALSE /\ finishSignal = 0 /\ exportFinish = 0 /\ exportSignal = 0
      /\ asked = {} /\ exporting = {} /\ exported = {} /\ input = "poll" /\ receiver = "poll"
      /\ listener \in {"poll", "done"} /\ exporter = "wait" /\ main = "join"
    BY DEF Init
<1>4. exportSignal \in 0 .. MaxWorkers
    BY <1>2, <1>3
<1>5. finishSignal \in 0 .. ThreadCount /\ exportFinish \in 0 .. 1
    BY <1>3 DEF ThreadCount
<1>6. finishFlag \in BOOLEAN
    BY <1>3, Zenon
<1>7. TypeOK
    BY <1>1, <1>2, <1>3, <1>4, <1>5, <1>6 DEF TypeOK
<1>8. SignalsMatchRequests /\ PermitInv
    BY <1>1 DEF Init, SignalsMatchRequests, PermitInv, PermitsSuffice
<1> QED BY <1>7, <1>8 DEF ThreadInv

-----------------------------------------------------------------------------
(* The export queue: what each step does to it.                            *)

ExportInv == /\ exportSignal \in 0 .. MaxWorkers
             /\ requests \in Seq(Targets) /\ Len(requests) <= MaxWorkers
             /\ asked \subseteq Targets
             /\ exporting \subseteq Targets
             /\ exported \subseteq Targets
             /\ receiver \in {"poll", "receive", "store", "signal", "done"}
             /\ exporter \in {"wait", "take", "export", "done"}
             /\ SignalsMatchRequests

LEMMA ExportStep ==
    ASSUME TypeOK, SignalsMatchRequests, [Next]_vars
    PROVE  ExportInv'
<1> USE WorkerAssumption
<1> DEFINE Kept == UNCHANGED exportVars /\ UNCHANGED exporter
                   /\ (receiver' = "signal" <=> receiver = "signal")
                   /\ receiver' \in {"poll", "receive", "store", "signal", "done"}
<1>1. CASE Kept
    <2>1. Len(requests') = Len(requests) /\ exportSignal' = exportSignal /\ exporter' = exporter
        BY <1>1 DEF exportVars
    <2> QED BY <2>1, <1>1 DEF TypeOK, SignalsMatchRequests, ExportInv, exportVars
<1>2. ASSUME NEW w \in Targets, AddExportRequest(w), Len(requests) < MaxWorkers
      PROVE  ExportInv'
    <2>1. /\ requests' = Append(requests, w)
          /\ receiver = "receive" /\ receiver' = "signal"
          /\ UNCHANGED <<exportSignal, exporter, exporting, exported>>
          /\ asked' \subseteq Targets
        BY <1>2 DEF AddExportRequest, ReceiverMoves, TypeOK
    <2>2. requests' \in Seq(Targets) /\ Len(requests') = Len(requests) + 1
        BY <2>1, AppendProperties DEF TypeOK
    <2> QED BY <1>2, <2>1, <2>2 DEF TypeOK, SignalsMatchRequests, ExportInv
<1>3. ASSUME NEW w \in Targets, AddExportRequest(w), Len(requests) >= MaxWorkers
      PROVE  ExportInv'
    BY <1>3 DEF AddExportRequest, ReceiverMoves, TypeOK, SignalsMatchRequests, ExportInv
<1>4. ASSUME NEW w \in Targets, AddExportRequest(w) PROVE ExportInv'
    BY <1>2, <1>3, <1>4 DEF TypeOK
<1>5. CASE SignalExport
    <2>1. exportSignal + 1 <= MaxWorkers
        BY <1>5 DEF SignalExport, ReceiverMoves, TypeOK, SignalsMatchRequests
    <2>2. /\ exportSignal' = exportSignal + 1 /\ receiver = "signal" /\ receiver' = "poll"
          /\ UNCHANGED <<requests, asked, exporting, exported, exporter>>
        BY <1>5, <2>1 DEF SignalExport, ReceiverMoves, TypeOK
    <2> QED BY <2>1, <2>2 DEF TypeOK, SignalsMatchRequests, ExportInv
<1>6. CASE ExporterWakes
    <2>1. UNCHANGED <<requests, asked, exporting, exported, receiver>>
        BY <1>6 DEF ExporterWakes
    <2>2. CASE /\ exportSignal > 0 /\ exportSignal' = exportSignal - 1
               /\ exporter = "wait" /\ exporter' = "take"
        BY <2>1, <2>2 DEF TypeOK, SignalsMatchRequests, ExportInv
    <2>3. CASE exportSignal' = exportSignal /\ exporter = "wait" /\ exporter' = "done"
        BY <2>1, <2>3 DEF TypeOK, SignalsMatchRequests, ExportInv
    <2> QED BY <2>2, <2>3, <1>6 DEF ExporterWakes
<1>7. CASE ExporterTakes
    <2>1. Len(requests) > 0
        BY <1>7 DEF ExporterTakes, TypeOK, SignalsMatchRequests
    <2>2. requests # << >>
        BY <2>1 DEF TypeOK
    <2>3. /\ Head(requests) \in Targets
          /\ Tail(requests) \in Seq(Targets)
          /\ Len(Tail(requests)) = Len(requests) - 1
        BY <2>2, HeadTailProperties DEF TypeOK
    <2>4. /\ requests' = Tail(requests)
          /\ exporting' = {Head(requests)}
          /\ exporter = "take" /\ exporter' = "export"
          /\ UNCHANGED <<exportSignal, asked, exported, receiver>>
        BY <2>2, <1>7 DEF ExporterTakes
    <2>5. /\ requests' \in Seq(Targets) /\ Len(requests') = Len(requests) - 1
          /\ exporting' \subseteq Targets
        BY <2>3, <2>4 DEF TypeOK
    <2>6. Len(requests) \in Nat /\ exportSignal \in Int
        BY DEF TypeOK
    <2>7. SignalsMatchRequests'
        <3>1. exportSignal + (IF receiver = "signal" THEN 1 ELSE 0) + 1 = Len(requests)
            BY <2>4 DEF SignalsMatchRequests
        <3>2. exportSignal' = exportSignal /\ receiver' = receiver
            BY <2>4
        <3>3. exportSignal' + (IF receiver' = "signal" THEN 1 ELSE 0) + 0 = Len(requests')
            BY <3>1, <3>2, <2>5, <2>6
        <3> QED BY <3>3, <2>4 DEF SignalsMatchRequests
    <2> QED BY <2>4, <2>5, <2>6, <2>7 DEF TypeOK, ExportInv
<1>8. CASE InputStep \/ StatusShown \/ MainJoins \/ UNCHANGED vars
    BY <1>1, <1>8 DEF InputStep, InputPolls, InputQuits, InputShowsStatus, InputSleeps, StatusShown,
                      InputMoves, MainJoins, vars, TypeOK
<1>9. CASE ListenerStep \/ ListenerStored
    BY <1>1, <1>9 DEF ListenerStep, ListenerPolls, ListenerAccepts, ConnectionPolls,
                      ConnectionReceives, ListenerStored, ListenerMoves, TypeOK
<1>10. CASE \/ ReceiverPolls \/ ReceiverServes \/ ReceiverStores \/ ReceiverStored
            \/ ReceiverShutsDown
    BY <1>1, <1>10 DEF ReceiverPolls, ReceiverServes, ReceiverStores, ReceiverStored,
                       ReceiverShutsDown, ReceiverMoves, TypeOK
<1>11. CASE ExportReturns
    <2>1. /\ exporter = "export" /\ exporter' = "wait"
          /\ exported' = exported \cup exporting /\ exporting' = {}
          /\ UNCHANGED <<exportSignal, requests, asked, receiver>>
        BY <1>11 DEF ExportReturns
    <2> QED BY <2>1 DEF TypeOK, SignalsMatchRequests, ExportInv
<1> QED BY <1>4, <1>5, <1>6, <1>7, <1>8, <1>9, <1>10, <1>11
       DEF Next, ReceiverStep, ExporterStep

-----------------------------------------------------------------------------
(* The permits: what each step does to them.                               *)

LEMMA PermitStep ==
    ASSUME TypeOK, PermitInv, [Next]_vars
    PROVE  /\ finishFlag' \in BOOLEAN
           /\ finishSignal' \in 0 .. ThreadCount
           /\ exportFinish' \in 0 .. 1
           /\ input' \in {"poll", "key", "status", "done"}
           /\ listener' \in {"poll", "accept", "connection", "message", "serve", "done"}
           /\ main' \in {"join", "cleaned"}
           /\ PermitInv'
<1> USE NeedsRange DEF ThreadCount, PermitInv, PermitsSuffice
<1> DEFINE Rest == <<input, listener, main>>
<1>1. CASE InputQuits
    <2>1. SetFinishSignal /\ input = "key" /\ input' = "done"
          /\ UNCHANGED <<receiver, listener, main>>
        BY <1>1 DEF InputQuits, InputMoves
    <2>2. /\ finishFlag' = TRUE /\ exportFinish' \in 0 .. 1
          /\ finishSignal' = IF finishFlag THEN finishSignal ELSE 4
        BY <2>1, SignalPermits DEF TypeOK
    <2> QED BY <2>1, <2>2 DEF TypeOK, Needs
<1>2. CASE InputPolls
    BY <1>2 DEF InputPolls, InputMoves, TakePermit, finishVars, TypeOK
<1>3. CASE ReceiverPolls
    BY <1>3 DEF ReceiverPolls, ReceiverMoves, TakePermit, finishVars, TypeOK
<1>4. CASE \/ ReceiverServes \/ ReceiverStores \/ ReceiverStored \/ SignalExport
           \/ \E w \in Targets : AddExportRequest(w)
    <2>1. /\ UNCHANGED finishVars /\ UNCHANGED Rest
          /\ receiver \in {"receive", "store", "signal"}
          /\ receiver' \in {"poll", "store", "signal"}
        BY <1>4 DEF ReceiverServes, ReceiverStores, ReceiverStored, SignalExport,
           AddExportRequest, ReceiverMoves
    <2> QED BY <2>1 DEF TypeOK, finishVars
<1>5. CASE ReceiverShutsDown
    <2>1. /\ SetFinishSignal /\ UNCHANGED Rest
          /\ receiver = "receive" /\ receiver' \in {"poll", "done"}
        BY <1>5 DEF ReceiverShutsDown, ReceiverMoves
    <2>2. /\ finishFlag' = TRUE /\ exportFinish' \in 0 .. 1
          /\ finishSignal' = IF finishFlag THEN finishSignal ELSE 4
        BY <2>1, SignalPermits DEF TypeOK
    <2> QED BY <2>1, <2>2 DEF TypeOK, Needs
<1>6. CASE ListenerPolls
    BY <1>6 DEF ListenerPolls, ListenerMoves, TakePermit, finishVars, TypeOK
<1>7. CASE ListenerAccepts
    BY <1>7 DEF ListenerAccepts, ListenerMoves, finishVars, TypeOK
<1>8. CASE ConnectionPolls
    BY <1>8 DEF ConnectionPolls, ListenerMoves, TakePermit, finishVars, TypeOK
<1>9. CASE ConnectionReceives \/ ListenerStored
    BY <1>9 DEF ConnectionReceives, ListenerStored, ListenerMoves, finishVars, TypeOK
<1>10. CASE ExporterWakes
    BY <1>10 DEF ExporterWakes, TypeOK
<1>11. CASE ExporterTakes \/ ExportReturns \/ MainJoins \/ UNCHANGED vars
    BY <1>11 DEF ExporterTakes, ExportReturns, MainJoins, vars, finishVars, TypeOK
<1>12. CASE InputShowsStatus \/ StatusShown \/ InputSleeps
    BY <1>12 DEF InputShowsStatus, StatusShown, InputSleeps, InputMoves, finishVars, TypeOK
<1> QED BY <1>1, <1>2, <1>3, <1>4, <1>5, <1>6, <1>7, <1>8, <1>9, <1>10, <1>11, <1>12
       DEF Next, InputStep, ReceiverStep, ListenerStep, ExporterStep

-----------------------------------------------------------------------------
LEMMA StepInv == ThreadInv /\ [Next]_vars => ThreadInv'
BY ExportStep, PermitStep DEF ThreadInv, TypeOK, ExportInv

(* The invariant holds of the worker's threads, whichever of them gives    *)
(* the finish signal and whatever is in the export queue.                  *)
THEOREM ThreadInvariance == Spec => []ThreadInv
BY InitInv, StepInv, PTL DEF Spec

\* Every variable keeps its type.
THEOREM TypeCorrect == Spec => []TypeOK
<1>1. ThreadInv => TypeOK
    BY DEF ThreadInv
<1> QED BY <1>1, ThreadInvariance, PTL

(* THREAD_COUNT permits are enough to stop every thread, the peer listener *)
(* with its two loops included (Context.c:94-109).                         *)
THEOREM PermitsAreEnough == Spec => []PermitsSuffice
<1>1. ThreadInv => PermitsSuffice
    BY DEF ThreadInv, PermitInv
<1> QED BY <1>1, ThreadInvariance, PTL

(* The export thread wakes exactly as often as there are requests, for     *)
(* every capacity of the export queue (ExportQueue.c:52-72).               *)
THEOREM SignalsMatch == Spec => []SignalsMatchRequests
<1>1. ThreadInv => SignalsMatchRequests
    BY DEF ThreadInv
<1> QED BY <1>1, ThreadInvariance, PTL
=============================================================================
