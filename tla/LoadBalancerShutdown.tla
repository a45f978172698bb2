------------------------ MODULE LoadBalancerShutdown ------------------------
(***************************************************************************)
(* How the load balancer stops.  The input handler releases THREAD_COUNT   *)
(* permits of context->finishSignal and ends; a thread stops when it takes *)
(* a permit between two rounds of its loop.  The permits are for the four  *)
(* listeners and dispatchers, but the receiver threads of the pools poll   *)
(* the same semaphore.  main waits for its own five threads and destroys   *)
(* the context (LoadBalancer/Context.c, LoadBalancer.c and the loops of    *)
(* the threads).                                                           *)
(*                                                                         *)
(* DestroyClientThreadPool and DestroyWorkerThreadPool do not wait either: *)
(* WaitForMultipleObjects fails at once on the NULL handle of a free slot. *)
(* Modelled for pools with a free slot.  Not modelled: what a receiver     *)
(* does with the context once it is destroyed (undefined), the failing     *)
(* startup of main, the work of a round.  The input handler's own wait     *)
(* never succeeds: only its own 'q' releases the semaphore.                *)
(***************************************************************************)
EXTENDS Integers, FiniteSets

CONSTANTS Pollers,    \* the two listeners and the two dispatchers
          Listeners,  \* those that start receivers
          Connections \* connections of clients and workers that may be made

ASSUME ShutdownAssumption == /\ IsFiniteSet(Pollers)
                             /\ Listeners \subseteq Pollers
                             /\ IsFiniteSet(Connections)

ThreadCount == Cardinality(Pollers) + 1   \* THREAD_COUNT: with the input handler

VARIABLES finishFlag,   \* context->finishFlag
          finishSignal, \* permits of context->finishSignal
          input,        \* the input handler
          poller,       \* the listeners and dispatchers
          receiver,     \* the receiver thread of each connection
          main          \* the main thread

shutdownVars == <<finishFlag, finishSignal, input, poller, receiver, main>>

ShutdownInit == /\ finishFlag = FALSE
                /\ finishSignal = 0
                /\ input = "run"
                /\ poller = [t \in Pollers |-> "run"]
                /\ receiver = [c \in Connections |-> "none"]
                /\ main = "spin"

Running == {t \in Pollers : poller[t] = "run"}

\* Receivers that have left their loop, with a permit or without.
Finished == {c \in Connections : receiver[c] \in {"close", "done"}}

-----------------------------------------------------------------------------
\* Slip: one permit per listener and dispatcher only.
SetFinishSignalShort == /\ finishFlag' = TRUE
                        /\ finishSignal' = finishSignal + (ThreadCount - 1)

\* SetFinishSignal; its only caller here ends with the call.
SetFinishSignal == /\ finishFlag' = TRUE
                   /\ finishSignal' = finishSignal + ThreadCount

\* 'q' is pressed.
InputQuits == /\ input = "run"
              /\ SetFinishSignal
              /\ input' = "done"
              /\ UNCHANGED <<poller, receiver, main>>

\* Slip: the result of the wait is not looked at.
PollerStopsAnyway(t) == /\ poller[t] = "run"
                        /\ finishSignal' = finishSignal - 1
                        /\ poller' = [poller EXCEPT ![t] = "done"]
                        /\ UNCHANGED <<finishFlag, input, receiver, main>>

\* A listener or dispatcher takes a permit at the top of its loop.
PollerStops(t) == /\ poller[t] = "run"
                  /\ finishSignal > 0
                  /\ finishSignal' = finishSignal - 1
                  /\ poller' = [poller EXCEPT ![t] = "done"]
                  /\ UNCHANGED <<finishFlag, input, receiver, main>>

-----------------------------------------------------------------------------
(* Receiver threads.                                                       *)

\* A listener that has not stopped accepts a connection.
Connect(c) == /\ receiver[c] = "none"
              /\ Listeners \cap Running # {}
              /\ receiver' = [receiver EXCEPT ![c] = "poll"]
              /\ UNCHANGED <<finishFlag, finishSignal, input, poller, main>>

\* The receiver's poll takes a permit, or goes on to ProtocolReceive.
ReceiverPolls(c) ==
    /\ receiver[c] = "poll"
    /\ IF finishSignal > 0
       THEN /\ finishSignal' = finishSignal - 1
            /\ receiver' = [receiver EXCEPT ![c] = "close"]
       ELSE /\ receiver' = [receiver EXCEPT ![c] = "receive"]
            /\ UNCHANGED finishSignal
    /\ UNCHANGED <<finishFlag, input, poller, main>>

(* ProtocolReceive returns a message, or fails: the peer is gone or was    *)
(* silent for 5000 polls.                                                  *)
ReceiverReceives(c) == /\ receiver[c] = "receive"
                       /\ \E next \in {"poll", "close"} :
                             receiver' = [receiver EXCEPT ![c] = next]
                       /\ UNCHANGED <<finishFlag, finishSignal, input, poller, main>>

\* SHUTDOWN to the peer, close, return to the pool.
ReceiverCloses(c) == /\ receiver[c] = "close"
                     /\ receiver' = [receiver EXCEPT ![c] = "done"]
                     /\ UNCHANGED <<finishFlag, finishSignal, input, poller, main>>

-----------------------------------------------------------------------------
(* main.                                                                   *)

\* Slip: main looks at the semaphore instead of the flag.
MainSeesPermit == /\ main = "spin"
                  /\ finishSignal > 0
                  /\ main' = "join"
                  /\ UNCHANGED <<finishFlag, finishSignal, input, poller, receiver>>

\* The busy loop over GetFinishFlag ends.
MainSeesFlag == /\ main = "spin"
                /\ finishFlag
                /\ main' = "join"
                /\ UNCHANGED <<finishFlag, finishSignal, input, poller, receiver>>

\* main waits for its own five threads, then CleanupFull frees the context.  The
\* process still waits for a key then (LoadBalancer.c:186).
MainDestroys == /\ main = "join"
                /\ Running = {} /\ input = "done"
                /\ main' = "cleaned"
                /\ UNCHANGED <<finishFlag, finishSignal, input, poller, receiver>>

-----------------------------------------------------------------------------
\* Nothing is said of a receiver after the context is gone.
ReceiverStep(c) == /\ main # "cleaned"
                   /\ ReceiverPolls(c) \/ ReceiverReceives(c) \/ ReceiverCloses(c)

ShutdownNext == \/ InputQuits \/ MainSeesFlag \/ MainDestroys
                \/ \E t \in Pollers : PollerStops(t)
                \/ \E c \in Connections : Connect(c) \/ ReceiverStep(c)

ShutdownSpec == ShutdownInit /\ [][ShutdownNext]_shutdownVars

\* Every thread keeps polling; nobody is made to press 'q' or to connect.
ShutdownFairness == /\ WF_shutdownVars(MainSeesFlag \/ MainDestroys)
                    /\ \A t \in Pollers : WF_shutdownVars(PollerStops(t))
                    /\ \A c \in Connections : WF_shutdownVars(ReceiverStep(c))

FairShutdownSpec == ShutdownSpec /\ ShutdownFairness

-----------------------------------------------------------------------------
(* Properties.                                                             *)

ShutdownTypeOK == /\ finishFlag \in BOOLEAN
                  /\ finishSignal \in 0 .. ThreadCount
                  /\ input \in {"run", "done"}
                  /\ poller \in [Pollers -> {"run", "done"}]
                  /\ receiver \in [Connections -> {"none", "poll", "receive", "close", "done"}]
                  /\ main \in {"spin", "join", "cleaned"}

(* After the signal the permits fall short of the listeners and            *)
(* dispatchers that still run by less than the receivers that have ended:  *)
(* each of those takes at most one, and the input handler leaves its own   *)
(* (Context.c:162-173).  One connection that ends does no harm, the second *)
(* may.                                                                    *)
PermitsSuffice ==
    finishFlag => Cardinality(Running) + 1 <= finishSignal + Cardinality(Finished)

(* InputHandlerThread.c:8, "Press 'q' to stop the load balancer.": once    *)
(* the signal is given main gets to its end.                               *)
QuitStops == finishFlag ~> (main = "cleaned")
=============================================================================
