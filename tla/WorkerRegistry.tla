--------------------------- MODULE WorkerRegistry ---------------------------
(***************************************************************************)
(* The load balancer's registry of workers: LoadBalancer/WorkerList.c and  *)
(* the threads that call it, one WorkerDataReceiverThread per connected    *)
(* worker and the WorkerClientRequestDispatcherThread.                     *)
(*                                                                         *)
(* AddWorker and RemoveWorker are three steps each: the wait on one        *)
(* semaphore (which can time out), the critical section, the release of    *)
(* the other semaphore.  Everything else the list offers runs under its    *)
(* lock and is one step.  A worker is a connection, told apart by its      *)
(* process id; a restarted worker is another element of Workers.           *)
(*                                                                         *)
(* Not modelled: a failing malloc in AddWorker; the worker's address and   *)
(* port; a worker that announces itself twice (Worker.c does it once).     *)
(***************************************************************************)
EXTENDS Integers, Sequences, FiniteSets

CONSTANTS Workers,    \* the worker processes that may connect
          MaxWorkers, \* MAX_WORKERS
          Dispatcher, \* the request dispatcher thread
          None        \* no worker

ASSUME RegistryAssumption == /\ IsFiniteSet(Workers)
                             /\ MaxWorkers \in Nat \ {0}
                             /\ Dispatcher \notin Workers
                             /\ None \notin Workers

Threads == Workers \cup {Dispatcher}   \* w stands for the receiver thread of w

VARIABLES list,     \* the circular list, from head; WorkerNode.workerId
          ready,    \* the nodes with isReady = 1
          current,  \* the node the next search starts from
          notEmpty, \* semaphore: nodes that may be removed
          notFull,  \* semaphore: nodes that may be added
          pc,       \* where each thread is
          target,   \* the worker the dispatcher chose (its copy of the node)
          socket,   \* the load balancer's end of each connection
          alive,    \* the workers whose own end of the connection works
          peers,    \* the workers each live worker has been told of
          asked,    \* the workers some other worker was asked to export its data to
          passed    \* history: for each ready worker, those chosen since its own turn

listVars == <<list, ready, current, passed>>
vars == <<listVars, notEmpty, notFull, pc, target, socket, alive, peers, asked>>

PCs == {"none",         \* no receiver thread yet
        "receive",      \* receiver: in ProtocolReceive, READY not handled yet
        "add",          \* AddWorker: before the wait on notFull
        "addEnter",     \* AddWorker: holds a notFull permit
        "addSignal",    \* AddWorker: before ReleaseSemaphore(notEmpty)
        "setReady", "broadcast", "sendRegistry",
        "serve",        \* receiver: in ProtocolReceive, READY handled
        "choose",       \* dispatcher: before GetNextWorker
        "send",         \* dispatcher: before SendStoreRequest / SendRetrieveRequest
        "remove",       \* RemoveWorker: before the wait on notEmpty
        "removeEnter",  \* RemoveWorker: holds a notEmpty permit
        "removeSignal", \* RemoveWorker: before ReleaseSemaphore(notFull)
        "close",        \* receiver: before SendShutdown and SafeCloseSocket
        "done"}         \* receiver: thread returned to the pool

Members == {list[i] : i \in 1 .. Len(list)}

Init == /\ list = << >>
        /\ ready = {}
        /\ current = None
        /\ notEmpty = 0
        /\ notFull = MaxWorkers
        /\ pc = [t \in Threads |-> IF t = Dispatcher THEN "choose" ELSE "none"]
        /\ target = None
        /\ socket = [w \in Workers |-> "none"]
        /\ alive = {}
        /\ peers = [w \in Workers |-> {}]
        /\ asked = {}
        /\ passed = [w \in Workers |-> {}]

Goto(t, from, to) == pc[t] = from /\ pc' = [pc EXCEPT ![t] = to]

\* ReleaseSemaphore(s, 1): no effect at the semaphore's maximum.
Released(permits) == IF permits < MaxWorkers THEN permits + 1 ELSE permits

-----------------------------------------------------------------------------
(* The circular list.                                                      *)

Position(w) == CHOOSE i \in 1 .. Len(list) : list[i] = w

\* The node k < Len(list) links after w.
After(w, k) == LET p == Position(w) + k
               IN list[IF p > Len(list) THEN p - Len(list) ELSE p]

\* The list without w: its neighbours are linked to each other.
Without(w) == [i \in 1 .. Len(list) - 1 |-> list[IF i < Position(w) THEN i ELSE i + 1]]

\* Slip: current is left at the node that is freed.
UnlinkKeepsCurrent(w) == /\ list' = Without(w)
                         /\ ready' = ready \ {w}
                         /\ passed' = [passed EXCEPT ![w] = {}]
                         /\ UNCHANGED current

\* Unlink w: the search continues with its successor if it stood at w.
Unlink(w) == /\ list' = Without(w)
             /\ ready' = ready \ {w}
             /\ current' = IF Len(list) = 1 THEN None
                           ELSE IF current = w THEN After(w, 1)
                           ELSE current
             /\ passed' = [passed EXCEPT ![w] = {}]

\* Link w before head, i.e. at the end; the first node becomes current.
Link(w) == /\ list' = Append(list, w)
           /\ current' = IF list = << >> THEN w ELSE current
           /\ UNCHANGED <<ready, passed>>

-----------------------------------------------------------------------------
(* The connection of a worker.                                             *)

Receivers == {w \in Workers : pc[w] \notin {"none", "done"}}

\* WorkerListenerThread accepts a worker and a receiver thread is assigned.
Connect(w) == /\ Cardinality(Receivers) < MaxWorkers
              /\ Goto(w, "none", "receive")
              /\ socket' = [socket EXCEPT ![w] = "open"]
              /\ alive' = alive \cup {w}
              /\ UNCHANGED <<listVars, notEmpty, notFull, target, peers, asked>>

\* A worker process ends, and what it knew with it.
Ends(w) == /\ alive' = alive \ {w}
           /\ peers' = [peers EXCEPT ![w] = {}]

\* A worker process dies, or its host goes away.
Crash(w) == /\ w \in alive
            /\ Ends(w)
            /\ UNCHANGED <<listVars, notEmpty, notFull, pc, target, socket, asked>>

\* Slip: a receive that only failed ends the loop without RemoveWorker.
ReceiveFailsForgets(w) == /\ \/ Goto(w, "receive", "close")
                             \/ Goto(w, "serve", "remove")
                             \/ Goto(w, "serve", "close")
                          /\ UNCHANGED <<listVars, notEmpty, notFull, target, socket, alive, peers,
                                         asked>>

(* The receiver's ProtocolReceive fails: the worker is gone, or it has     *)
(* sent nothing for 5000 polls.  A worker that never said READY has the    *)
(* id -1 here, which RemoveWorker rejects before its wait.                 *)
ReceiveFails(w) == /\ \/ Goto(w, "receive", "close")
                      \/ Goto(w, "serve", "remove")
                   /\ UNCHANGED <<listVars, notEmpty, notFull, target, socket, alive, peers, asked>>

\* The receiver says SHUTDOWN, closes the socket and gives its thread back.
CloseConnection(w) == /\ Goto(w, "close", "done")
                      /\ socket' = [socket EXCEPT ![w] = "closed"]
                      /\ Ends(w)
                      /\ UNCHANGED <<listVars, notEmpty, notFull, target, asked>>

-----------------------------------------------------------------------------
(* MSG_WORKER_READY.                                                       *)

ReceiveReady(w) == /\ w \in alive
                   /\ Goto(w, "receive", "add")
                   /\ UNCHANGED <<listVars, notEmpty, notFull, target, socket, alive, peers, asked>>

(* AddWorker's wait.  When it times out AddWorker returns 0, which the     *)
(* receiver takes for success.                                             *)
AddWait(w) == /\ IF notFull > 0
                 THEN Goto(w, "add", "addEnter") /\ notFull' = notFull - 1
                 ELSE Goto(w, "add", "setReady") /\ UNCHANGED notFull
              /\ UNCHANGED <<listVars, notEmpty, target, socket, alive, peers, asked>>

(* AddWorker's critical section.  At the maximum it returns -1 and keeps   *)
(* its permit; the receiver then updates the port of a node it does not    *)
(* have and goes on.                                                       *)
AddEnter(w) == /\ IF Len(list) >= MaxWorkers
                  THEN Goto(w, "addEnter", "setReady") /\ UNCHANGED listVars
                  ELSE Goto(w, "addEnter", "addSignal") /\ Link(w)
               /\ UNCHANGED <<notEmpty, notFull, target, socket, alive, peers, asked>>

AddSignal(w) == /\ Goto(w, "addSignal", "setReady")
                /\ notEmpty' = Released(notEmpty)
                /\ UNCHANGED <<listVars, notFull, target, socket, alive, peers, asked>>

\* SetWorkerReady; a worker that is not in the list is never announced.
SetReady(w) == /\ IF w \in Members
                  THEN /\ Goto(w, "setReady", "broadcast")
                       /\ ready' = ready \cup {w}
                  ELSE /\ Goto(w, "setReady", "serve")
                       /\ UNCHANGED ready
               /\ UNCHANGED <<list, current, passed, notEmpty, notFull, target, socket,
                              alive, peers, asked>>

\* Slip: the search for a source ends at the new node.
ExportSourcesBefore(w) == {v \in ready \ {w} :
                              /\ Position(v) < Position(w)
                              /\ \A u \in ready \ {w} : Position(v) <= Position(u)}

\* The first ready node other than w, in list order.
ExportSources(w) == {v \in ready \ {w} :
                        \A u \in ready \ {w} : Position(v) <= Position(u)}

(* BroadcastNewWorkerJoined: every other node is told of w, and the source *)
(* is told to export to it; an entry sent to a dead worker is lost.        *)
Broadcast(w) ==
    /\ Goto(w, "broadcast", "sendRegistry")
    /\ IF w \in Members
       THEN /\ peers' = [v \in Workers |->
                            IF v \in (Members \cap alive) \ {w} THEN peers[v] \cup {w}
                            ELSE peers[v]]
            /\ asked' = IF ExportSources(w) \cap alive # {} THEN asked \cup {w} ELSE asked
       ELSE UNCHANGED <<peers, asked>>
    /\ UNCHANGED <<listVars, notEmpty, notFull, target, socket, alive>>

\* Slip: the walk starts at head->next and stops at head.
SendRegistrySkipsHead(w) ==
    /\ Goto(w, "sendRegistry", "serve")
    /\ peers' = IF w \in Members \cap alive
                THEN [peers EXCEPT ![w] = @ \cup (Members \ {w, list[1]})]
                ELSE peers
    /\ UNCHANGED <<listVars, notEmpty, notFull, target, socket, alive, asked>>

\* SendWorkerRegistryToSingleWorker: w is told of every node.
SendRegistry(w) ==
    /\ Goto(w, "sendRegistry", "serve")
    /\ peers' = IF w \in Members \cap alive
                THEN [peers EXCEPT ![w] = @ \cup (Members \ {w})]
                ELSE peers
    /\ UNCHANGED <<listVars, notEmpty, notFull, target, socket, alive, asked>>

-----------------------------------------------------------------------------
(* RemoveWorker, called by the receiver of a lost worker and by the        *)
(* dispatcher when a send finds the connection lost.                       *)

Victim(t) == IF t = Dispatcher THEN target ELSE t
Return(t, from) == IF t = Dispatcher
                   THEN Goto(t, from, "choose") /\ target' = None
                   ELSE Goto(t, from, "close") /\ UNCHANGED target

\* Slip: a wait that timed out is taken for success.
RemoveWaitIgnored(t) == /\ Goto(t, "remove", "removeEnter")
                        /\ notEmpty' = notEmpty - 1
                        /\ UNCHANGED <<listVars, notFull, target, socket, alive, peers, asked>>

\* The wait; when it times out the call returns 0 with the node still there.
RemoveWait(t) == /\ \/ /\ notEmpty > 0
                       /\ Goto(t, "remove", "removeEnter")
                       /\ notEmpty' = notEmpty - 1
                       /\ UNCHANGED target
                    \/ /\ notEmpty = 0
                       /\ Return(t, "remove")
                       /\ UNCHANGED notEmpty
                 /\ UNCHANGED <<listVars, notFull, socket, alive, peers, asked>>

\* The critical section; the id may not be found.
RemoveEnter(t) == /\ Goto(t, "removeEnter", "removeSignal")
                  /\ IF Victim(t) \in Members THEN Unlink(Victim(t)) ELSE UNCHANGED listVars
                  /\ UNCHANGED <<notEmpty, notFull, target, socket, alive, peers, asked>>

\* Slip: RemoveWorker releases the semaphore it waited on.
RemoveSignalWrong(t) == /\ Return(t, "removeSignal")
                        /\ notEmpty' = Released(notEmpty)
                        /\ UNCHANGED <<listVars, notFull, socket, alive, peers, asked>>

\* notFull is released whether or not a node was removed.
RemoveSignal(t) == /\ Return(t, "removeSignal")
                   /\ notFull' = Released(notFull)
                   /\ UNCHANGED <<listVars, notEmpty, socket, alive, peers, asked>>

-----------------------------------------------------------------------------
(* The dispatcher.                                                         *)

\* Slip: current stays at the chosen node.
ChooseStays ==
    /\ ready # {}
    /\ Goto(Dispatcher, "choose", "send")
    /\ LET k == CHOOSE i \in 0 .. Len(list) - 1 :
                   /\ After(current, i) \in ready
                   /\ \A j \in 0 .. i - 1 : After(current, j) \notin ready
           w == After(current, k)
       IN  /\ target' = w
           /\ current' = w
           /\ passed' = [v \in Workers |-> IF v = w \/ v \notin ready THEN {}
                                           ELSE passed[v] \cup {w}]
    /\ UNCHANGED <<list, ready, notEmpty, notFull, socket, alive, peers, asked>>

\* GetNextWorker: the first ready node from current on; current moves past it.
Choose ==
    /\ ready # {}
    /\ Goto(Dispatcher, "choose", "send")
    /\ LET k == CHOOSE i \in 0 .. Len(list) - 1 :
                   /\ After(current, i) \in ready
                   /\ \A j \in 0 .. i - 1 : After(current, j) \notin ready
           w == After(current, k)
       IN  /\ target' = w
           /\ current' = After(w, 1)
           /\ passed' = [v \in Workers |-> IF v = w \/ v \notin ready THEN {}
                                           ELSE passed[v] \cup {w}]
    /\ UNCHANGED <<list, ready, notEmpty, notFull, socket, alive, peers, asked>>

\* GetNextWorker finds no ready worker: the dispatcher tries again at once.
ChooseNone == /\ pc[Dispatcher] = "choose"
              /\ ready = {}
              /\ UNCHANGED vars

(* SendStoreRequest / SendRetrieveRequest to the chosen worker.  Nothing   *)
(* keeps the node in the list meanwhile.  A closed socket gives -1; an     *)
(* open one whose peer is gone takes the bytes, or gives -1 (no answer) or *)
(* -2 (reset); only -2 (and -3) makes the dispatcher remove the worker.    *)
Send == /\ \/ /\ Goto(Dispatcher, "send", "choose")
              /\ target' = None
           \/ /\ Goto(Dispatcher, "send", "remove")
              /\ socket[target] = "open"
              /\ target \notin alive
              /\ UNCHANGED target
        /\ UNCHANGED <<listVars, notEmpty, notFull, socket, alive, peers, asked>>

-----------------------------------------------------------------------------
ReceiverStep(w) == \/ ReceiveReady(w) \/ AddWait(w) \/ AddEnter(w) \/ AddSignal(w)
                   \/ SetReady(w) \/ Broadcast(w) \/ SendRegistry(w)
                   \/ ReceiveFails(w) \/ CloseConnection(w)
RemoveStep(t) == RemoveWait(t) \/ RemoveEnter(t) \/ RemoveSignal(t)

Next == \/ \E w \in Workers : Connect(w) \/ Crash(w) \/ ReceiverStep(w)
        \/ \E t \in Threads : RemoveStep(t)
        \/ Choose \/ ChooseNone \/ Send

Spec == Init /\ [][Next]_vars

-----------------------------------------------------------------------------
(* Properties.                                                             *)

TypeOK == /\ list \in Seq(Workers)
          /\ ready \subseteq Workers
          /\ current \in Workers \cup {None}
          /\ notEmpty \in 0 .. MaxWorkers
          /\ notFull \in 0 .. MaxWorkers
          /\ pc \in [Threads -> PCs]
          /\ target \in Workers \cup {None}
          /\ socket \in [Workers -> {"none", "open", "closed"}]
          /\ alive \subseteq Workers
          /\ peers \in [Workers -> SUBSET Workers]
          /\ asked \subseteq Workers
          /\ passed \in [Workers -> SUBSET Workers]

(* The list stays a list of distinct workers within its capacity, and the  *)
(* round-robin pointer always points into it, whatever removals overlap.   *)
ListWellFormed == /\ Cardinality(Members) = Len(list)
                  /\ Len(list) <= MaxWorkers
                  /\ ready \subseteq Members
                  /\ IF list = << >> THEN current = None ELSE current \in Members

(* Round robin: while a ready worker waits for its turn no other worker is *)
(* chosen twice, whatever is added and removed in between.                 *)
RoundRobinFair ==
    [][pc[Dispatcher] = "choose" /\ pc'[Dispatcher] = "send"
         => \A v \in ready \ {target'} : target' \notin passed[v]]_vars

At(label) == {t \in Threads : pc[t] = label}

(* A notEmpty permit is always backed by a node: a thread that got past    *)
(* RemoveWorker's wait meets a non-empty list.                             *)
RemovalsBacked ==
    notEmpty + Cardinality(At("removeEnter")) + Cardinality(At("addSignal")) <= Len(list)

(* Any two live workers that have finished registering know each other, in *)
(* whatever order they added themselves, became ready and broadcast: each  *)
(* can replicate to the other (WorkerDataReceiverThread.c 47-66).          *)
RegisteredWorkersMeet ==
    \A v, w \in ready \cap alive :
        v # w /\ pc[v] = "serve" /\ pc[w] = "serve" => v \in peers[w] /\ w \in peers[v]

\* Listed workers whose receiver has had its RemoveWorker and is not helped by
\* the dispatcher's.
Stale == {w \in Members : pc[w] \in {"close", "done"} /\ target # w}

(* RemoveWorker gives up when it finds no permit, and the worker stays     *)
(* listed for ever.  That happens only to as many workers as permits were  *)
(* used up for nothing, by two removals of one worker (WorkerList.c 154).  *)
StaleNodesExplained ==
    Cardinality(Stale) + notEmpty + Cardinality(At("addSignal"))
        + Cardinality({Victim(t) : t \in At("removeEnter")} \cap Members) <= Len(list)

(* As long as no worker is lost, of the registered workers there is at     *)
(* most one to which nobody was asked to export, whatever the order in     *)
(* which they added themselves, became ready and broadcast (WorkerList.c   *)
(* 515-551): of two that start together one is always ready when the       *)
(* other one broadcasts.                                                   *)
NewcomersSeeded ==
    (\A u \in Workers : pc[u] # "none" => u \in alive)
        => \A v, w \in ready :
              v # w /\ pc[v] = "serve" /\ pc[w] = "serve" => v \in asked \/ w \in asked
=============================================================================
