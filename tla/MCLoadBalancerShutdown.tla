----------------------- MODULE MCLoadBalancerShutdown -----------------------
(* The four threads main starts besides the input handler.                 *)
EXTENDS LoadBalancerShutdown

CONSTANTS clientListener, workerListener, requestDispatcher, responseDispatcher

MCListeners == {clientListener, workerListener}
MCPollers == MCListeners \cup {requestDispatcher, responseDispatcher}
=============================================================================
