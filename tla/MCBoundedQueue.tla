--------------------------- MODULE MCBoundedQueue ---------------------------
(* Two client receivers and two takers share a ring of two slots.  No      *)
(* symmetry: the run checks a liveness property.                           *)
EXTENDS BoundedQueue
=============================================================================
