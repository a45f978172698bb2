--------------------------- MODULE MCClientSession ---------------------------
(* A client that sends two PUTs and two GETs, and reads at most one answer *)
(* that is another client's.                                               *)
EXTENDS ClientSession
=============================================================================
