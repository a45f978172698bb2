---------------------------- MODULE MCRequestPath ----------------------------
(* Two requests, asked again and again, and three workers: a worker that   *)
(* is dead but listed can stand beside one that lives.  The request queue  *)
(* holds both requests, so that one can be returned behind the other; the  *)
(* response queue holds one, so that it can be full.  No symmetry,         *)
(* for the run checks a liveness property; the workers join in a fixed     *)
(* order, which loses nothing, for they are alike before they do.          *)
EXTENDS RequestPath

Order == SetToSeq(Workers)
JoinInOrder == \A i \in 2 .. Len(Order) :
                   conn[Order[i]] = "none" /\ conn'[Order[i]] # "none" => conn[Order[i - 1]] # "none"
=============================================================================
