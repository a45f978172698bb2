------------------------- MODULE MCReplicationUnheard -------------------------
(* One put among three workers, none of which ends.  Narrowed to the       *)
(* behaviours in which a worker joins, and the put comes, when everything  *)
(* the load balancer sent before has been read: what fails there fails in  *)
(* general.                                                                *)
EXTENDS Replication

CONSTANT k1

MCKeys == {k1}
MCBucketOf == [k \in MCKeys |-> 1]

Settled == /\ \A w \in Workers : inbox[w] = << >> /\ stage[w] # "joined"
Narrowed == \/ list' = list /\ at' = at
            \/ Settled
PutLast == at' # at => Len(list) = Cardinality(Workers)
=============================================================================
