---------------------------- MODULE MCReplication ----------------------------
(* Two keys in two buckets, connections that take one message.             *)
(*                                                                         *)
(* PromptFirst and HalfFirst narrow to the behaviours in which a step that *)
(* only its own thread notices is taken at once: accepting a connection,   *)
(* reading the mark of an export, leaving the broadcast's loop, passing    *)
(* over an entry of the load balancer; and what follows the header of a    *)
(* message that is not mixed with another.  Such a step undoes and         *)
(* prevents no other and is prevented by the end of its worker only, so    *)
(* that what fails at all fails in one of these behaviours.                *)
(*                                                                         *)
(* MisreadLate is a bound: mixed bytes are read as an entry only after     *)
(* their writer has ended.  Until then they break the connection or are    *)
(* passed over.                                                            *)
EXTENDS Replication, TLC

CONSTANTS k1, k2

MCKeys == {k1, k2}
MCBucketOf == [k \in MCKeys |-> IF k = k1 THEN 1 ELSE 2]

Prompt(w) == \/ Accept(w) \/ ReceiveMark(w) \/ EndBroadcast(w)
             \/ AddPeer(w) /\ UNCHANGED <<peers, exports>>

\* When Prompt(w) can be taken.
Pending(w) == \/ serving[w] = None /\ backlog[w] # << >>
              \/ Ready(w) /\ Head(chan[serving[w]][w]).put = None
              \/ receiver[w].casting /\ receiver[w].next > Len(peers[w])
              \/ /\ w \in alive /\ ~receiver[w].casting /\ receiver[w].lost = << >>
                 /\ inbox[w] # << >>
                 /\ Head(inbox[w]) \in {Entry(x, FALSE) : x \in ToSet(peers[w]) \cup {w}}

PromptFirst == (\E w \in Workers : Pending(w)) =>
                  alive' # alive \/ \E w \in Workers : Prompt(w)

HalfFirst == (\E w, v \in Workers : HalfSent(w, v) /\ <<w, v>> \notin mixed) =>
                \/ alive' # alive \/ mixed' # mixed
                \/ \E w \in Workers : /\ sending[w] # {}
                                      /\ Notify(w) \/ SendStart(w) \/ SendEntry(w)

MisreadLate == \A v \in Workers : Misread(v) /\ serving' = serving => serving[v] \notin alive

Symmetry == Permutations(Workers) \cup Permutations(Puts)
=============================================================================
