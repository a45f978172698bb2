------------------------------ MODULE MCFraming ------------------------------
(* A thread that sends a message longer than the connection holds and one  *)
(* without a payload, and a thread that sends one in between.  What is in  *)
(* the payloads is evaluated first: every message with texts of up to two  *)
(* characters, error texts that are cut, and numbers of one to four bytes. *)
EXTENDS Framing, WireFormat

CONSTANTS w1, w2, m1, m2, m3

MCWriters == {w1, w2}
MCMessages == {m1, m2, m3}
MCWriterOf == [m \in MCMessages |-> IF m = m3 THEN w2 ELSE w1]
MCPayloadSize == [m \in MCMessages |-> CASE m = m1 -> 2 [] m = m2 -> 0 [] m = m3 -> 1]

MCStale == {<< >>, <<0>>, <<255, 255>>}

ASSUME PayloadsReadBack /\ CutPayloadsRefused
=============================================================================
