------------------------- MODULE MCResponseDelivery -------------------------
(* Three clients share two slots; the response queue holds two responses.  *)
EXTENDS ResponseDelivery
=============================================================================
