--------------------------- MODULE MCDataChannel ---------------------------
(* The instance of the data channel: three commands, two select objects.   *)
EXTENDS DataChannel
=============================================================================
