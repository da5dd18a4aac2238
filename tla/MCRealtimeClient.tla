--------------------------- MODULE MCRealtimeClient ---------------------------
(* One id of the broker is enough for a message to be sent again. *)
EXTENDS RealtimeClient

MCBrokerIds == {1}
===============================================================================
