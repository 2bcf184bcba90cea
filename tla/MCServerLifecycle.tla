------------------------- MODULE MCServerLifecycle -------------------------
(* The server with two connections and two signals. *)
EXTENDS ServerLifecycle
=============================================================================
