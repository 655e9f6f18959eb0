--------------------------- MODULE MCBridgeSession ---------------------------
(* Two clients with three commands in all, so that either of them may send  *)
(* a second one; one of them is rude, the other also aborts when it is idle. *)
EXTENDS BridgeSession

CONSTANTS a, b
=============================================================================
