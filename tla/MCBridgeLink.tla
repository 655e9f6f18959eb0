---------------------------- MODULE MCBridgeLink ----------------------------
(* Five client objects: the current one, one each that the command and the   *)
(* timer disconnect, one the connection is kept for, and a new one.          *)
EXTENDS BridgeLink

CONSTANTS c1, c2, c3, c4, c5
=============================================================================
