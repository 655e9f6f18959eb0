---------------------------- MODULE BridgeService ----------------------------
(***************************************************************************)
(* What the bridge promises its clients: the printer belongs to one client *)
(* at a time, that client's commands run one after the other, and nobody   *)
(* else gets the printer while a command of the last client still runs.    *)
(* Session.run and Session._loop (bridge/session.py) implement it, see     *)
(* BridgeSession.                                                          *)
(***************************************************************************)
CONSTANT Clients

VARIABLES
  holders, \* the client that is served, if any
  running  \* the client whose command runs, if any

Init == holders = {} /\ running = {}

Enter(c) == holders = {} /\ holders' = {c} /\ UNCHANGED running
Begin(c) == holders = {c} /\ running = {} /\ running' = {c} /\ UNCHANGED holders
End(c) == running = {c} /\ running' = {} /\ UNCHANGED holders
Leave(c) == holders = {c} /\ running = {} /\ holders' = {} /\ UNCHANGED running

Next == \E c \in Clients : Enter(c) \/ Begin(c) \/ End(c) \/ Leave(c)

Spec == Init /\ [][Next]_<<holders, running>>
=============================================================================
