----------------------------- MODULE MCTargeting -----------------------------
(* Two printers whose names match two models each: a plain one and a variant  *)
(* known by its serial.  Both printers are variants; A's needs a connection    *)
(* of its own, B's does not.                                                   *)
EXTENDS Targeting

CONSTANTS A, B

MCMatching == [p \in Printers |-> IF p = A THEN {1, 2} ELSE {3, 4}]
MCInSerial == [p \in Printers |-> IF p = A THEN {2} ELSE {4}]

Req(a, m) == [address |-> a, model |-> m]

\* The printer application names address and model, the command line neither.
MCRequests == {Nothing, Req(A, 1), Req(A, 2), Req(B, 3), Req(Any, 3)}

\* The command line names an address.
MCByAddress == {Nothing, Req(A, Any)}
=============================================================================
