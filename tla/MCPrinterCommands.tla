-------------------------- MODULE MCPrinterCommands --------------------------
(* Two auto-off settings, sheets of one or two feeds, at most three feeds;   *)
(* one of the three queries of info whose answers decide nothing.            *)
EXTENDS PrinterCommands

MCDetails == <<"battery">>
=============================================================================
