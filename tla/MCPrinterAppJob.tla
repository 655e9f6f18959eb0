--------------------------- MODULE MCPrinterAppJob ---------------------------
(* Two pages, in one job or two; a page is one full message of rows and a    *)
(* rest, so that a cancel may find the bridge with part of a page.           *)
EXTENDS PrinterAppJob
=============================================================================
