--------------------------- MODULE MCPagePipeline ---------------------------
(* A page of three pieces; the sheet leaves the sensor one piece before it  *)
(* leaves the head, a short sheet is one piece too short.                   *)
EXTENDS PagePipeline
=============================================================================
