-------------------------- MODULE MCRasterTransfer --------------------------
(* RasterTransfer on small pages: one to three bands, with a full and a     *)
(* short last band, and chunks that cut headers, rows and the feed.         *)
EXTENDS RasterTransfer

MCHeights == {1, 2, 3, 5}
MCChunkSizes == {6, 7, 9, 20}
=============================================================================
