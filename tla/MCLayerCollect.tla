--------------------------- MODULE MCLayerCollect ---------------------------
(***************************************************************************)
(* Small instances of LayerCollect.                                        *)
(***************************************************************************)
EXTENDS LayerCollect, ReaderJobs
=============================================================================
