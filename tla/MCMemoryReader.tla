--------------------------- MODULE MCMemoryReader ---------------------------
(***************************************************************************)
(* Small instances of MemoryReader.                                        *)
(***************************************************************************)
EXTENDS MemoryReader, ReaderJobs
=============================================================================
