---------------------------- MODULE MCDecodePool ----------------------------
(***************************************************************************)
(* Small instances of DecodePool: every file of up to MaxBlobs blobs, every *)
(* size of their decoded blocks and every worker count up to MaxWorkers.    *)
(***************************************************************************)
EXTENDS DecodePool
=============================================================================
