-------------------------- MODULE MCSftCheckpoint --------------------------
(***************************************************************************)
(* SftCheckpoint on small instances; the constants are in the cfg files.   *)
(***************************************************************************)
EXTENDS SftCheckpointInv
=============================================================================
