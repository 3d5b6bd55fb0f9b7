---------------------------- MODULE MCVllmBridge ----------------------------
(***************************************************************************)
(* VllmBridge with the main thread and one more sharing the bridge.        *)
(***************************************************************************)
EXTENDS VllmBridgeInv

CONSTANTS m1, t2

MCThreads == {m1, t2}
=============================================================================
