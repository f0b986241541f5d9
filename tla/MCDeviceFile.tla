---------------------------- MODULE MCDeviceFile ----------------------------
(* Two callers, two ids, one node: every pair of operations in every        *)
(* interleaving, with two rows that can collide on the node.                *)
EXTENDS DeviceFile
=============================================================================
