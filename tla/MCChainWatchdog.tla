-------------------------- MODULE MCChainWatchdog --------------------------
(* Instances of ChainWatchdog for TLC. *)
EXTENDS ChainWatchdog
=============================================================================
