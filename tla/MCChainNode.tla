---------------------------- MODULE MCChainNode -----------------------------
(* Instances of ChainNode for TLC. *)
EXTENDS ChainNode
=============================================================================
