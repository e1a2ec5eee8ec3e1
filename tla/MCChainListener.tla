---------------------------- MODULE MCChainListener ---------------------------
(* Small instances of ChainListener for TLC. *)
EXTENDS ChainListenerInv
===============================================================================
