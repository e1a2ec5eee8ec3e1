----------------------------- MODULE MCOrchestrator ----------------------------
(* Small instances of Orchestrator for TLC. *)
EXTENDS Orchestrator, TLC

CONSTANTS piped, streamed, onchain

\* A job piped through two containers, one streamed, one of the chain processor.
Lengths == piped :> 2 @@ streamed :> 1 @@ onchain :> 1

OneOnchain == onchain :> 1
===============================================================================
