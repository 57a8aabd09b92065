----------------------------- MODULE MCAgentLoop ------------------------------
(***************************************************************************)
(* Model-checking instances of AgentLoop: which Ctrl+C and which failing   *)
(* writes a run of TLC allows.                                             *)
(***************************************************************************)
EXTENDS AgentLoop

\* Ctrl+C and failing writes everywhere but where the batch is unguarded.
GuardedInterrupts == Points \ UnguardedInterrupts
GuardedWrites == Points \ UnguardedWrites

\* The commits that leave no call open when only their durable half happens.
GuardedSplits == {"user", "system", "precompact", "hook", "cost"}
===============================================================================
