---------------------------- MODULE MCAgentSession ---------------------------
(* AgentSession with interchangeable callers.                               *)
EXTENDS AgentSession, TLC

CallerSymmetry == Permutations(Callers)
==============================================================================
