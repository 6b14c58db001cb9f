---------------------------- MODULE MCAgentHarness ----------------------------
(* AgentHarness on small instances.                                          *)
EXTENDS AgentHarness

(* Of the inputs and failures the bounds allow, a behaviour leaves out one.  *)
(* No call depends on either: each step of a run that may use one has an     *)
(* outcome that uses none, so that what is left out is never the only way on.*)
InBudget == inputs + faults > 0
===============================================================================
