---------------------------- MODULE AgentMessages ----------------------------
(***************************************************************************)
(* The messages of packages/agent and the queue they wait in.  A message   *)
(* is what the agent loop tells apart: who it is from, which one it is,    *)
(* and, for an assistant message, how it stopped and how many tool calls   *)
(* it carries.  Its text is left out.                                      *)
(***************************************************************************)
EXTENDS Naturals, Sequences

Kinds == {"prompt", "steer", "followUp"}

(* The user message with the given number, and how it entered the agent.   *)
User(k, i) == [role |-> "user", kind |-> k, id |-> i]

(* What runLoop injects when a reply without tool calls hit the output      *)
(* token limit and nothing is queued.                                       *)
ContinueMessage == User("continue", 0)

(* The reply of turn t.  "stop" stands for the stop reasons "stop" and      *)
(* "toolUse", which the loop does not tell apart.                           *)
StopReasons == {"stop", "length", "error", "aborted"}
Assistant(t, stop, n) ==
  [role |-> "assistant", turn |-> t, stop |-> stop, calls |-> n]

(* The result of the i-th tool call of the reply of turn t.                 *)
ToolResult(t, i) == [role |-> "toolResult", turn |-> t, call |-> i]

(* The assistant message handleRunFailure makes up when a run throws.       *)
FailureMessage == Assistant(0, "error", 0)

QueueModes == {"all", "one-at-a-time"}

(* Mutant of drain: the newest message first.                               *)
DrainedNewest(mode, q) ==
  IF mode = "all" \/ q = <<>> THEN q ELSE <<q[Len(q)]>>

(* PendingMessageQueue.drain: everything, or the first message only.        *)
Drained(mode, q) ==
  IF mode = "all" \/ q = <<>> THEN q ELSE <<Head(q)>>
Remaining(mode, q) ==
  IF mode = "all" \/ q = <<>> THEN <<>> ELSE Tail(q)

(* Mutant: the first failing call ends the batch.                           *)
BatchOutcomesStopEarly(n, truncated, aborted) ==
  {o \in [answered : 1..n, terminate : BOOLEAN] : o.terminate => ~truncated}

(* What executeToolCalls may hand back for n calls: results for the first   *)
(* r calls in call order, all of them unless the run was aborted, and       *)
(* whether every one of them asked the agent to stop.  A batch that was     *)
(* cut off at the output token limit answers every call and never stops.    *)
BatchOutcomes(n, truncated, aborted) ==
  {o \in [answered : 1..n, terminate : BOOLEAN] :
     /\ o.answered < n => aborted /\ ~truncated
     /\ o.terminate => ~truncated}
==============================================================================
