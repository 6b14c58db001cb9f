------------------------------ MODULE ToolBatch ------------------------------
(***************************************************************************)
(* The tool calls of a reply, one by one: executeToolCallsSequential,      *)
(* executeToolCallsParallel and failToolCallsFromTruncatedMessage of       *)
(* agent-loop.ts, with the part of the Agent they touch.  A run here is    *)
(* one batch; a new run starts when the one before has ended.              *)
(*                                                                         *)
(* With parallel execution a subscriber that throws on one call's          *)
(* tool_execution_end makes Promise.all reject and the run end while other *)
(* tools are still at work; what those do afterwards is part of the model. *)
(***************************************************************************)
EXTENDS AgentMessages, FiniteSets

CONSTANTS
  ToolExecution,  \* config.toolExecution, "sequential" or "parallel"
  MaxRuns,        \* bound: batches
  MaxCalls,       \* bound: calls in a batch
  MaxThrows       \* bound: events whose subscriber throws

ASSUME ModeAssumption == ToolExecution \in {"sequential", "parallel"}
ASSUME BoundAssumption == MaxRuns \in Nat /\ MaxCalls \in Nat /\ MaxThrows \in Nat

VARIABLES
  run,              \* how many runs were started
  active,           \* Agent.activeRun is defined
  aborted,          \* its abort signal
  size,             \* calls in the batch
  mustRunAlone,     \* the calls that name, to the letter, a tool that must run alone
  truncated,        \* the reply stopped at the output token limit
  pc,               \* where the batch is
  next,             \* the call at hand
  phase,            \* per call of the batch, how far it got
  terminate,        \* calls whose result asks the agent to stop
  results,          \* calls whose result message was emitted, in order
  pendingToolCalls, \* Agent._state.pendingToolCalls
  executing,        \* calls, of any run, whose tool.execute has not returned
  throws            \* how many times a subscriber threw

batch == <<run, active, aborted, size, mustRunAlone, truncated>>
vars == <<batch, pc, next, phase, terminate, results, pendingToolCalls, executing, throws>>

Calls == (1..MaxRuns) \X (1..MaxCalls)
PhaseNames == {"todo", "started", "prepared", "running", "ended"}
Places == {"idle", "next", "prepare", "cutOff", "check", "await", "results", "done", "failing"}

Init ==
  /\ run = 0 /\ active = FALSE /\ aborted = FALSE /\ size = 0
  /\ mustRunAlone = {} /\ truncated = FALSE
  /\ pc = "idle" /\ next = 0 /\ phase = <<>> /\ terminate = {} /\ results = <<>>
  /\ pendingToolCalls = {} /\ executing = {} /\ throws = 0

StartRun ==
  /\ pc = "idle" /\ run < MaxRuns
  /\ run' = run + 1
  /\ active' = TRUE /\ aborted' = FALSE
  /\ size' \in 1..MaxCalls /\ mustRunAlone' \in SUBSET (1..size') /\ truncated' \in BOOLEAN
  /\ pc' = "next" /\ next' = 1
  /\ phase' = [i \in 1..size' |-> "todo"]
  /\ terminate' = {} /\ results' = <<>>
  /\ UNCHANGED <<pendingToolCalls, executing, throws>>

Abort ==
  /\ active /\ ~aborted
  /\ aborted' = TRUE
  /\ UNCHANGED <<run, active, size, mustRunAlone, truncated, pc, next, phase, terminate, results,
                 pendingToolCalls, executing, throws>>

(* A subscriber throws on the event a step emits.                           *)
Throw ==
  /\ throws < MaxThrows
  /\ throws' = throws + 1
  /\ pc' = "failing"

(* Mutant: a tool that must run alone does not make its batch sequential.   *)
SequentialByMode == ToolExecution = "sequential"

(* executeToolCalls looks a tool up by its exact name; a call under an      *)
(* alias, or in other letters, does not make its batch sequential.          *)
Sequential == ToolExecution = "sequential" \/ mustRunAlone /= {}

(* Calls are answered one after the other.                                  *)
OneByOne == truncated \/ Sequential

(* runLoop never executes the calls of a cut-off reply: their arguments may *)
(* be incomplete.                                                           *)
AfterStart == IF truncated THEN "cutOff" ELSE "prepare"

(* Mutant: a call that ended stays pending.                                 *)
EndedStaysPending(c) == pendingToolCalls

(* What tool_execution_end leaves pending.                                  *)
Ended(c) == pendingToolCalls \ {c}

(* tool_execution_start of the call at hand.                                *)
StartCall ==
  /\ pc = "next"
  /\ phase' = [phase EXCEPT ![next] = "started"]
  /\ pendingToolCalls' = pendingToolCalls \union {<<run, next>>}
  /\ \/ pc' = AfterStart /\ UNCHANGED throws
     \/ Throw
  /\ UNCHANGED <<batch, next, terminate, results, executing>>

(* The call at hand never reaches its tool: it is unknown, its arguments    *)
(* are wrong, a hook blocks it, the run is aborted, or the reply was cut    *)
(* off.  Its tool_execution_end is emitted at once.                         *)
FailCall ==
  /\ pc \in {"prepare", "cutOff"}
  /\ phase' = [phase EXCEPT ![next] = "ended"]
  /\ pendingToolCalls' = Ended(<<run, next>>)
  /\ \/ pc' = (IF OneByOne THEN "results" ELSE "check") /\ UNCHANGED throws
     \/ Throw
  /\ UNCHANGED <<batch, next, terminate, results, executing>>

(* prepareToolCall lets a call through unless the run is aborted.           *)
PrepareCall ==
  /\ pc = "prepare" /\ ~aborted
  /\ phase' = [phase EXCEPT ![next] = "prepared"]
  /\ pc' = "check"
  /\ UNCHANGED <<batch, next, terminate, results, pendingToolCalls, executing, throws>>

NextParallel ==
  /\ pc = "check" /\ ~OneByOne /\ next < size /\ ~aborted
  /\ next' = next + 1 /\ pc' = "next"
  /\ UNCHANGED <<batch, phase, terminate, results, pendingToolCalls, executing, throws>>

(* Mutant: an abort keeps a prepared batch from being launched.             *)
LaunchNowUnlessAborted == OneByOne \/ next = size

(* Sequential execution starts its tool at once; parallel execution starts  *)
(* every prepared tool after the last call, or when an abort cuts the       *)
(* preparation short.                                                       *)
LaunchNow == OneByOne \/ next = size \/ aborted

Launch ==
  /\ pc = "check" /\ LaunchNow
  /\ phase' = [i \in 1..size |-> IF phase[i] = "prepared" THEN "running" ELSE phase[i]]
  /\ executing' = executing
       \union {<<run, i>> : i \in {j \in 1..size : phase[j] = "prepared"}}
  /\ pc' = "await"
  /\ UNCHANGED <<batch, next, terminate, results, pendingToolCalls, throws>>

(* A tool returns or throws, afterToolCall settles, and tool_execution_end  *)
(* is emitted.  The result may ask the agent to stop.                       *)
FinishCall(i) ==
  /\ pc = "await" /\ phase[i] = "running"
  /\ executing' = executing \ {<<run, i>>}
  /\ pendingToolCalls' = Ended(<<run, i>>)
  /\ phase' = [phase EXCEPT ![i] = "ended"]
  /\ terminate' \in {terminate, terminate \union {i}}
  /\ \/ UNCHANGED <<pc, throws>>
     \/ Throw
  /\ UNCHANGED <<batch, next, results>>

(* A tool of a run that is over returns.  processEvents updates the state   *)
(* of whatever run is active and tells its subscribers; its error reaches   *)
(* nobody.                                                                  *)
FinishStraggler(c) ==
  /\ c \in executing
  /\ c[1] < run \/ pc \notin {"await"}
  /\ executing' = executing \ {c}
  /\ pendingToolCalls' = Ended(c)
  /\ UNCHANGED <<batch, pc, next, phase, terminate, results, throws>>

(* Every launched tool has returned: Promise.all, or the one tool.          *)
CollectResults ==
  /\ pc = "await"
  /\ \A i \in 1..size : phase[i] /= "running"
  /\ pc' = "results"
  /\ UNCHANGED <<batch, next, phase, terminate, results, pendingToolCalls, executing, throws>>

(* Results are emitted in call order.                                       *)
NextResult(i) == phase[i] = "ended" /\ i = Len(results) + 1

Answered(i) == \E k \in DOMAIN results : results[k] = i

(* Mutant: an abort leaves the rest of a cut-off reply without results.     *)
LastResultOnAbort == next = size \/ aborted

(* Sequential execution stops after a call when the run is aborted.         *)
LastResult == next = size \/ (aborted /\ ~truncated)

EmitResult(i) ==
  /\ pc = "results"
  /\ i \in 1..size /\ ~Answered(i) /\ NextResult(i)
  /\ results' = Append(results, i)
  /\ \/ /\ UNCHANGED throws
        /\ IF OneByOne
           THEN IF LastResult
                THEN pc' = "done" /\ UNCHANGED next
                ELSE pc' = "next" /\ next' = next + 1
           ELSE /\ pc' = IF \A j \in 1..size : phase[j] = "ended" => Answered(j)' THEN "done"
                         ELSE "results"
                /\ UNCHANGED next
     \/ Throw /\ UNCHANGED next
  /\ UNCHANGED <<batch, phase, terminate, pendingToolCalls, executing>>

(* The run ends, by itself or in handleRunFailure; finishRun.               *)
EndRun ==
  /\ pc \in {"done", "failing"}
  /\ active' = FALSE /\ aborted' = FALSE /\ pc' = "idle"
  /\ size' = 0 /\ mustRunAlone' = {} /\ truncated' = FALSE /\ next' = 0 /\ phase' = <<>>
  /\ terminate' = {} /\ results' = <<>>
  /\ pendingToolCalls' = {}
  /\ UNCHANGED <<run, executing, throws>>

Batch ==
  \/ StartCall \/ FailCall \/ PrepareCall \/ NextParallel \/ Launch
  \/ (\E i \in 1..MaxCalls : i <= size /\ FinishCall(i))
  \/ CollectResults
  \/ (\E i \in 1..MaxCalls : EmitResult(i))
  \/ EndRun

Next ==
  \/ StartRun \/ Abort \/ Batch
  \/ (\E c \in executing : FinishStraggler(c))

Spec == Init /\ [][Next]_vars

(* Tools return and subscribers settle, so that the batch moves on.         *)
FairSpec == Spec /\ WF_vars(Batch) /\ WF_vars(\E c \in executing : FinishStraggler(c))

-----------------------------------------------------------------------------

(* The types of the variables.                                              *)
TypeOK ==
  /\ run \in 0..MaxRuns /\ active \in BOOLEAN /\ aborted \in BOOLEAN
  /\ size \in 0..MaxCalls /\ mustRunAlone \subseteq 1..size /\ truncated \in BOOLEAN
  /\ pc \in Places /\ next \in 0..MaxCalls
  /\ DOMAIN phase = 1..size /\ \A i \in 1..size : phase[i] \in PhaseNames
  /\ terminate \subseteq 1..size
  /\ pendingToolCalls \subseteq Calls /\ executing \subseteq Calls
  /\ throws \in 0..MaxThrows

(* pendingToolCalls is what the user interface shows as running: the calls  *)
(* of the live run that started and did not end, whatever tools of earlier  *)
(* runs do.                                                                 *)
PendingIsExact ==
  pc /= "failing" =>
    pendingToolCalls = {<<run, i>> : i \in {j \in 1..size : phase[j] \notin {"todo", "ended"}}}

(* A batch that no subscriber failed hands runLoop what AgentRun assumes of *)
(* it, whenever an abort came: the results of the first calls in call       *)
(* order, of all of them unless the run was aborted, and no wish to stop    *)
(* from a cut-off reply (agent-loop.ts: executeToolCalls,                   *)
(* failToolCallsFromTruncatedMessage).                                      *)
OutcomeIsAllowed ==
  pc = "done" =>
    /\ results = [k \in 1..Len(results) |-> k]
    /\ [answered |-> Len(results),
        terminate |-> \A i \in 1..size : phase[i] = "ended" => i \in terminate]
         \in BatchOutcomes(size, truncated, aborted)

(* A call that names a tool that must run alone makes its whole batch       *)
(* sequential: no call starts before those in front of it have their        *)
(* results, whatever is aborted or throws (agent-loop.ts: executeToolCalls).*)
SequentialIsSequential ==
  mustRunAlone /= {} =>
    \A i \in 1..size : phase[i] /= "todo" => \A j \in 1..i - 1 : Answered(j)

(* Every batch comes to an end.                                             *)
BatchEnds == active ~> ~active

(* agent.ts, waitForIdle: "Resolve when the current run and all awaited     *)
(* event listeners have finished."                                          *)
NoToolOutlivesItsRun == ~active => executing = {}
==============================================================================
