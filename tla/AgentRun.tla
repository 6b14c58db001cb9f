------------------------------- MODULE AgentRun -------------------------------
(***************************************************************************)
(* One Agent of packages/agent: the transcript, the steering and follow-up *)
(* queues, and the loop of a run (agent-loop.ts, runLoop).  A step is what *)
(* the code does between two awaits at which something else may run: a     *)
(* caller of steer, followUp, abort, reset, ...; a subscriber.             *)
(*                                                                         *)
(* The tools of one reply run in one step here, with the outcomes          *)
(* BatchOutcomes allows; module ToolBatch models them call by call.        *)
(***************************************************************************)
EXTENDS AgentMessages

CONSTANTS
  SteeringMode,   \* Agent.steeringMode
  FollowUpMode,   \* Agent.followUpMode
  MaxMessages,    \* bound: user messages ever submitted
  MaxTurns,       \* bound: replies of the model that may ask for more
  MaxCalls,       \* bound: tool calls in one reply
  MaxThrows,      \* bound: events whose subscriber throws
  MaxClears       \* bound: calls of reset and of the two clears

ASSUME ModeAssumption == SteeringMode \in QueueModes /\ FollowUpMode \in QueueModes
ASSUME BoundAssumption ==
  /\ MaxMessages \in Nat /\ MaxTurns \in Nat /\ MaxCalls \in Nat
  /\ MaxThrows \in Nat /\ MaxClears \in Nat

VARIABLES
  messages,       \* Agent._state.messages, the transcript
  isStreaming,    \* Agent._state.isStreaming
  streaming,      \* Agent._state.streamingMessage is defined
  steeringQueue,  \* Agent.steeringQueue
  followUpQueue,  \* Agent.followUpQueue
  active,         \* Agent.activeRun is defined
  aborted,        \* activeRun.abortController.signal.aborted
  pc,             \* where the run is
  pending,        \* messages taken from a caller or a queue, not yet emitted
  skipPoll,       \* createLoopConfig's skipInitialSteeringPoll
  context,        \* currentContext.messages of the loop
  newMessages,    \* newMessages of the loop
  hasMore,        \* hasMoreToolCalls of the loop
  submitted,      \* how many user messages were submitted
  turn,           \* how many replies the model gave
  throws,         \* how many times a subscriber threw
  clears,         \* how many times a queue was cleared
  discarded,      \* history: user messages dropped by a clear, a reset or a failed run
  before,         \* history: the transcript when the run started
  detached,       \* history: reset() emptied the transcript under the run
  unpolled,       \* history: messages queued after the last poll of their queue
  ended,          \* history: agent_end was emitted for this run
  unanswered,     \* history: replies whose batch an abort or a subscriber cut short
  torn            \* history: reset() emptied the transcript under a run, and not since

state == <<messages, isStreaming, streaming>>
queues == <<steeringQueue, followUpQueue>>
lifecycle == <<active, aborted>>
loop == <<pending, skipPoll, context, newMessages, hasMore>>
bounds == <<submitted, turn, throws, clears>>
excuses == <<unanswered, torn>>
history == <<discarded, before, detached, unpolled, ended, excuses>>
vars == <<state, queues, lifecycle, pc, loop, bounds, history>>

Phases == {"idle", "prompts", "pollInitial", "inject", "stream", "tools",
           "fatal", "turnEnd", "pollSteering", "pollLength", "pollFollowUp",
           "agentEnd", "failing"}

LastOf(s) == s[Len(s)]
Elements(s) == {s[i] : i \in DOMAIN s}

Init ==
  /\ messages = <<>> /\ isStreaming = FALSE /\ streaming = FALSE
  /\ steeringQueue = <<>> /\ followUpQueue = <<>>
  /\ active = FALSE /\ aborted = FALSE
  /\ pc = "idle"
  /\ pending = <<>> /\ skipPoll = FALSE /\ context = <<>>
  /\ newMessages = <<>> /\ hasMore = FALSE
  /\ submitted = 0 /\ turn = 0 /\ throws = 0 /\ clears = 0
  /\ discarded = {} /\ before = <<>> /\ detached = FALSE /\ unpolled = {}
  /\ ended = FALSE /\ unanswered = {} /\ torn = FALSE

-----------------------------------------------------------------------------
(* Callers.  Each of these may run between any two steps of the loop.       *)

Steer ==
  /\ submitted < MaxMessages
  /\ submitted' = submitted + 1
  /\ LET m == User("steer", submitted') IN
       /\ steeringQueue' = Append(steeringQueue, m)
       /\ unpolled' = unpolled \union {m}
  /\ UNCHANGED <<state, followUpQueue, lifecycle, pc, loop, turn, throws, clears,
                 discarded, before, detached, ended, excuses>>

(* Mutant: a follow-up lands in the steering queue.                         *)
FollowUpAsSteering ==
  /\ submitted < MaxMessages
  /\ submitted' = submitted + 1
  /\ steeringQueue' = Append(steeringQueue, User("followUp", submitted'))
  /\ UNCHANGED <<state, followUpQueue, lifecycle, pc, loop, turn, throws, clears, history>>

FollowUp ==
  /\ submitted < MaxMessages
  /\ submitted' = submitted + 1
  /\ LET m == User("followUp", submitted') IN
       /\ followUpQueue' = Append(followUpQueue, m)
       /\ unpolled' = unpolled \union {m}
  /\ UNCHANGED <<state, steeringQueue, lifecycle, pc, loop, turn, throws, clears,
                 discarded, before, detached, ended, excuses>>

ClearSteeringQueue ==
  /\ clears < MaxClears /\ clears' = clears + 1
  /\ steeringQueue' = <<>>
  /\ discarded' = discarded \union Elements(steeringQueue)
  /\ UNCHANGED <<state, followUpQueue, lifecycle, pc, loop, submitted, turn, throws, before, detached,
                 unpolled, ended, excuses>>

ClearFollowUpQueue ==
  /\ clears < MaxClears /\ clears' = clears + 1
  /\ followUpQueue' = <<>>
  /\ discarded' = discarded \union Elements(followUpQueue)
  /\ UNCHANGED <<state, steeringQueue, lifecycle, pc, loop, submitted, turn, throws, before, detached,
                 unpolled, ended, excuses>>

Abort ==
  /\ active /\ ~aborted
  /\ aborted' = TRUE
  /\ UNCHANGED <<state, queues, active, pc, loop, bounds, history>>

(* reset() checks nothing: a run in progress goes on with its own context.  *)
Reset ==
  /\ clears < MaxClears
  /\ clears' = clears + 1
  /\ messages' = <<>> /\ isStreaming' = FALSE /\ streaming' = FALSE
  /\ steeringQueue' = <<>> /\ followUpQueue' = <<>>
  /\ discarded' = discarded \union Elements(steeringQueue)
                   \union Elements(followUpQueue)
                   \union {m \in Elements(messages) : m.role = "user" /\ m.kind \in Kinds}
  /\ detached' = active /\ torn' = active
  /\ UNCHANGED <<lifecycle, pc, loop, submitted, turn, throws, before, unpolled, ended,
                 unanswered>>

-----------------------------------------------------------------------------
(* Starting a run: runWithLifecycle and the head of runAgentLoop.           *)

(* Mutant: the prompts are shown to the subscribers but not to the model.   *)
RunContextWithoutPrompts(prompts) == messages

(* The snapshot of the transcript with the prompts at its end.              *)
RunContext(prompts) == messages \o prompts

BeginRun(prompts, skip) ==
  /\ ~active
  /\ active' = TRUE /\ aborted' = FALSE
  /\ isStreaming' = TRUE /\ streaming' = FALSE
  /\ pc' = IF prompts = <<>> THEN "pollInitial" ELSE "prompts"
  /\ pending' = prompts /\ skipPoll' = skip
  /\ context' = RunContext(prompts)
  /\ newMessages' = prompts
  /\ hasMore' = TRUE
  /\ before' = messages /\ detached' = FALSE /\ ended' = FALSE
  /\ UNCHANGED <<messages, turn, throws, clears, discarded, excuses>>

Prompt ==
  /\ submitted < MaxMessages
  /\ submitted' = submitted + 1
  /\ BeginRun(<<User("prompt", submitted')>>, FALSE)
  /\ UNCHANGED <<queues, unpolled>>

EndsWithAssistant == messages /= <<>> /\ LastOf(messages).role = "assistant"

ContinueTranscript ==
  /\ messages /= <<>> /\ ~EndsWithAssistant
  /\ BeginRun(<<>>, FALSE)
  /\ UNCHANGED <<queues, submitted, unpolled>>

ContinueWithSteering ==
  /\ EndsWithAssistant
  /\ steeringQueue /= <<>>
  /\ BeginRun(Drained(SteeringMode, steeringQueue), TRUE)
  /\ steeringQueue' = Remaining(SteeringMode, steeringQueue)
  /\ unpolled' = unpolled \ Elements(steeringQueue)
  /\ UNCHANGED <<followUpQueue, submitted>>

ContinueWithFollowUp ==
  /\ EndsWithAssistant
  /\ steeringQueue = <<>> /\ followUpQueue /= <<>>
  /\ BeginRun(Drained(FollowUpMode, followUpQueue), FALSE)
  /\ followUpQueue' = Remaining(FollowUpMode, followUpQueue)
  /\ unpolled' = unpolled \ Elements(followUpQueue)
  /\ UNCHANGED <<steeringQueue, submitted>>

-----------------------------------------------------------------------------
(* The loop.  processEvents reduces an event into the state and then awaits *)
(* the subscribers; when one throws, the rest of the run is abandoned.      *)

(* A subscriber throws: what was taken and not yet emitted is gone.         *)
Throw(lost) ==
  /\ throws < MaxThrows
  /\ throws' = throws + 1
  /\ pc' = "failing"
  /\ pending' = <<>>
  /\ discarded' = discarded \union Elements(lost)
  /\ UNCHANGED <<skipPoll, context, newMessages, hasMore>>

(* message_start and message_end of the next pending message.  Prompts are  *)
(* in the context from the start, injected messages enter it afterwards.    *)
EmitPending(in, next) ==
  LET m == Head(pending) IN
  /\ pc = in /\ pending /= <<>>
  /\ \/ /\ messages' = Append(messages, m)
        /\ pending' = Tail(pending)
        /\ pc' = IF Tail(pending) = <<>> THEN next ELSE in
        /\ IF in = "prompts" THEN UNCHANGED <<context, newMessages>>
           ELSE /\ context' = Append(context, m)
                /\ newMessages' = Append(newMessages, m)
        /\ streaming' = FALSE
        /\ UNCHANGED <<skipPoll, hasMore, throws, discarded>>
     \/ /\ Throw(pending)              \* on agent_start, turn_start or message_start
        /\ streaming' \in {streaming, TRUE}
        /\ UNCHANGED messages
     \/ /\ Throw(Tail(pending))        \* on message_end
        /\ messages' = Append(messages, m)
        /\ streaming' = FALSE
  /\ UNCHANGED <<isStreaming, queues, lifecycle, submitted, turn, clears, before, detached,
                 unpolled, ended, excuses>>

EmitPrompt == EmitPending("prompts", "pollInitial")
Inject == EmitPending("inject", "stream")

(* The last reply was cut off at the output token limit, with no tool call. *)
CutOff ==
  /\ LastOf(context).role = "assistant"
  /\ LastOf(context).stop = "length" /\ LastOf(context).calls = 0
  /\ ~aborted

(* Mutants: the run ends with its last turn; follow-ups before the replies  *)
(* to tool results.                                                         *)
AfterEmptyPollEnds == IF hasMore THEN "stream" ELSE "agentEnd"
AfterEmptyPollFollowUps == IF CutOff THEN "pollLength" ELSE "pollFollowUp"

(* Where the loop goes after a turn when no steering waits.                 *)
AfterEmptyPoll ==
  IF CutOff THEN "pollLength" ELSE IF hasMore THEN "stream" ELSE "pollFollowUp"

(* A poll of the steering queue, at the start of the run and after a turn.  *)
PollSteering ==
  /\ pc \in {"pollInitial", "pollSteering"}
  /\ IF skipPoll
     THEN /\ pending' = <<>>
          /\ UNCHANGED <<steeringQueue, unpolled>>
     ELSE /\ pending' = Drained(SteeringMode, steeringQueue)
          /\ steeringQueue' = Remaining(SteeringMode, steeringQueue)
          /\ unpolled' = unpolled \ Elements(steeringQueue)
  /\ skipPoll' = FALSE
  /\ pc' = IF pending' /= <<>> THEN "inject"
           ELSE IF pc = "pollInitial" THEN "stream" ELSE AfterEmptyPoll
  /\ UNCHANGED <<state, followUpQueue, lifecycle, context, newMessages, hasMore, bounds,
                 discarded, before, detached, ended, excuses>>

(* A continuation has no prompt to emit: a subscriber throws on agent_start *)
(* or turn_start.                                                           *)
StartThrows ==
  /\ pc = "pollInitial" /\ newMessages = <<>>
  /\ Throw(<<>>)
  /\ UNCHANGED <<state, queues, lifecycle, submitted, turn, clears, before, detached,
                 unpolled, ended, excuses>>

(* After a cut-off reply with no steering: a follow-up, or a made-up        *)
(* message that asks the model to go on.                                    *)
PollLength ==
  /\ pc = "pollLength"
  /\ LET got == Drained(FollowUpMode, followUpQueue) IN
       /\ pending' = IF got = <<>> /\ ~aborted THEN <<ContinueMessage>> ELSE got
       /\ pc' = IF pending' = <<>> THEN "pollFollowUp" ELSE "inject"
  /\ followUpQueue' = Remaining(FollowUpMode, followUpQueue)
  /\ unpolled' = unpolled \ Elements(followUpQueue)
  /\ UNCHANGED <<state, steeringQueue, lifecycle, skipPoll, context, newMessages,
                 hasMore, bounds, discarded, before, detached, ended, excuses>>

(* The agent would stop: the outer loop asks for follow-ups.                *)
PollFollowUp ==
  /\ pc = "pollFollowUp"
  /\ pending' = Drained(FollowUpMode, followUpQueue)
  /\ followUpQueue' = Remaining(FollowUpMode, followUpQueue)
  /\ unpolled' = unpolled \ Elements(followUpQueue)
  /\ pc' = IF pending' = <<>> THEN "agentEnd" ELSE "inject"
  /\ UNCHANGED <<state, steeringQueue, lifecycle, skipPoll, context, newMessages,
                 hasMore, bounds, discarded, before, detached, ended, excuses>>

(* turn_start, message_start and every message_update of the reply.         *)
StreamReply ==
  /\ pc = "stream" /\ ~streaming
  /\ \/ streaming' = TRUE /\ UNCHANGED <<pc, loop, throws, discarded>>
     \/ streaming' \in BOOLEAN /\ Throw(<<>>)
  /\ UNCHANGED <<messages, isStreaming, queues, lifecycle, submitted, turn, clears, before,
                 detached, unpolled, ended, excuses>>

(* The reply is complete.  After MaxTurns replies the model calls no tool   *)
(* and is not cut off; its run still goes on for what is queued.            *)
EndReply(stop, n) ==
  LET m == Assistant(turn', stop, n) IN
  /\ pc = "stream"
  /\ turn' = turn + 1
  /\ stop = "aborted" => aborted
  /\ turn >= MaxTurns => n = 0 /\ stop /= "length"
  /\ messages' = Append(messages, m)
  /\ streaming' = FALSE
  /\ \/ /\ context' = Append(context, m)
        /\ newMessages' = Append(newMessages, m)
        /\ hasMore' = FALSE
        /\ pc' = CASE stop \in {"error", "aborted"} -> "fatal"
                   [] stop \in {"stop", "length"} /\ n > 0 -> "tools"
                   [] stop \in {"stop", "length"} /\ n = 0 -> "turnEnd"
        /\ UNCHANGED <<pending, skipPoll, throws, discarded, unanswered>>
     \/ Throw(<<>>) /\ unanswered' = unanswered \union {turn'}
  /\ UNCHANGED <<isStreaming, queues, lifecycle, submitted, clears, before, detached,
                 unpolled, ended, torn>>

(* The tool batch of the last reply.  A subscriber that throws on the way   *)
(* leaves the results emitted so far in the transcript only.                *)
RunTools ==
  LET reply == LastOf(context)
      Results(k) == [i \in 1..k |-> ToolResult(reply.turn, i)]
  IN
  /\ pc = "tools"
  /\ \/ \E o \in BatchOutcomes(reply.calls, reply.stop = "length", aborted) :
          /\ messages' = messages \o Results(o.answered)
          /\ context' = context \o Results(o.answered)
          /\ newMessages' = newMessages \o Results(o.answered)
          /\ hasMore' = ~o.terminate
          /\ pc' = "turnEnd"
          /\ unanswered' = IF aborted /\ o.answered < reply.calls
                           THEN unanswered \union {reply.turn} ELSE unanswered
          /\ UNCHANGED <<pending, skipPoll, throws, discarded>>
     \/ \E k \in 0..reply.calls :
          /\ messages' = messages \o Results(k)
          /\ Throw(<<>>)
          /\ unanswered' = unanswered \union {reply.turn}
  /\ UNCHANGED <<isStreaming, streaming, queues, lifecycle, submitted, turn, clears, before,
                 detached, unpolled, ended, torn>>

(* turn_end, then prepareNextTurn, which keeps the messages of the context. *)
EndTurn ==
  /\ \/ pc = "turnEnd" /\ pc' = "pollSteering" /\ UNCHANGED <<loop, throws, discarded>>
     \/ pc = "fatal" /\ pc' = "agentEnd" /\ UNCHANGED <<loop, throws, discarded>>
     \/ pc \in {"turnEnd", "fatal"} /\ Throw(<<>>)
  /\ UNCHANGED <<state, queues, lifecycle, submitted, turn, clears, before, detached,
                 unpolled, ended, excuses>>

-----------------------------------------------------------------------------
(* The end of a run: agent_end, handleRunFailure, finishRun.                *)

(* Mutant: the partial message of an abandoned reply stays.                 *)
SettleStateKeepsPartial == isStreaming' = FALSE /\ UNCHANGED streaming

SettleState == isStreaming' = FALSE /\ streaming' = FALSE

(* The locals of the run go out of scope with it.                           *)
FinishRun ==
  /\ active' = FALSE /\ aborted' = FALSE
  /\ SettleState
  /\ pc' = "idle"
  /\ pending' = <<>> /\ skipPoll' = FALSE /\ context' = <<>>
  /\ newMessages' = <<>> /\ hasMore' = FALSE
  /\ before' = <<>> /\ detached' = FALSE /\ ended' = FALSE

EndRun ==
  /\ pc = "agentEnd"
  /\ \/ FinishRun /\ UNCHANGED <<messages, throws, discarded>>
     \/ /\ Throw(<<>>)
        /\ ended' = TRUE /\ streaming' = FALSE
        /\ UNCHANGED <<messages, isStreaming, lifecycle, before, detached>>
  /\ UNCHANGED <<queues, submitted, turn, clears, unpolled, excuses>>

(* Mutant: no finally, a second throw leaves the run active.                *)
HandleRunFailureWithoutFinally ==
  /\ pc = "failing"
  /\ \/ /\ FinishRun
        /\ messages' = Append(messages, FailureMessage) /\ UNCHANGED throws
     \/ /\ throws < MaxThrows /\ throws' = throws + 1
        /\ pc' = "idle"
        /\ UNCHANGED <<state, lifecycle, loop, before, detached, ended>>
  /\ UNCHANGED <<queues, submitted, turn, clears, discarded, unpolled, excuses>>

(* A second throw, before or after the failure message is in the            *)
(* transcript, only makes the caller's promise reject.                      *)
HandleRunFailure ==
  /\ pc = "failing"
  /\ FinishRun
  /\ \/ messages' = Append(messages, FailureMessage) /\ UNCHANGED throws
     \/ /\ throws < MaxThrows /\ throws' = throws + 1
        /\ messages' \in {messages, Append(messages, FailureMessage)}
  /\ UNCHANGED <<queues, submitted, turn, clears, discarded, unpolled, excuses>>

Caller ==
  \/ Steer \/ FollowUp \/ ClearSteeringQueue \/ ClearFollowUpQueue \/ Abort \/ Reset
  \/ Prompt \/ ContinueTranscript \/ ContinueWithSteering \/ ContinueWithFollowUp

RunLoop ==
  \/ EmitPrompt \/ Inject \/ StartThrows \/ PollSteering \/ PollLength \/ PollFollowUp
  \/ StreamReply \/ (\E stop \in StopReasons, n \in 0..MaxCalls : EndReply(stop, n))
  \/ RunTools \/ EndTurn \/ EndRun \/ HandleRunFailure

Next == Caller \/ RunLoop

Spec == Init /\ [][Next]_vars

(* Nothing in the loop blocks for ever if the provider answers, tools       *)
(* return and subscribers settle.                                           *)
FairSpec == Spec /\ WF_vars(RunLoop)
==============================================================================
