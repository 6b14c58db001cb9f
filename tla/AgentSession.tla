---------------------------- MODULE AgentSession ----------------------------
(***************************************************************************)
(* The driver AgentSession puts around the Agent: what happens from a      *)
(* prompt, through retries, compactions and queued messages, until the     *)
(* session is idle again.  A caller is one prompt() in progress, or the    *)
(* turn a finished background task triggers; nothing stops two of them     *)
(* from being under way at once.                                           *)
(*                                                                         *)
(* Of the messages only what the driver looks at is kept: whether none,    *)
(* one or more (2) assistant messages end the agent's context and the      *)
(* saved session, and the kind of the last reply.  Retries and compaction  *)
(* are enabled.                                                            *)
(***************************************************************************)
EXTENDS Integers, FiniteSets

CONSTANTS
  Callers,        \* prompts and task reports that may be under way together
  None,           \* no caller
  MaxRetries,     \* settings.retry.maxRetries
  MalformedJsonMaxRetries, ReconnectMaxRetries,  \* 3 and 5 in the code
  MaxCaps,        \* how often a provider can name a lower output token limit
  MaxThrows,      \* bound: listeners, or writes of the session file, that throw
  MaxInputs       \* bound: prompts, queued messages, tasks, tool turns, cut-offs, aborts, compactions

ASSUME CallerAssumption == None \notin Callers /\ IsFiniteSet(Callers) /\ Callers # {}
ASSUME LimitAssumption == {MaxRetries, MalformedJsonMaxRetries, ReconnectMaxRetries} \subseteq Nat
ASSUME BoundAssumption == {MaxCaps, MaxThrows, MaxInputs} \subseteq Nat

VARIABLES
  pc,                       \* per caller, where its driver is
  msg,                      \* per caller, what it has to decide about
  runner,                   \* whose run Agent.activeRun is
  signalled,                \* that run's abort signal
  isAgentRunActive,
  abortRequested,
  retryAttempt,
  retryAbortController,     \* the caller whose retry delay it cancels
  overflowRecoveryAttempted,
  textToolRecoveryAttempts,
  lastAssistantMessage,     \* its kind, or "none"
  caps,                     \* lower output token limits still to come
  connected,                \* the session listens to the agent
  compaction,               \* the manual one: "none", "aborting", "summarising"
  tail,                     \* assistant messages at the end of agent.state.messages
  savedTail,                \* the same of the saved branch
  savedError,               \* the saved branch ends with an error
  queued,                   \* per kind, messages in the agent's two queues
  tasks,                    \* background tasks running
  throws, inputs,          \* what is left of MaxThrows and MaxInputs
  retries                   \* retries granted since a message or a good reply

drivers == <<pc, msg>>
agent == <<runner, signalled>>
flags == <<isAgentRunActive, abortRequested>>
recovery == <<retryAttempt, retryAbortController, overflowRecoveryAttempted,
              textToolRecoveryAttempts, lastAssistantMessage, caps>>
context == <<tail, savedTail, savedError>>
outside == <<queued, tasks, throws, inputs>>
vars == <<drivers, agent, flags, recovery, connected, compaction, context, outside, retries>>

Retryable == {"malformed", "extraData", "reconnectable", "transient"}
Errors == Retryable \union {"overflow", "limited", "fatal"}
Replies == Errors \union {"done", "text", "cutoff", "aborted"}
Kinds == {"user", "custom"}
Driving == {"running", "post", "retry", "check", "recover", "compact", "rest", "waiting", "continue"}
Places == {"idle", "preflight", "precompact", "ready"} \union Driving

Init ==
  /\ pc = [c \in Callers |-> "idle"] /\ msg = [c \in Callers |-> "none"]
  /\ runner = None /\ signalled = FALSE
  /\ isAgentRunActive = FALSE /\ abortRequested = FALSE
  /\ retryAttempt = 0 /\ retryAbortController = None
  /\ overflowRecoveryAttempted = FALSE /\ textToolRecoveryAttempts = 0
  /\ lastAssistantMessage = "none" /\ caps = MaxCaps
  /\ connected = TRUE /\ compaction = "none"
  /\ tail = 0 /\ savedTail = 0 /\ savedError = FALSE
  /\ queued = [kind \in Kinds |-> 0] /\ tasks = 0
  /\ throws = MaxThrows /\ inputs = MaxInputs
  /\ retries = 0

Goto(c, place) == pc' = [pc EXCEPT ![c] = place]
Input == inputs > 0 /\ inputs' = inputs - 1 /\ UNCHANGED throws
Throw == throws > 0 /\ throws' = throws - 1

------------------------------------------------------------------------------
(* Parts of the steps.                                                      *)

(* Mutant: a waiting compaction is never told that the session settled.     *)
ReleasedNever == compaction

(* What a manual compaction waiting for idle does when the session settles. *)
Released == IF compaction = "aborting" THEN "summarising" ELSE compaction

(* Mutant: an aborted driver leaves the flag to whoever aborted it.         *)
SettleUnlessAborted(c) ==
  /\ Goto(c, "idle")
  /\ isAgentRunActive' = abortRequested
  /\ compaction' = Released

(* The finally block of _runAgentPrompt.                                    *)
Settle(c) ==
  /\ Goto(c, "idle")
  /\ isAgentRunActive' = FALSE
  /\ compaction' = Released

(* A run of the agent starts.                                               *)
Runs(c) ==
  /\ Goto(c, "running")
  /\ runner' = c
  /\ signalled' = FALSE

HasQueuedMessages == \E kind \in Kinds : queued[kind] > 0
Enqueue(kind) == queued' = [queued EXCEPT ![kind] = @ + 1]

(* Does the session see a message of the user?                              *)
UserSpeaks(kind) == kind = "user" /\ connected

(* A message enters the context and, when the session listens, the saved    *)
(* branch; a message of the user also re-arms the overflow recovery.        *)
Enters(kind) ==
  /\ tail' = 0
  /\ savedTail' = (IF connected THEN 0 ELSE savedTail)
  /\ savedError' = (savedError /\ ~connected)
  /\ overflowRecoveryAttempted' = (overflowRecoveryAttempted /\ ~UserSpeaks(kind))
  /\ retries' = 0

(* A queued message is delivered.                                           *)
TakesQueued ==
  \E kind \in Kinds :
    /\ queued[kind] > 0 /\ queued' = [queued EXCEPT ![kind] = @ - 1]
    /\ Enters(kind)
    /\ textToolRecoveryAttempts' = (IF UserSpeaks(kind) THEN 0 ELSE textToolRecoveryAttempts)

(* The contexts a compaction may leave: a summary and the saved branch from *)
(* some message on, never without its last one.                             *)
Rebuilt == IF savedTail = 0 THEN {0} ELSE 1..savedTail

(* One assistant message more, and one less, at the end.                    *)
More(n) == IF n = 0 THEN 1 ELSE 2
Less(n) == IF n = 2 THEN {1, 2} ELSE {0}

(* Another run is needed, and not to try anything again.                    *)
ContinueForQueued(c) == Goto(c, "continue") /\ retries' = 0

------------------------------------------------------------------------------
(* From a call to a run.                                                    *)

(* prompt() finds the session not streaming and waits for its credentials.  *)
Prompt(c) ==
  /\ pc[c] = "idle" /\ ~isAgentRunActive /\ Input
  /\ Goto(c, "preflight")
  /\ UNCHANGED <<msg, agent, flags, recovery, connected, compaction, context, queued, tasks, retries>>

(* It has no credentials, or a listener throws while it compacts.           *)
PreflightFails(c) ==
  /\ \/ pc[c] = "preflight" /\ UNCHANGED <<tail, throws>>
     \/ pc[c] = "precompact" /\ Throw /\ tail' \in Rebuilt \union {tail}
  /\ Goto(c, "idle")
  /\ UNCHANGED <<msg, agent, flags, recovery, connected, compaction, savedTail, savedError,
                 queued, tasks, inputs, retries>>

(* The check before a prompt starts a compaction; if the last reply had     *)
(* overflowed, it is taken off the context first.                           *)
Precompact(c) ==
  /\ pc[c] = "preflight"
  /\ Goto(c, "precompact")
  /\ \/ UNCHANGED <<overflowRecoveryAttempted, tail>>
     \/ /\ tail > 0 /\ ~overflowRecoveryAttempted
        /\ overflowRecoveryAttempted' = TRUE /\ tail' \in Less(tail)
  /\ UNCHANGED <<msg, agent, flags, retryAttempt, retryAbortController, textToolRecoveryAttempts,
                 lastAssistantMessage, caps, connected, compaction, savedTail, savedError,
                 outside, retries>>

EndPrecompact(c) ==
  /\ pc[c] = "precompact"
  /\ Goto(c, "ready")
  /\ \/ \E n \in Rebuilt : tail' = n \/ (savedError /\ tail' \in Less(n))
     \/ UNCHANGED tail
  /\ UNCHANGED <<msg, agent, flags, recovery, connected, compaction, savedTail, savedError,
                 outside, retries>>

(* _runAgentPrompt up to the agent's answer: it takes the message, or       *)
(* refuses it because another caller's run is active.                       *)
RunAgentPrompt(c, kind) ==
  /\ abortRequested' = FALSE /\ textToolRecoveryAttempts' = 0
  /\ \/ /\ runner = None
        /\ isAgentRunActive' = TRUE
        /\ Runs(c) /\ Enters(kind)
        /\ UNCHANGED compaction
     \/ /\ runner # None
        /\ Settle(c)
        /\ UNCHANGED <<agent, context, overflowRecoveryAttempted, retries>>
  /\ UNCHANGED <<msg, retryAttempt, retryAbortController, lastAssistantMessage, caps, connected>>

Submit(c) ==
  /\ pc[c] \in {"preflight", "ready"}
  /\ RunAgentPrompt(c, "user")
  /\ UNCHANGED outside

------------------------------------------------------------------------------
(* The run, as the session's listener sees it.                              *)

(* retryAttempt after a reply that is no error.                             *)
AttemptsAfterReply == IF connected THEN 0 ELSE retryAttempt

(* A reply that does not end the run.                                       *)
Replied ==
  /\ lastAssistantMessage' = (IF connected THEN "done" ELSE lastAssistantMessage)
  /\ retryAttempt' = AttemptsAfterReply

(* A reply with tool calls, and their results.                              *)
ToolTurn(c) ==
  /\ runner = c /\ Input
  /\ Replied
  /\ Enters("toolResult")
  /\ UNCHANGED <<drivers, agent, flags, retryAbortController, textToolRecoveryAttempts, caps,
                 connected, compaction, queued, tasks>>

(* A reply reached the output token limit; the loop asks the model, in the  *)
(* user's name, to go on.                                                   *)
ContinueCutOff(c) ==
  /\ runner = c /\ ~signalled /\ ~HasQueuedMessages /\ Input
  /\ Replied
  /\ Enters("user")
  /\ textToolRecoveryAttempts' = (IF connected THEN 0 ELSE textToolRecoveryAttempts)
  /\ UNCHANGED <<drivers, agent, flags, retryAbortController, caps, connected, compaction, queued,
                 tasks>>

(* A queued message is taken when the run starts, or after a reply.         *)
Deliver(c) ==
  /\ runner = c
  /\ Replied \/ UNCHANGED <<lastAssistantMessage, retryAttempt>>
  /\ TakesQueued
  /\ UNCHANGED <<drivers, agent, flags, retryAbortController, caps, connected, compaction, tasks,
                 throws, inputs>>

Smaller(m, n) == IF m < n THEN m ELSE n
Larger(m, n) == IF m < n THEN n ELSE m

(* Mutant: every retry is granted the way one with a lower limit is.        *)
LimitOverridden(reply) == IF reply \in Retryable THEN retryAttempt + 1 ELSE 0

(* How often an error of this kind is retried: malformed JSON less often    *)
(* than the setting says, a lost connection more often.                     *)
resolveAssistantRetryLimit(reply) ==
  CASE reply = "extraData" -> Smaller(MaxRetries, 1)
    [] reply = "malformed" -> Smaller(MaxRetries, MalformedJsonMaxRetries)
    [] reply = "reconnectable" -> IF MaxRetries = 0 THEN 0 ELSE Larger(MaxRetries, ReconnectMaxRetries)
    [] reply = "transient" -> MaxRetries
    [] OTHER -> 0

WillRetry(reply) == retryAttempt < resolveAssistantRetryLimit(reply)

(* Malformed JSON past its limit is renamed to an error nobody retries.     *)
Renamed(reply) ==
  IF /\ reply \in {"malformed", "extraData"} /\ connected
     /\ retryAttempt >= Smaller(MaxRetries, MalformedJsonMaxRetries)
  THEN "fatal" ELSE reply

(* A message of the assistant ends: it is remembered, and saved unless it   *)
(* is malformed and about to be retried.                                    *)
Reported(reply) ==
  /\ IF connected /\ ~(reply \in {"malformed", "extraData"} /\ WillRetry(reply))
     THEN savedTail' = More(savedTail) /\ savedError' = (reply \in Errors)
     ELSE UNCHANGED <<savedTail, savedError>>
  /\ lastAssistantMessage' = (IF connected THEN reply ELSE lastAssistantMessage)
  /\ retryAttempt' = (IF reply \in Errors THEN retryAttempt ELSE AttemptsAfterReply)
  /\ overflowRecoveryAttempted' =
       (overflowRecoveryAttempted /\ (reply \in Errors \/ ~connected))
  /\ retries' = (IF reply \in Errors THEN retries ELSE 0)

(* What a failed run ends with, in the place of a reply.                    *)
Failures == Errors \union {"aborted"}

(* The last reply ends the run: an error or an abort at once, any other     *)
(* only when no message is queued, and one cut off only after an abort.  A  *)
(* listener that threw on a reply has left it in the context before the     *)
(* message about the failure.                                               *)
EndRun(c) ==
  /\ runner = c
  /\ \E reply \in Replies :
       /\ reply \in {"done", "text", "cutoff"} => ~HasQueuedMessages
       /\ reply \in {"aborted", "cutoff"} => signalled
       /\ reply = "limited" => caps > 0
       /\ Reported(Renamed(reply))
       /\ \/ tail' = More(tail) /\ UNCHANGED throws
          \/ tail' = 2 /\ reply \in Failures /\ Throw
  /\ Goto(c, "post")
  /\ runner' = None /\ signalled' = FALSE
  /\ UNCHANGED <<msg, flags, retryAbortController, textToolRecoveryAttempts, caps,
                 connected, compaction, queued, tasks, inputs>>

(* agent.prompt() or agent.continue() rejects: a listener or the session    *)
(* file threw, and threw again on the message about the failure, before or  *)
(* after that was saved.                                                    *)
RejectRun(c) ==
  /\ runner = c /\ Throw
  /\ \/ UNCHANGED <<savedTail, savedError, lastAssistantMessage, retryAttempt,
                    overflowRecoveryAttempted, retries>>
     \/ \E reply \in Failures : (reply = "aborted" => signalled) /\ Reported(Renamed(reply))
  /\ tail' \in 0..2
  /\ Settle(c)
  /\ runner' = None /\ signalled' = FALSE
  /\ UNCHANGED <<msg, abortRequested, retryAbortController, textToolRecoveryAttempts, caps,
                 connected, queued, tasks, inputs>>

------------------------------------------------------------------------------
(* The largest of the limits.                                               *)
MaxLimit == IF MaxRetries = 0 THEN 0 ELSE Larger(MaxRetries, ReconnectMaxRetries)

(* A full round of retries, one recovery, another round, one retry per      *)
(* lower limit; and for every other caller another round and the retry it   *)
(* was granted before the message.                                          *)
RetryBound == (Cardinality(Callers) + 1) * MaxLimit + Cardinality(Callers) + MaxCaps

(* The count of retries stops above the bound.                              *)
Granted == IF retries > RetryBound THEN retries ELSE retries + 1

(* After a run: _handlePostAgentRun, one await at a time.                   *)

(* A listener throws out of the driver: straight to the finally block.      *)
Throws(c) == Throw /\ Settle(c) /\ UNCHANGED <<tail, retryAbortController, retries>>

Stays == UNCHANGED <<isAgentRunActive, compaction, throws>>

(* _prepareRetry up to its delay; a listener may throw on its announcement. *)
Retry(c) ==
  /\ retryAttempt' = retryAttempt + 1
  /\ \/ /\ retries' = Granted /\ tail' \in Less(tail)
        /\ retryAbortController' = c
        /\ Goto(c, "retry") /\ Stays
     \/ Throws(c)

(* A retry with a lower output token limit is always granted.               *)
RetryWithLowerLimit(c) ==
  /\ lastAssistantMessage = "limited" /\ caps > 0
  /\ caps' = caps - 1
  /\ Retry(c)

RetryError(c) ==
  /\ WillRetry(lastAssistantMessage)
  /\ Retry(c)
  /\ UNCHANGED caps

(* No retry: the count of a failed reply is dropped, once announced.        *)
GiveUp(c) ==
  /\ lastAssistantMessage # "none"
  /\ ~(lastAssistantMessage = "limited" /\ caps > 0) /\ ~WillRetry(lastAssistantMessage)
  /\ \/ /\ retryAttempt' = (IF lastAssistantMessage \in Errors THEN 0 ELSE retryAttempt)
        /\ Goto(c, "check") /\ Stays
        /\ UNCHANGED <<tail, retryAbortController, retries>>
     \/ /\ lastAssistantMessage \in Errors /\ retryAttempt > 0
        /\ Throws(c) /\ UNCHANGED retryAttempt
  /\ UNCHANGED caps

NothingToHandle(c) ==
  /\ lastAssistantMessage = "none"
  /\ Goto(c, "waiting") /\ Stays
  /\ UNCHANGED <<tail, caps, retryAttempt, retryAbortController, retries>>

(* What is left to decide about a reply once it is not retried.             *)
Concern(reply) ==
  IF reply = "cutoff" THEN "overflow"
  ELSE IF reply \in {"overflow", "aborted", "text"} THEN reply
  ELSE "none"

HandlePostAgentRun(c) ==
  /\ pc[c] = "post"
  /\ msg' = [msg EXCEPT ![c] = Concern(lastAssistantMessage)]
  /\ lastAssistantMessage' = "none"
  /\ RetryWithLowerLimit(c) \/ RetryError(c) \/ GiveUp(c) \/ NothingToHandle(c)
  /\ UNCHANGED <<agent, abortRequested, overflowRecoveryAttempted, textToolRecoveryAttempts,
                 connected, savedTail, savedError, queued, tasks, inputs>>

(* The delay is over; the finally block forgets whichever controller is set. *)
EndRetryDelay(c) ==
  /\ pc[c] = "retry"
  /\ Goto(c, "continue")
  /\ retryAbortController' = None
  /\ UNCHANGED <<msg, agent, flags, retryAttempt, overflowRecoveryAttempted,
                 textToolRecoveryAttempts, lastAssistantMessage, caps, connected, compaction,
                 context, outside, retries>>

(* Mutant: an overflow is recovered from as often as it happens.            *)
MayRecoverAlways == TRUE

(* One compact-and-retry attempt per user message.                          *)
MayRecover == ~overflowRecoveryAttempted

(* _checkCompaction: an overflow is compacted away and retried, once; any   *)
(* other reply but an aborted one may have filled the context.  Nothing     *)
(* happens when the reply is of another model, or older than a compaction.  *)
CheckCompaction(c) ==
  /\ pc[c] = "check"
  /\ \/ /\ msg[c] = "overflow" /\ MayRecover
        /\ overflowRecoveryAttempted' = TRUE /\ tail' \in Less(tail)
        /\ Goto(c, "recover")
     \/ /\ msg[c] \notin {"overflow", "aborted"}
        /\ Goto(c, "compact")
        /\ UNCHANGED <<overflowRecoveryAttempted, tail>>
     \/ /\ Goto(c, "rest")
        /\ UNCHANGED <<overflowRecoveryAttempted, tail>>
  /\ msg' = [msg EXCEPT ![c] = IF @ = "text" THEN @ ELSE "none"]
  /\ UNCHANGED <<agent, flags, retryAttempt, retryAbortController, textToolRecoveryAttempts,
                 lastAssistantMessage, caps, connected, compaction, savedTail, savedError,
                 outside, retries>>

(* A listener throws when a compaction is refused, or, twice, when one ends. *)
CompactionThrows(c) ==
  /\ \/ pc[c] = "check" /\ msg[c] = "overflow" /\ ~MayRecover /\ UNCHANGED tail
     \/ pc[c] \in {"recover", "compact"} /\ tail' \in Rebuilt \union {tail}
  /\ Throw /\ Settle(c) /\ msg' = [msg EXCEPT ![c] = "none"]
  /\ UNCHANGED <<agent, abortRequested, recovery, connected, savedTail, savedError, queued, tasks,
                 inputs, retries>>

(* A compaction for size is followed by a run only for queued messages.     *)
ContinuesAfterCompaction == HasQueuedMessages

(* The auto-compaction ends; a recovery leaves out the error at the end of  *)
(* the rebuilt context and asks for a retry.                                *)
EndAutoCompaction(c) ==
  /\ pc[c] \in {"recover", "compact"}
  /\ \/ /\ pc[c] = "recover"
        /\ \E n \in Rebuilt : IF savedError THEN tail' \in Less(n) ELSE tail' = n
        /\ Goto(c, "continue")
        /\ retries' = Granted
     \/ /\ pc[c] = "compact" /\ ContinuesAfterCompaction
        /\ tail' \in Rebuilt
        /\ ContinueForQueued(c)
     \/ /\ pc[c] = "compact" /\ ~ContinuesAfterCompaction
        /\ tail' \in Rebuilt
        /\ Goto(c, "rest")
        /\ UNCHANGED retries
     \/ /\ Goto(c, "rest")
        /\ tail' \in Rebuilt \union {tail}
        /\ UNCHANGED retries
  /\ UNCHANGED <<msg, agent, flags, recovery, connected, compaction, savedTail, savedError,
                 outside>>

MayAnswer(reply) ==
  reply = "text" /\ ~abortRequested /\ ~HasQueuedMessages /\ textToolRecoveryAttempts < 2

(* The end of _handlePostAgentRun: a tool call written as text is answered  *)
(* with a follow-up, at most twice; queued messages need another run.       *)
Rest(c) ==
  /\ pc[c] = "rest"
  /\ \/ /\ MayAnswer(msg[c])
        /\ textToolRecoveryAttempts' = textToolRecoveryAttempts + 1
        /\ IF isAgentRunActive
           THEN Enqueue("custom") /\ UNCHANGED context
           ELSE UNCHANGED queued /\ tail' = 0 /\ savedTail' = 0 /\ savedError' = FALSE
        /\ ContinueForQueued(c)
     \/ /\ ~MayAnswer(msg[c]) /\ ~HasQueuedMessages
        /\ Goto(c, "waiting")
        /\ UNCHANGED <<textToolRecoveryAttempts, queued, context, retries>>
     \/ /\ HasQueuedMessages
        /\ ContinueForQueued(c)
        /\ UNCHANGED <<textToolRecoveryAttempts, queued, context>>
  /\ msg' = [msg EXCEPT ![c] = "none"]
  /\ UNCHANGED <<agent, flags, retryAttempt, retryAbortController, overflowRecoveryAttempted,
                 lastAssistantMessage, caps, connected, compaction, tasks, throws, inputs>>

(* Mutant: once the last task has ended, nobody looks at the queues.        *)
SettlesWithTasks == abortRequested \/ tasks = 0

(* Mutant: an abort does not end the wait.                                  *)
SettlesUnaborted == tasks = 0 /\ ~HasQueuedMessages

(* Nothing is left to wait for.                                             *)
MaySettle == abortRequested \/ (tasks = 0 /\ ~HasQueuedMessages)

(* _waitForBackgroundTasks is over: a queued message needs another run, an  *)
(* abort or the last task's end lets the session settle.                    *)
EndWait(c) ==
  /\ pc[c] = "waiting"
  /\ \/ /\ ~abortRequested /\ HasQueuedMessages
        /\ ContinueForQueued(c)
        /\ UNCHANGED <<isAgentRunActive, compaction>>
     \/ /\ MaySettle
        /\ Settle(c)
        /\ UNCHANGED retries
  /\ UNCHANGED <<msg, agent, abortRequested, recovery, connected, context, outside>>

(* agent.continue(): with an assistant message at the end it needs a queued *)
(* message; it throws without one, and while another run is active.         *)
Continue(c) ==
  /\ pc[c] = "continue"
  /\ \/ /\ runner = None /\ tail = 0
        /\ Runs(c)
        /\ UNCHANGED <<isAgentRunActive, compaction, context, overflowRecoveryAttempted,
                       textToolRecoveryAttempts, queued, retries>>
     \/ /\ runner = None /\ tail > 0
        /\ Runs(c)
        /\ TakesQueued
        /\ UNCHANGED <<isAgentRunActive, compaction>>
     \/ /\ runner # None \/ (tail > 0 /\ ~HasQueuedMessages)
        /\ Settle(c)
        /\ UNCHANGED <<agent, context, overflowRecoveryAttempted, textToolRecoveryAttempts,
                       queued, retries>>
  /\ UNCHANGED <<msg, abortRequested, retryAttempt, retryAbortController, lastAssistantMessage,
                 caps, connected, tasks, throws, inputs>>

------------------------------------------------------------------------------
(* What others do meanwhile.                                                *)

(* steer(), followUp(), or a prompt() that finds the session streaming.     *)
Queue ==
  /\ Input
  /\ Enqueue("user")
  /\ UNCHANGED <<drivers, agent, flags, recovery, connected, compaction, context, tasks, retries>>

ClearQueue ==
  /\ HasQueuedMessages /\ queued' = [kind \in Kinds |-> 0]
  /\ UNCHANGED <<drivers, agent, flags, recovery, connected, compaction, context, tasks, throws,
                 inputs, retries>>

StartTask ==
  /\ runner # None /\ Input
  /\ tasks' = tasks + 1
  /\ UNCHANGED <<drivers, agent, flags, recovery, connected, compaction, context, queued, retries>>

(* A background task ends: it was stopped, its report is queued, or, when   *)
(* the session is not streaming, the report starts a driver of its own.     *)
EndTask ==
  /\ tasks > 0 /\ tasks' = tasks - 1
  /\ \/ /\ UNCHANGED queued \/ (isAgentRunActive /\ Enqueue("custom"))
        /\ UNCHANGED <<drivers, agent, flags, recovery, connected, compaction, context, retries>>
     \/ /\ ~isAgentRunActive
        /\ UNCHANGED queued
        /\ \E c \in Callers : pc[c] = "idle" /\ RunAgentPrompt(c, "custom")
  /\ UNCHANGED <<throws, inputs>>

(* The retry delay whose controller is set ends in "Retry cancelled".       *)
CancelRetry ==
  IF retryAbortController = None
  THEN UNCHANGED <<pc, retryAttempt, retryAbortController, retries>>
  ELSE /\ Goto(retryAbortController, "check")
       /\ retryAttempt' = 0 /\ retries' = 0
       /\ retryAbortController' = None

AbortRetry ==
  /\ retryAbortController # None /\ Input
  /\ CancelRetry
  /\ UNCHANGED <<msg, agent, flags, overflowRecoveryAttempted, textToolRecoveryAttempts,
                 lastAssistantMessage, caps, connected, compaction, context, queued, tasks>>

(* abort() up to its wait for idle.                                         *)
Interrupt ==
  /\ CancelRetry
  /\ abortRequested' = TRUE
  /\ signalled' = (runner # None)
  /\ UNCHANGED <<msg, runner, isAgentRunActive, overflowRecoveryAttempted,
                 textToolRecoveryAttempts, lastAssistantMessage, caps, context>>

Abort ==
  /\ Input \/ (~abortRequested /\ UNCHANGED <<throws, inputs>>)
  /\ Interrupt
  /\ UNCHANGED <<connected, compaction, queued, tasks>>

(* compact(): stop listening, abort, and wait for idle.                     *)
Compact ==
  /\ compaction = "none" /\ Input
  /\ connected' = FALSE
  /\ compaction' = (IF isAgentRunActive THEN "aborting" ELSE "summarising")
  /\ Interrupt
  /\ UNCHANGED <<queued, tasks>>

(* The summary is there, or failed; the session listens again.              *)
EndCompact ==
  /\ compaction = "summarising"
  /\ compaction' = "none"
  /\ connected' = TRUE
  /\ \/ tail' \in Rebuilt
     \/ UNCHANGED tail
  /\ UNCHANGED <<drivers, agent, flags, recovery, savedTail, savedError, outside, retries>>

------------------------------------------------------------------------------
(* One driver's own steps.                                                  *)
Drive(c) ==
  \/ EndRun(c) \/ RejectRun(c) \/ HandlePostAgentRun(c) \/ EndRetryDelay(c)
  \/ CheckCompaction(c) \/ CompactionThrows(c) \/ EndAutoCompaction(c) \/ Rest(c)
  \/ EndWait(c) \/ Continue(c)

Next ==
  \/ \E c \in Callers :
       \/ Prompt(c) \/ PreflightFails(c) \/ Precompact(c) \/ EndPrecompact(c) \/ Submit(c)
       \/ ToolTurn(c) \/ ContinueCutOff(c) \/ Deliver(c) \/ Drive(c)
  \/ Queue \/ ClearQueue \/ StartTask \/ EndTask \/ AbortRetry \/ Abort \/ Compact \/ EndCompact

Spec == Init /\ [][Next]_vars

(* A driver is never left waiting: every run of the agent, delay and        *)
(* summary ends (each such step moves pc).  Nothing is assumed of the       *)
(* background tasks.                                                        *)
FairSpec == Spec /\ \A c \in Callers : WF_pc(Drive(c))

------------------------------------------------------------------------------
(* The types of the variables.                                              *)
TypeOK ==
  /\ pc \in [Callers -> Places] /\ msg \in [Callers -> {"none", "overflow", "aborted", "text"}]
  /\ runner \in Callers \union {None} /\ {signalled, isAgentRunActive, abortRequested} \subseteq BOOLEAN
  /\ \A c \in Callers : pc[c] = "running" <=> runner = c
  /\ retryAttempt \in 0..(MaxLimit + MaxCaps)
  /\ retryAbortController \in {None} \union {c \in Callers : pc[c] = "retry"}
  /\ overflowRecoveryAttempted \in BOOLEAN /\ textToolRecoveryAttempts \in 0..2
  /\ lastAssistantMessage \in Replies \union {"none"} /\ caps \in 0..MaxCaps
  /\ connected \in BOOLEAN /\ compaction \in {"none", "aborting", "summarising"}
  /\ connected <=> compaction = "none"
  /\ {tail, savedTail} \subseteq 0..2 /\ savedError \in BOOLEAN
  /\ queued \in [Kinds -> Nat] /\ retries \in Nat
  /\ tasks \in 0..MaxInputs /\ throws \in 0..MaxThrows /\ inputs \in 0..MaxInputs

(* However errors, overflows and output limits follow each other, the       *)
(* drivers retry only so often between two messages, good replies or        *)
(* cancelled delays                                                         *)
(* (agent-session.ts _handlePostAgentRun, _prepareRetry, _checkCompaction). *)
RetriesBounded == retries <= RetryBound

(* The session is never left marked busy without a driver to end it, which  *)
(* would refuse every later prompt (_runAgentPrompt's finally).             *)
BusyHasDriver == isAgentRunActive => \E c \in Callers : pc[c] \in Driving

(* The places out of which a listener, or a failed write, may throw.        *)
Throwing == {"running", "post", "check", "recover", "compact"}

(* The session does not come to rest with a message in its queues, unless   *)
(* it was aborted, a listener threw out of the driver, or a prompt refused  *)
(* under another's run had ended its activity before: the last line of      *)
(* _handlePostAgentRun and the wait for tasks see what was queued           *)
(* meanwhile, and agent.continue() then takes it and does not throw.        *)
SettlesEmpty ==
  [][isAgentRunActive /\ ~isAgentRunActive' /\ (\A c \in Callers : pc'[c] \notin Driving)
       => \/ ~HasQueuedMessages' \/ abortRequested
          \/ \E c \in Callers : pc[c] \in Throwing /\ pc'[c] = "idle"]_vars

(* Every driver comes to rest, or waits for a background task; the retries  *)
(* end without a bound in the model (_runAgentPrompt's loop).               *)
DriverSettles ==
  \A c \in Callers : pc[c] \in Driving ~> pc[c] = "idle" \/ (pc[c] = "waiting" /\ tasks > 0)

(* abort() returns: the session becomes idle, whatever retries, compactions *)
(* and tasks were under way, unless a prompt that passed its check before   *)
(* starts a run first and takes the abort back (abort, waitForIdle,         *)
(* _runAgentPrompt).                                                        *)
AbortSettles == abortRequested /\ isAgentRunActive ~> ~isAgentRunActive \/ ~abortRequested

(* A manual compaction gets past its wait, unless such a prompt takes its   *)
(* abort back (compact, _resolveIdleWaitIfIdle).                            *)
CompactionStarts == compaction = "aborting" ~> compaction = "summarising" \/ ~abortRequested

------------------------------------------------------------------------------
(* What the sources say and the code does not do.                           *)

(* "Overflow: LLM returned context overflow error, remove error message     *)
(* from agent state, compact, auto-retry" (agent-session.ts:1725): after    *)
(* the compaction that follows an overflow error the agent can continue.    *)
RecoveryContinues ==
  [][\A c \in Callers :
       pc[c] = "recover" /\ pc'[c] = "continue" /\ savedError
         => tail' = 0 \/ HasQueuedMessages']_vars
==============================================================================
