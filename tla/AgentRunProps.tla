---------------------------- MODULE AgentRunProps ----------------------------
(* What an Agent owes its callers.                                          *)
EXTENDS AgentRun, FiniteSets, Selection

Submitted == {m \in [role : {"user"}, kind : Kinds, id : 1..submitted] :
                \/ m \in discarded
                \/ m \in Elements(messages \o pending \o steeringQueue \o followUpQueue)}

TypeOK ==
  /\ isStreaming \in BOOLEAN /\ streaming \in BOOLEAN
  /\ active \in BOOLEAN /\ aborted \in BOOLEAN
  /\ pc \in Phases
  /\ submitted \in 0..MaxMessages /\ turn \in Nat
  /\ throws \in 0..MaxThrows /\ clears \in 0..MaxClears
  /\ Elements(steeringQueue) \subseteq {User("steer", i) : i \in 1..submitted}
  /\ Elements(followUpQueue) \subseteq {User("followUp", i) : i \in 1..submitted}

(* How many times message m stands in sequence s.                           *)
Copies(m, s) == Cardinality({i \in DOMAIN s : s[i] = m})

(* A message a caller handed over is in exactly one place: a queue, on its  *)
(* way through the loop, in the transcript, or dropped on purpose           *)
(* (agent.ts: drain, runPromptMessages; agent-loop.ts: runLoop).  Only a    *)
(* clear, a reset or a failed run drops one.                                *)
NoMessageLostOrDoubled ==
  /\ \A i \in 1..submitted :
       \E k \in Kinds :
         LET m == User(k, i) IN
           (IF m \in discarded THEN 1 ELSE 0)
             + Copies(m, messages \o pending \o steeringQueue \o followUpQueue) = 1
  /\ Cardinality(Submitted) = submitted

(* Messages of one kind reach the transcript in the order they were queued, *)
(* and none that is still waiting is older than one already there.          *)
QueueOrder ==
  \A s \in {messages \o pending \o steeringQueue, messages \o pending \o followUpQueue} :
    \A i, j \in DOMAIN s :
      (/\ i < j
       /\ s[i].role = "user" /\ s[j].role = "user"
       /\ s[i].kind = s[j].kind /\ s[i].kind \in Kinds) => s[i].id < s[j].id

(* Between turns the context the model sees is the transcript, and          *)
(* newMessages, which agent_end reports, is what the run added to it; under *)
(* a run whose transcript was reset, the transcript is the end of the       *)
(* context, of the same messages in the same order (agent.ts: reset,        *)
(* createContextSnapshot; agent-loop.ts: runLoop).                          *)
AtTurnBoundary == pc \in {"stream", "tools", "fatal", "turnEnd", "pollSteering",
                          "pollLength", "pollFollowUp", "agentEnd"}
TranscriptIsContext ==
  AtTurnBoundary =>
    IF detached THEN \E k \in 0..Len(context) : messages = SubSeq(context, k + 1, Len(context))
    ELSE messages = context /\ messages = before \o newMessages

(* The reply at p has the results of all its calls behind it, in call order.*)
CallsAnswered(s, p) ==
  \A i \in 1..s[p].calls : p + i \in DOMAIN s /\ s[p + i] = ToolResult(s[p].turn, i)

(* The result at q stands behind its reply, after those of earlier calls.   *)
BehindItsCall(s, q) ==
  \E p \in DOMAIN s :
    /\ q = p + s[q].call
    /\ s[p].role = "assistant" /\ s[q].call <= s[p].calls
    /\ \A i \in 1..s[q].call : s[p + i] = ToolResult(s[p].turn, i)

(* Whatever became of earlier runs, the model is shown a call without its   *)
(* result only if an abort or a throwing subscriber cut its batch short     *)
(* (transformMessages makes up a result then, and leaves out replies that   *)
(* failed), and no result that does not stand with its call, unless the     *)
(* transcript was reset under a run (agent-loop.ts: runLoop; agent.ts:      *)
(* handleRunFailure, createContextSnapshot).                                *)
RequestsAreAnswered ==
  pc = "stream" =>
    /\ \A p \in DOMAIN context :
         context[p].role = "assistant" /\ context[p].stop \in {"stop", "length"} =>
           CallsAnswered(context, p) \/ context[p].turn \in unanswered
    /\ torn \/ \A q \in DOMAIN context :
                context[q].role = "toolResult" => BehindItsCall(context, q)

(* A run that ends of itself leaves nothing behind that was queued before   *)
(* the last time it looked (agent-loop.ts: the outer loop).                 *)
EndedOfItself ==
  /\ pc = "agentEnd"
  /\ LastOf(context).role = "assistant" => LastOf(context).stop \in {"stop", "length"}
NothingLeftBehind ==
  EndedOfItself => Elements(steeringQueue) \union Elements(followUpQueue) \subseteq unpolled

(* An agent without a run shows no stream and holds no message it has taken *)
(* and not emitted, and one whose run was not reset says that it streams    *)
(* (agent.ts: finishRun, handleRunFailure).                                 *)
IdleIsQuiet ==
  /\ ~active => ~isStreaming /\ ~streaming /\ pending = <<>> /\ pc = "idle"
  /\ active /\ ~detached => isStreaming

(* A follow-up is taken only when the agent would stop: not while tool      *)
(* results wait for a reply, and not past steering an earlier poll saw.     *)
FollowUpsWait ==
  [][/\ active
     /\ followUpQueue' /= followUpQueue /\ pending' /= pending
     => ~hasMore /\ Elements(steeringQueue) \subseteq unpolled]_vars

(* A run ends (finishRun) once the model asks for nothing more and callers  *)
(* queue nothing more, whatever fails, is aborted or reset on the way.      *)
EveryRunEnds == active ~> ~active

(* The messages of a kind in a sequence.                                    *)
OfKind(k, s) == Selected(s, [role : {"user"}, kind : {k}, id : Nat])

(* The refinement mapping: what waits of a kind is what the loop has taken  *)
(* and not emitted, then the queue.                                         *)
Delivery == INSTANCE MessageDelivery WITH
  Kinds <- Kinds,
  Messages <- [role : {"user"}, kind : Kinds, id : 1..MaxMessages],
  waiting <- [k \in Kinds |-> OfKind(k, pending \o steeringQueue \o followUpQueue)],
  delivered <- [k \in Kinds |-> OfKind(k, messages)]

(* The agent delivers what it is handed in order and at most once           *)
(* (agent.ts, PendingMessageQueue and runPromptMessages; agent-loop.ts,     *)
(* runLoop).                                                                *)
DeliversInOrder == Delivery!Spec
==============================================================================
