---------------------------- MODULE AgentRunProofs ----------------------------
(***************************************************************************)
(* The inductive invariants of AgentRun and what follows from them, for    *)
(* every queue mode and every bound: first the state of a run, then the    *)
(* messages an agent is handed, of which none is lost, doubled or          *)
(* reordered, and last that the agent implements MessageDelivery.          *)
(***************************************************************************)
EXTENDS AgentRunProps, SelectionProofs, FiniteSetTheorems

AssistantMessage ==
  [role : {"assistant"}, turn : Nat, stop : StopReasons, calls : Nat]
Message ==
  [role : {"user"}, kind : Kinds \union {"continue"}, id : Nat]
    \union AssistantMessage
    \union [role : {"toolResult"}, turn : Nat, call : Nat]

(* The messages of a kind that were submitted so far.                       *)
Queued(k) == {User(k, i) : i \in 1..submitted}

TypeInv ==
  /\ messages \in Seq(Message) /\ context \in Seq(Message)
  /\ newMessages \in Seq(Message) /\ before \in Seq(Message)
  /\ pending \in Seq(Message)
  /\ isStreaming \in BOOLEAN /\ streaming \in BOOLEAN
  /\ active \in BOOLEAN /\ aborted \in BOOLEAN
  /\ skipPoll \in BOOLEAN /\ hasMore \in BOOLEAN
  /\ detached \in BOOLEAN /\ ended \in BOOLEAN
  /\ pc \in Phases
  /\ submitted \in 0..MaxMessages /\ turn \in Nat
  /\ throws \in 0..MaxThrows /\ clears \in 0..MaxClears
  /\ steeringQueue \in Seq(Queued("steer"))
  /\ followUpQueue \in Seq(Queued("followUp"))

(* The program counter, the lifecycle and what is pending.                  *)
PhaseInv ==
  /\ active <=> pc /= "idle"
  /\ pending /= <<>> <=> pc \in {"prompts", "inject"}
  /\ skipPoll => pc \in {"prompts", "pollInitial", "failing"}
  /\ ~active => ~isStreaming /\ ~streaming
  /\ active /\ ~detached => isStreaming
  /\ detached => active

HasFatalReply ==
  /\ context /= <<>>
  /\ LastOf(context).role = "assistant"
  /\ LastOf(context).stop \in {"error", "aborted"}

(* What the loop knows of the queues and of its last reply where it stands. *)
LookedInv ==
  /\ pc = "tools" => context /= <<>> /\ LastOf(context) \in AssistantMessage
  /\ pc = "fatal" => HasFatalReply
  /\ pc \in {"pollLength", "pollFollowUp"} => Elements(steeringQueue) \subseteq unpolled
  /\ pc = "agentEnd" =>
       \/ HasFatalReply
       \/ Elements(steeringQueue) \union Elements(followUpQueue) \subseteq unpolled

(* The context is the transcript, ahead of it by the prompts still to emit. *)
TranscriptInv ==
  /\ pc = "prompts" /\ ~detached =>
       /\ context = messages \o pending
       /\ context = before \o newMessages
  /\ pc \in Phases \ {"idle", "prompts", "failing"} /\ ~detached =>
       /\ messages = context
       /\ messages = before \o newMessages

IInv == TypeInv /\ PhaseInv /\ LookedInv /\ TranscriptInv

-----------------------------------------------------------------------------

LEMMA MessagesAreMessages ==
  /\ \A k \in Kinds \union {"continue"}, i \in Nat : User(k, i) \in Message
  /\ ContinueMessage \in Message /\ FailureMessage \in Message
  /\ \A t \in Nat, s \in StopReasons, n \in Nat :
       Assistant(t, s, n) \in AssistantMessage /\ Assistant(t, s, n) \in Message
  /\ \A t \in Nat, i \in Nat : ToolResult(t, i) \in Message
BY DEF Message, AssistantMessage, User, ContinueMessage, FailureMessage, Assistant,
       ToolResult, StopReasons, Kinds

(* Draining keeps the type of a queue, and empties what it is told to.      *)
LEMMA DrainType ==
  ASSUME NEW S, NEW q \in Seq(S), NEW mode
  PROVE  /\ Drained(mode, q) \in Seq(S)
         /\ Remaining(mode, q) \in Seq(S)
         /\ Drained(mode, q) = <<>> => q = <<>> /\ Remaining(mode, q) = <<>>
<1>1. CASE mode = "all" \/ q = <<>>
  BY <1>1 DEF Drained, Remaining
<1>2. CASE ~(mode = "all" \/ q = <<>>)
  BY <1>2 DEF Drained, Remaining
<1>3. QED BY <1>1, <1>2

(* What is emitted next moves from the front of `p` to the end of `s`.      *)
LEMMA MoveHead ==
  ASSUME NEW S, NEW s \in Seq(S), NEW p \in Seq(S), p /= <<>>
  PROVE  Append(s, Head(p)) \o Tail(p) = s \o p
<1>1. Append(s, Head(p)) \o Tail(p) \in Seq(S) /\ s \o p \in Seq(S)
  OBVIOUS
<1>2. Len(Append(s, Head(p)) \o Tail(p)) = Len(s \o p)
  OBVIOUS
<1>3. \A i \in 1..Len(s \o p) : (Append(s, Head(p)) \o Tail(p))[i] = (s \o p)[i]
  OBVIOUS
<1>4. QED BY <1>1, <1>2, <1>3

(* The transcript of a run grows by what newMessages grows by.              *)
LEMMA GrowTranscript ==
  ASSUME before \in Seq(Message), newMessages \in Seq(Message)
  PROVE  /\ \A x \in Message :
              Append(before \o newMessages, x) = before \o Append(newMessages, x)
         /\ \A r \in Seq(Message) :
              (before \o newMessages) \o r = before \o (newMessages \o r)
BY SMTT(20)

LEMMA ElementsOfAppend ==
  ASSUME NEW S, NEW q \in Seq(S), NEW x \in S
  PROVE  Elements(Append(q, x)) = Elements(q) \union {x}
<1>1. DOMAIN Append(q, x) = 1..Len(q) + 1 /\ DOMAIN q = 1..Len(q) /\ Len(q) \in Nat
  OBVIOUS
<1>2. \A i \in 1..Len(q) : Append(q, x)[i] = q[i]
  OBVIOUS
<1>3. Append(q, x)[Len(q) + 1] = x
  OBVIOUS
<1>4. ASSUME NEW y \in Elements(Append(q, x)) PROVE y \in Elements(q) \union {x}
  BY <1>1, <1>2, <1>3 DEF Elements
<1>5. ASSUME NEW y \in Elements(q) \union {x} PROVE y \in Elements(Append(q, x))
  BY <1>1, <1>2, <1>3 DEF Elements
<1>6. QED BY <1>4, <1>5

LEMMA LastOfAppend ==
  ASSUME NEW S, NEW s \in Seq(S), NEW x \in S
  PROVE  Append(s, x) /= <<>> /\ LastOf(Append(s, x)) = x
BY DEF LastOf

LEMMA InitIInv == Init => IInv
<1> SUFFICES ASSUME Init PROVE IInv
  OBVIOUS
<1>1. TypeInv
  <2>1. /\ messages \in Seq(Message) /\ context \in Seq(Message)
        /\ newMessages \in Seq(Message) /\ before \in Seq(Message)
        /\ pending \in Seq(Message)
        /\ steeringQueue \in Seq(Queued("steer"))
        /\ followUpQueue \in Seq(Queued("followUp"))
    BY DEF Init
  <2>2. submitted \in 0..MaxMessages /\ turn \in Nat
        /\ throws \in 0..MaxThrows /\ clears \in 0..MaxClears
    BY BoundAssumption DEF Init
  <2>3. QED BY <2>1, <2>2 DEF Init, TypeInv, Phases
<1>2. PhaseInv
  BY DEF Init, PhaseInv
<1>3. LookedInv
  BY DEF Init, LookedInv
<1>4. TranscriptInv
  BY DEF Init, TranscriptInv
<1>5. QED BY <1>1, <1>2, <1>3, <1>4 DEF IInv

-----------------------------------------------------------------------------
(* Callers.                                                                 *)

LEMMA QueuedGrows ==
  ASSUME NEW k \in Kinds, submitted \in Nat, submitted' \in Nat, submitted <= submitted'
  PROVE  /\ Queued(k) \subseteq Queued(k)'
         /\ \A q \in Seq(Queued(k)) : q \in Seq(Queued(k)')
         /\ \A q \in Seq(Queued(k)) : q \in Seq(Message)
<1>1. Queued(k) \subseteq Queued(k)'
  BY DEF Queued
<1>2. Queued(k) \subseteq Message
  BY MessagesAreMessages DEF Queued
<1>3. QED BY <1>1, <1>2

LEMMA QueuedSame ==
  ASSUME NEW k, submitted' = submitted
  PROVE  Queued(k)' = Queued(k)
BY DEF Queued

LEMMA SteerStep == ASSUME IInv, Steer PROVE IInv'
<1> USE DEF IInv
<1>1. submitted \in Nat /\ submitted' = submitted + 1 /\ submitted' \in 0..MaxMessages
  BY BoundAssumption DEF TypeInv, Steer
<1>2. TypeInv'
  <2>1. /\ steeringQueue \in Seq(Queued("steer")')
        /\ followUpQueue \in Seq(Queued("followUp")')
    BY <1>1, QueuedGrows DEF TypeInv, Kinds
  <2>2. User("steer", submitted') \in Queued("steer")'
    BY <1>1 DEF Queued
  <2>3. steeringQueue' \in Seq(Queued("steer")')
    BY <2>1, <2>2 DEF Steer
  <2>4. followUpQueue' \in Seq(Queued("followUp")')
    BY <2>1 DEF Steer
  <2>5. QED BY <1>1, <2>3, <2>4 DEF TypeInv, Steer, state, lifecycle, loop
<1>3. PhaseInv'
  BY DEF PhaseInv, Steer, state, lifecycle, loop
<1>4. LookedInv'
  <2>1. Elements(steeringQueue') = Elements(steeringQueue) \union {User("steer", submitted')}
    <3>1. steeringQueue \in Seq(Queued("steer")')
      BY <1>1, QueuedGrows DEF TypeInv, Kinds
    <3>2. User("steer", submitted') \in Queued("steer")'
      BY <1>1 DEF Queued
    <3>3. QED BY <3>1, <3>2, ElementsOfAppend DEF Steer
  <2>2. unpolled' = unpolled \union {User("steer", submitted')}
    BY DEF Steer
  <2>3. QED
    BY <2>1, <2>2 DEF LookedInv, HasFatalReply, Steer, state, lifecycle, loop
<1>5. TranscriptInv'
  BY DEF TranscriptInv, Steer, state, lifecycle, loop
<1>6. QED BY <1>2, <1>3, <1>4, <1>5

LEMMA FollowUpStep == ASSUME IInv, FollowUp PROVE IInv'
<1> USE DEF IInv
<1>1. submitted \in Nat /\ submitted' = submitted + 1 /\ submitted' \in 0..MaxMessages
  BY BoundAssumption DEF TypeInv, FollowUp
<1>2. TypeInv'
  <2>1. /\ steeringQueue \in Seq(Queued("steer")')
        /\ followUpQueue \in Seq(Queued("followUp")')
    BY <1>1, QueuedGrows DEF TypeInv, Kinds
  <2>2. User("followUp", submitted') \in Queued("followUp")'
    BY <1>1 DEF Queued
  <2>3. followUpQueue' \in Seq(Queued("followUp")')
    BY <2>1, <2>2 DEF FollowUp
  <2>4. steeringQueue' \in Seq(Queued("steer")')
    BY <2>1 DEF FollowUp
  <2>5. QED BY <1>1, <2>3, <2>4 DEF TypeInv, FollowUp, state, lifecycle, loop
<1>3. PhaseInv'
  BY DEF PhaseInv, FollowUp, state, lifecycle, loop
<1>4. LookedInv'
  <2>1. Elements(followUpQueue')
          = Elements(followUpQueue) \union {User("followUp", submitted')}
    <3>1. followUpQueue \in Seq(Queued("followUp")')
      BY <1>1, QueuedGrows DEF TypeInv, Kinds
    <3>2. User("followUp", submitted') \in Queued("followUp")'
      BY <1>1 DEF Queued
    <3>3. QED BY <3>1, <3>2, ElementsOfAppend DEF FollowUp
  <2>2. unpolled' = unpolled \union {User("followUp", submitted')}
    BY DEF FollowUp
  <2>3. QED
    BY <2>1, <2>2 DEF LookedInv, HasFatalReply, FollowUp, state, lifecycle, loop
<1>5. TranscriptInv'
  BY DEF TranscriptInv, FollowUp, state, lifecycle, loop
<1>6. QED BY <1>2, <1>3, <1>4, <1>5

LEMMA ClearStep ==
  ASSUME IInv, ClearSteeringQueue \/ ClearFollowUpQueue PROVE IInv'
<1> USE DEF IInv, state, lifecycle, loop
<1>1. submitted' = submitted /\ clears' \in 0..MaxClears
  BY BoundAssumption DEF TypeInv, ClearSteeringQueue, ClearFollowUpQueue
<1>2. TypeInv'
  <2>1. Queued("steer")' = Queued("steer") /\ Queued("followUp")' = Queued("followUp")
    BY <1>1, QueuedSame
  <2>2. /\ steeringQueue' \in Seq(Queued("steer")')
        /\ followUpQueue' \in Seq(Queued("followUp")')
    <3>1. CASE ClearSteeringQueue
      BY <2>1, <3>1 DEF TypeInv, ClearSteeringQueue
    <3>2. CASE ClearFollowUpQueue
      BY <2>1, <3>2 DEF TypeInv, ClearFollowUpQueue
    <3>3. QED BY <3>1, <3>2
  <2>3. QED BY <1>1, <2>2 DEF TypeInv, ClearSteeringQueue, ClearFollowUpQueue
<1>3. PhaseInv'
  BY DEF PhaseInv, ClearSteeringQueue, ClearFollowUpQueue
<1>4. LookedInv'
  BY DEF LookedInv, HasFatalReply, Elements, ClearSteeringQueue, ClearFollowUpQueue
<1>5. TranscriptInv'
  BY DEF TranscriptInv, ClearSteeringQueue, ClearFollowUpQueue
<1>6. QED BY <1>2, <1>3, <1>4, <1>5

LEMMA AbortStep == ASSUME IInv, Abort PROVE IInv'
BY SMTT(20) DEF IInv, TypeInv, PhaseInv, LookedInv, TranscriptInv, HasFatalReply, Queued, Abort,
       state, queues, loop, bounds, history

LEMMA ResetStep == ASSUME IInv, Reset PROVE IInv'
<1> USE DEF IInv, lifecycle, loop
<1>1. submitted' = submitted /\ clears' \in 0..MaxClears
  BY BoundAssumption DEF TypeInv, Reset
<1>2. TypeInv'
  <2>1. /\ steeringQueue' \in Seq(Queued("steer")')
        /\ followUpQueue' \in Seq(Queued("followUp")')
    BY DEF Reset
  <2>2. messages' \in Seq(Message) /\ detached' \in BOOLEAN
    BY DEF TypeInv, Reset
  <2>3. QED BY <1>1, <2>1, <2>2 DEF TypeInv, Reset
<1>3. PhaseInv'
  BY DEF TypeInv, PhaseInv, Reset
<1>4. LookedInv'
  BY DEF LookedInv, HasFatalReply, Elements, Reset
<1>5. TranscriptInv'
  <2>1. detached' = active /\ pc' = pc
    BY DEF Reset
  <2>2. CASE active
    BY <2>1, <2>2 DEF TranscriptInv
  <2>3. CASE ~active
    BY <2>1, <2>3 DEF TranscriptInv, PhaseInv
  <2>4. QED BY <2>2, <2>3
<1>6. QED BY <1>2, <1>3, <1>4, <1>5

-----------------------------------------------------------------------------
(* Starting a run.                                                          *)

LEMMA BeginRunStep ==
  ASSUME IInv, NEW prompts \in Seq(Message), NEW skip \in BOOLEAN,
         BeginRun(prompts, skip), prompts = <<>> => ~skip,
         submitted' \in 0..MaxMessages,
         steeringQueue' \in Seq(Queued("steer")'),
         followUpQueue' \in Seq(Queued("followUp")')
  PROVE  IInv'
<1> USE DEF IInv
<1>1. TypeInv'
  <2>1. context' \in Seq(Message) /\ newMessages' \in Seq(Message)
        /\ before' \in Seq(Message) /\ messages' \in Seq(Message)
        /\ pending' \in Seq(Message)
    BY DEF TypeInv, BeginRun, RunContext
  <2>2. /\ isStreaming' \in BOOLEAN /\ streaming' \in BOOLEAN
        /\ active' \in BOOLEAN /\ aborted' \in BOOLEAN
        /\ skipPoll' \in BOOLEAN /\ hasMore' \in BOOLEAN
        /\ detached' \in BOOLEAN /\ ended' \in BOOLEAN
        /\ pc' \in Phases
    BY DEF BeginRun, Phases
  <2>3. turn' \in Nat /\ throws' \in 0..MaxThrows /\ clears' \in 0..MaxClears
    BY DEF TypeInv, BeginRun
  <2>4. QED BY <2>1, <2>2, <2>3 DEF TypeInv
<1>2. PhaseInv'
  BY DEF PhaseInv, BeginRun
<1>3. LookedInv'
  BY DEF LookedInv, BeginRun
<1>4. TranscriptInv'
  <2>1. messages \in Seq(Message)
    BY DEF TypeInv
  <2>2. messages \o <<>> = messages
    BY <2>1
  <2>3. CASE prompts = <<>>
    BY <2>2, <2>3 DEF TranscriptInv, BeginRun, RunContext, Phases
  <2>4. CASE prompts /= <<>>
    BY <2>4 DEF TranscriptInv, BeginRun, RunContext
  <2>5. QED BY <2>3, <2>4
<1>5. QED BY <1>1, <1>2, <1>3, <1>4

LEMMA PromptStep == ASSUME IInv, Prompt PROVE IInv'
<1>1. submitted \in Nat /\ submitted' = submitted + 1 /\ submitted' \in 0..MaxMessages
  BY BoundAssumption DEF IInv, TypeInv, Prompt
<1>2. User("prompt", submitted') \in Message
  BY <1>1, MessagesAreMessages DEF Kinds
<1>3. <<User("prompt", submitted')>> \in Seq(Message)
  BY <1>2
<1>4. steeringQueue' \in Seq(Queued("steer")') /\ followUpQueue' \in Seq(Queued("followUp")')
  BY <1>1, QueuedGrows DEF IInv, TypeInv, Prompt, queues, Kinds
<1>5. QED BY <1>1, <1>3, <1>4, BeginRunStep DEF Prompt

LEMMA ContinueStep ==
  ASSUME IInv, ContinueTranscript \/ ContinueWithSteering \/ ContinueWithFollowUp
  PROVE  IInv'
<1>1. submitted' = submitted /\ submitted \in 0..MaxMessages /\ submitted \in Nat
  <2>1. submitted' = submitted
    BY DEF ContinueTranscript, ContinueWithSteering, ContinueWithFollowUp
  <2>2. QED BY <2>1, BoundAssumption DEF IInv, TypeInv
<1>2. /\ Queued("steer")' = Queued("steer") /\ Queued("followUp")' = Queued("followUp")
      /\ steeringQueue \in Seq(Queued("steer"))
      /\ followUpQueue \in Seq(Queued("followUp"))
      /\ \A q \in Seq(Queued("steer")) : q \in Seq(Message)
      /\ \A q \in Seq(Queued("followUp")) : q \in Seq(Message)
  BY <1>1, QueuedGrows, QueuedSame DEF IInv, TypeInv, Kinds
<1>3. CASE ContinueTranscript
  <2>1. BeginRun(<<>>, FALSE)
    BY <1>3 DEF ContinueTranscript
  <2>2. <<>> \in Seq(Message) /\ submitted' \in 0..MaxMessages
    BY <1>1
  <2>3. /\ steeringQueue' \in Seq(Queued("steer")')
        /\ followUpQueue' \in Seq(Queued("followUp")')
    BY <1>2, <1>3 DEF ContinueTranscript, queues
  <2>4. QED BY <2>1, <2>2, <2>3, BeginRunStep
<1>4. CASE ContinueWithSteering
  <2>1. /\ Drained(SteeringMode, steeringQueue) \in Seq(Queued("steer"))
        /\ Remaining(SteeringMode, steeringQueue) \in Seq(Queued("steer"))
        /\ Drained(SteeringMode, steeringQueue) /= <<>>
    BY <1>2, <1>4, DrainType DEF ContinueWithSteering
  <2>2. QED BY <1>1, <1>2, <1>4, <2>1, BeginRunStep DEF ContinueWithSteering
<1>5. CASE ContinueWithFollowUp
  <2>1. /\ Drained(FollowUpMode, followUpQueue) \in Seq(Queued("followUp"))
        /\ Remaining(FollowUpMode, followUpQueue) \in Seq(Queued("followUp"))
    BY <1>2, <1>5, DrainType DEF ContinueWithFollowUp
  <2>2. QED BY <1>1, <1>2, <1>5, <2>1, BeginRunStep DEF ContinueWithFollowUp
<1>6. QED BY <1>3, <1>4, <1>5

-----------------------------------------------------------------------------
(* The loop.                                                                *)

LEMMA QueuesKeepType ==
  ASSUME TypeInv, submitted' = submitted,
         steeringQueue' = steeringQueue, followUpQueue' = followUpQueue
  PROVE  /\ steeringQueue' \in Seq(Queued("steer")')
         /\ followUpQueue' \in Seq(Queued("followUp")')
BY QueuedSame DEF TypeInv

LEMMA ThrowType ==
  ASSUME TypeInv, NEW lost, Throw(lost)
  PROVE  /\ throws' \in 0..MaxThrows /\ pc' \in Phases /\ pending' \in Seq(Message)
         /\ skipPoll' \in BOOLEAN /\ context' \in Seq(Message)
         /\ newMessages' \in Seq(Message) /\ hasMore' \in BOOLEAN
<1>1. throws' \in 0..MaxThrows
  BY BoundAssumption DEF TypeInv, Throw
<1>2. QED BY <1>1 DEF TypeInv, Throw, Phases

(* A run that failed has nothing left to keep but its phase.                *)
LEMMA FailingInv ==
  ASSUME PhaseInv, pc' = "failing", pending' = <<>>, active, active' = active,
         detached' = detached, isStreaming' = isStreaming
  PROVE  PhaseInv' /\ LookedInv' /\ TranscriptInv'
<1>1. PhaseInv'
  BY DEF PhaseInv
<1>2. LookedInv'
  BY DEF LookedInv
<1>3. TranscriptInv'
  BY DEF TranscriptInv
<1>4. QED BY <1>1, <1>2, <1>3

LEMMA EmitPromptStep == ASSUME IInv, EmitPrompt PROVE IInv'
<1> DEFINE m == Head(pending)
<1> USE DEF IInv, EmitPrompt, EmitPending, queues, lifecycle
<1>1. /\ pending \in Seq(Message) /\ pending /= <<>> /\ m \in Message
      /\ messages \in Seq(Message) /\ Tail(pending) \in Seq(Message)
  BY DEF TypeInv
<1>2. messages' \in Seq(Message) /\ pending' \in Seq(Message)
  <2>1. messages' = messages \/ messages' = Append(messages, m)
    OBVIOUS
  <2>2. pending' = <<>> \/ pending' = Tail(pending)
    BY DEF Throw
  <2>3. Append(messages, m) \in Seq(Message) /\ <<>> \in Seq(Message)
    BY <1>1
  <2>4. messages' \in Seq(Message)
    BY <1>1, <2>1, <2>3
  <2>5. pending' \in Seq(Message)
    BY <1>1, <2>2, <2>3
  <2>6. QED BY <2>4, <2>5
<1>3. /\ steeringQueue' \in Seq(Queued("steer")')
      /\ followUpQueue' \in Seq(Queued("followUp")')
  BY QueuesKeepType
<1>4. CASE pc' = "failing"
  <2>1. \E lost : Throw(lost)
    BY <1>4
  <2>2. TypeInv'
    BY <1>2, <1>3, <2>1, ThrowType DEF TypeInv
  <2>3. PhaseInv' /\ LookedInv' /\ TranscriptInv'
    BY <1>4, <2>1, FailingInv DEF PhaseInv, Throw
  <2>4. QED BY <2>2, <2>3
<1>5. CASE pc' /= "failing"
  <2>1. /\ messages' = Append(messages, m) /\ pending' = Tail(pending)
        /\ pc' = IF Tail(pending) = <<>> THEN "pollInitial" ELSE "prompts"
        /\ streaming' = FALSE
        /\ UNCHANGED <<context, newMessages, skipPoll, hasMore, throws>>
    BY <1>5 DEF Throw
  <2>2. TypeInv'
    BY <1>2, <1>3, <2>1 DEF TypeInv, Phases
  <2>3. PhaseInv' /\ LookedInv'
    BY <2>1 DEF PhaseInv, LookedInv
  <2>4. messages' \o pending' = messages \o pending
    BY <1>1, <2>1, MoveHead
  <2>5. pending' = <<>> => messages' \o pending' = messages'
    BY <1>2
  <2>6. TranscriptInv'
    BY <2>1, <2>4, <2>5 DEF TranscriptInv
  <2>7. QED BY <2>2, <2>3, <2>6
<1>6. QED BY <1>4, <1>5

LEMMA InjectStep == ASSUME IInv, Inject PROVE IInv'
<1> DEFINE m == Head(pending)
<1> USE DEF IInv, Inject, EmitPending, queues, lifecycle
<1>1. /\ pending \in Seq(Message) /\ pending /= <<>> /\ m \in Message
      /\ messages \in Seq(Message) /\ Tail(pending) \in Seq(Message)
      /\ before \in Seq(Message) /\ newMessages \in Seq(Message)
      /\ context \in Seq(Message)
  BY DEF TypeInv
<1>2. messages' \in Seq(Message) /\ pending' \in Seq(Message)
  <2>1. messages' = messages \/ messages' = Append(messages, m)
    OBVIOUS
  <2>2. pending' = <<>> \/ pending' = Tail(pending)
    BY DEF Throw
  <2>3. Append(messages, m) \in Seq(Message) /\ <<>> \in Seq(Message)
    BY <1>1
  <2>4. messages' \in Seq(Message)
    BY <1>1, <2>1, <2>3
  <2>5. pending' \in Seq(Message)
    BY <1>1, <2>2, <2>3
  <2>6. QED BY <2>4, <2>5
<1>3. /\ steeringQueue' \in Seq(Queued("steer")')
      /\ followUpQueue' \in Seq(Queued("followUp")')
  BY QueuesKeepType
<1>4. CASE pc' = "failing"
  <2>1. \E lost : Throw(lost)
    BY <1>4
  <2>2. TypeInv'
    BY <1>2, <1>3, <2>1, ThrowType DEF TypeInv
  <2>3. PhaseInv' /\ LookedInv' /\ TranscriptInv'
    BY <1>4, <2>1, FailingInv DEF PhaseInv, Throw
  <2>4. QED BY <2>2, <2>3
<1>5. CASE pc' /= "failing"
  <2>1. /\ messages' = Append(messages, m) /\ pending' = Tail(pending)
        /\ pc' = IF Tail(pending) = <<>> THEN "stream" ELSE "inject"
        /\ context' = Append(context, m) /\ newMessages' = Append(newMessages, m)
        /\ streaming' = FALSE
        /\ UNCHANGED <<skipPoll, hasMore, throws>>
    BY <1>5 DEF Throw
  <2>2. TypeInv'
    <3>1. context' \in Seq(Message) /\ newMessages' \in Seq(Message)
      BY <1>1, <2>1
    <3>2. QED BY <1>2, <1>3, <2>1, <3>1 DEF TypeInv, Phases
  <2>3. PhaseInv' /\ LookedInv'
    BY <2>1 DEF PhaseInv, LookedInv
  <2>4. TranscriptInv'
    <3>1. before \o newMessages' = Append(before \o newMessages, m)
      <4>1. newMessages' = Append(newMessages, m)
        BY <2>1
      <4>2. Append(before \o newMessages, m) = before \o Append(newMessages, m)
        BY <1>1, GrowTranscript
      <4>3. QED BY <4>1, <4>2
    <3>2. ~detached => messages = context /\ messages = before \o newMessages
      BY DEF TranscriptInv, Phases
    <3>3. ~detached => messages' = context' /\ messages' = before \o newMessages'
      BY <2>1, <3>1, <3>2
    <3>4. before' = before /\ detached' = detached /\ pc' \notin {"idle", "prompts", "failing"}
      BY <2>1
    <3>5. QED BY <3>3, <3>4 DEF TranscriptInv
  <2>5. QED BY <2>2, <2>3, <2>4
<1>6. QED BY <1>4, <1>5

(* What a poll of a queue leaves and takes.                                 *)
LEMMA PollType ==
  ASSUME TypeInv, submitted' = submitted
  PROVE  /\ Drained(SteeringMode, steeringQueue) \in Seq(Message)
         /\ Drained(FollowUpMode, followUpQueue) \in Seq(Message)
         /\ steeringQueue \in Seq(Queued("steer")')
         /\ followUpQueue \in Seq(Queued("followUp")')
         /\ Remaining(SteeringMode, steeringQueue) \in Seq(Queued("steer")')
         /\ Remaining(FollowUpMode, followUpQueue) \in Seq(Queued("followUp")')
<1>1. submitted \in Nat
  BY BoundAssumption DEF TypeInv
<1>2. /\ Queued("steer")' = Queued("steer") /\ Queued("followUp")' = Queued("followUp")
      /\ \A q \in Seq(Queued("steer")) : q \in Seq(Message)
      /\ \A q \in Seq(Queued("followUp")) : q \in Seq(Message)
  BY <1>1, QueuedGrows, QueuedSame DEF Kinds
<1>3. steeringQueue \in Seq(Queued("steer")) /\ followUpQueue \in Seq(Queued("followUp"))
  BY DEF TypeInv
<1>4. /\ Drained(SteeringMode, steeringQueue) \in Seq(Queued("steer"))
      /\ Remaining(SteeringMode, steeringQueue) \in Seq(Queued("steer"))
  BY <1>3, DrainType
<1>5. /\ Drained(FollowUpMode, followUpQueue) \in Seq(Queued("followUp"))
      /\ Remaining(FollowUpMode, followUpQueue) \in Seq(Queued("followUp"))
  BY <1>3, DrainType
<1>6. QED BY <1>2, <1>3, <1>4, <1>5

LEMMA PollSteeringStep == ASSUME IInv, PollSteering PROVE IInv'
<1> USE DEF IInv, state, lifecycle, bounds
<1>1. submitted' = submitted
  BY DEF PollSteering
<1>2. /\ pending' = <<>> \/ pending' = Drained(SteeringMode, steeringQueue)
      /\ \/ steeringQueue' = steeringQueue
         \/ steeringQueue' = Remaining(SteeringMode, steeringQueue)
  BY DEF PollSteering
<1>3. <<>> \in Seq(Message)
  OBVIOUS
<1>4. pc' \in {"inject", "stream", "pollLength", "pollFollowUp"}
  BY DEF PollSteering, AfterEmptyPoll
<1>5. TypeInv'
  <2>1. pending' \in Seq(Message)
    BY <1>1, <1>2, <1>3, PollType
  <2>2. steeringQueue' \in Seq(Queued("steer")')
    BY <1>1, <1>2, PollType
  <2>3. followUpQueue' \in Seq(Queued("followUp")')
    BY <1>1, PollType DEF PollSteering
  <2>4. pc' \in Phases /\ skipPoll' \in BOOLEAN
    BY <1>4 DEF Phases, PollSteering
  <2>5. QED BY <2>1, <2>2, <2>3, <2>4 DEF TypeInv, PollSteering
<1>6. PhaseInv'
  BY <1>4 DEF PhaseInv, PollSteering, AfterEmptyPoll
<1>7. LookedInv'
  <2>1. CASE pc' \in {"pollLength", "pollFollowUp"}
    <3>1. pending' = <<>> /\ ~skipPoll
      BY <2>1 DEF PollSteering, PhaseInv
    <3>2. steeringQueue' = <<>>
      <4>1. Drained(SteeringMode, steeringQueue) = <<>>
        BY <3>1 DEF PollSteering
      <4>2. Remaining(SteeringMode, steeringQueue) = <<>>
        BY <4>1, DrainType DEF TypeInv
      <4>3. QED BY <3>1, <4>2 DEF PollSteering
    <3>3. QED BY <2>1, <3>2 DEF LookedInv, Elements
  <2>2. CASE pc' \in {"inject", "stream"}
    BY <2>2 DEF LookedInv
  <2>3. QED BY <1>4, <2>1, <2>2
<1>8. TranscriptInv'
  BY <1>4 DEF TranscriptInv, PollSteering, Phases
<1>9. QED BY <1>5, <1>6, <1>7, <1>8

LEMMA StartThrowsStep == ASSUME IInv, StartThrows PROVE IInv'
<1> USE DEF IInv, StartThrows, state, queues, lifecycle
<1>1. /\ steeringQueue' \in Seq(Queued("steer")')
      /\ followUpQueue' \in Seq(Queued("followUp")')
  BY QueuesKeepType
<1>2. TypeInv'
  BY <1>1, ThrowType DEF TypeInv
<1>3. PhaseInv' /\ LookedInv' /\ TranscriptInv'
  BY FailingInv DEF PhaseInv, Throw
<1>4. QED BY <1>2, <1>3

LEMMA PollLengthStep == ASSUME IInv, PollLength PROVE IInv'
<1> USE DEF IInv, state, lifecycle, bounds
<1>1. submitted' = submitted
  BY DEF PollLength
<1>2. pending' \in {<<ContinueMessage>>, Drained(FollowUpMode, followUpQueue)}
  BY DEF PollLength
<1>3. pc' \in {"inject", "pollFollowUp"}
  BY DEF PollLength
<1>4. TypeInv'
  <2>1. <<ContinueMessage>> \in Seq(Message)
    BY MessagesAreMessages
  <2>2. pending' \in Seq(Message)
    BY <1>1, <1>2, <2>1, PollType
  <2>3. followUpQueue' \in Seq(Queued("followUp")')
    BY <1>1, PollType DEF PollLength
  <2>4. steeringQueue' \in Seq(Queued("steer")')
    BY <1>1, PollType DEF PollLength
  <2>5. pc' \in Phases
    BY <1>3 DEF Phases
  <2>6. QED BY <2>2, <2>3, <2>4, <2>5 DEF TypeInv, PollLength
<1>5. PhaseInv'
  BY <1>3 DEF PhaseInv, PollLength
<1>6. LookedInv'
  <2>1. \A m \in Elements(steeringQueue) : m \notin Elements(followUpQueue)
    <3>1. Elements(steeringQueue) \subseteq Queued("steer")
      BY DEF TypeInv, Elements
    <3>2. Elements(followUpQueue) \subseteq Queued("followUp")
      BY DEF TypeInv, Elements
    <3>3. QED BY <3>1, <3>2 DEF Queued, User
  <2>2. QED BY <1>3, <2>1 DEF LookedInv, PollLength
<1>7. TranscriptInv'
  BY <1>3 DEF TranscriptInv, PollLength, Phases
<1>8. QED BY <1>4, <1>5, <1>6, <1>7

LEMMA PollFollowUpStep == ASSUME IInv, PollFollowUp PROVE IInv'
<1> USE DEF IInv, state, lifecycle, bounds
<1>1. submitted' = submitted
  BY DEF PollFollowUp
<1>2. pc' \in {"inject", "agentEnd"}
  BY DEF PollFollowUp
<1>3. TypeInv'
  <2>1. pending' \in Seq(Message)
    BY <1>1, PollType DEF PollFollowUp
  <2>2. followUpQueue' \in Seq(Queued("followUp")')
    BY <1>1, PollType DEF PollFollowUp
  <2>3. steeringQueue' \in Seq(Queued("steer")')
    BY <1>1, PollType DEF PollFollowUp
  <2>4. pc' \in Phases
    BY <1>2 DEF Phases
  <2>5. QED BY <2>1, <2>2, <2>3, <2>4 DEF TypeInv, PollFollowUp
<1>4. PhaseInv'
  BY <1>2 DEF PhaseInv, PollFollowUp
<1>5. LookedInv'
  <2>1. CASE pending' = <<>>
    <3>1. followUpQueue = <<>> /\ followUpQueue' = <<>>
      BY <2>1, DrainType DEF PollFollowUp, TypeInv
    <3>2. Elements(followUpQueue) = {} /\ Elements(followUpQueue)' = {}
      BY <3>1 DEF Elements
    <3>3. Elements(steeringQueue)' \subseteq unpolled'
      BY <3>2 DEF LookedInv, PollFollowUp
    <3>4. QED BY <1>2, <3>2, <3>3 DEF LookedInv
  <2>2. CASE pending' /= <<>>
    BY <2>2 DEF LookedInv, PollFollowUp
  <2>3. QED BY <2>1, <2>2
<1>6. TranscriptInv'
  BY <1>2 DEF TranscriptInv, PollFollowUp, Phases
<1>7. QED BY <1>3, <1>4, <1>5, <1>6

LEMMA StreamReplyStep == ASSUME IInv, StreamReply PROVE IInv'
<1> USE DEF IInv, queues, lifecycle, loop
<1>1. /\ steeringQueue' \in Seq(Queued("steer")')
      /\ followUpQueue' \in Seq(Queued("followUp")')
  BY QueuesKeepType DEF StreamReply
<1>2. CASE Throw(<<>>)
  <2>1. TypeInv'
    BY <1>1, <1>2, ThrowType DEF TypeInv, StreamReply
  <2>2. PhaseInv' /\ LookedInv' /\ TranscriptInv'
    BY <1>2, FailingInv DEF PhaseInv, Throw, StreamReply
  <2>3. QED BY <2>1, <2>2
<1>3. CASE UNCHANGED <<pc, loop, throws, discarded>>
  <2>1. TypeInv'
    BY <1>1, <1>3 DEF TypeInv, StreamReply
  <2>2. PhaseInv' /\ LookedInv' /\ TranscriptInv'
    BY <1>3 DEF PhaseInv, LookedInv, TranscriptInv, HasFatalReply, StreamReply
  <2>3. QED BY <2>1, <2>2
<1>4. QED BY <1>2, <1>3 DEF StreamReply

LEMMA EndReplyStep ==
  ASSUME IInv, NEW stop \in StopReasons, NEW n \in 0..MaxCalls, EndReply(stop, n)
  PROVE  IInv'
<1> DEFINE m == Assistant(turn', stop, n)
<1> USE DEF IInv, queues, lifecycle
<1>1. turn' \in Nat /\ n \in Nat
  <2>1. turn \in Nat
    BY DEF TypeInv
  <2>2. turn' = turn + 1
    BY DEF EndReply
  <2> HIDE DEF IInv
  <2>q. QED
    BY <2>1, <2>2, BoundAssumption
<1>2. m \in AssistantMessage /\ m \in Message /\ m.role = "assistant" /\ m.stop = stop
      /\ m.calls = n
  BY <1>1, MessagesAreMessages DEF Assistant
<1> HIDE DEF m
<1>3. /\ steeringQueue' \in Seq(Queued("steer")')
      /\ followUpQueue' \in Seq(Queued("followUp")')
  BY QueuesKeepType DEF EndReply
<1>4. messages' = Append(messages, m) /\ messages' \in Seq(Message)
  <2>1. messages' = Append(messages, m)
    BY DEF EndReply, m
  <2>2. QED BY <1>2, <2>1 DEF TypeInv
<1>5. CASE Throw(<<>>)
  <2>1. TypeInv'
    BY <1>1, <1>3, <1>4, <1>5, ThrowType DEF TypeInv, EndReply
  <2>2. PhaseInv' /\ LookedInv' /\ TranscriptInv'
    BY <1>5, FailingInv DEF PhaseInv, Throw, EndReply
  <2>3. QED BY <2>1, <2>2
<1>6. CASE ~Throw(<<>>)
  <2>1. /\ context' = Append(context, m) /\ newMessages' = Append(newMessages, m)
        /\ hasMore' = FALSE
        /\ UNCHANGED <<pending, skipPoll, throws, before, detached>>
    BY <1>6 DEF EndReply, m
  <2>2. /\ pc = "stream"
        /\ pc' = CASE stop \in {"error", "aborted"} -> "fatal"
                   [] stop \in {"stop", "length"} /\ n > 0 -> "tools"
                   [] stop \in {"stop", "length"} /\ n = 0 -> "turnEnd"
    BY <1>6 DEF EndReply
  <2>3. /\ pc' \in {"fatal", "tools", "turnEnd"}
        /\ pc' = "fatal" => stop \in {"error", "aborted"}
    BY <1>1, <2>2 DEF StopReasons
  <2>4. context' \in Seq(Message) /\ newMessages' \in Seq(Message)
    BY <1>2, <2>1 DEF TypeInv
  <2>5. TypeInv'
    BY <1>1, <1>3, <1>4, <2>1, <2>3, <2>4 DEF TypeInv, EndReply, Phases
  <2>6. PhaseInv'
    <3>1. /\ pc = "stream" /\ streaming' = FALSE
          /\ UNCHANGED <<active, isStreaming, detached, pending, skipPoll>>
      BY <2>1 DEF EndReply
    <3>2. QED BY <2>3, <3>1 DEF PhaseInv
  <2>7. LookedInv'
    <3>1. context' /= <<>> /\ LastOf(context') = m
      BY <1>2, <2>1, LastOfAppend DEF TypeInv
    <3>2. QED BY <1>2, <2>3, <3>1 DEF LookedInv, HasFatalReply
  <2>8. TranscriptInv'
    <3>1. before \o newMessages' = Append(before \o newMessages, m)
      BY <1>2, <2>1, GrowTranscript DEF TypeInv
    <3>2. ~detached => messages = context /\ messages = before \o newMessages
      BY <2>2 DEF TranscriptInv, Phases
    <3>3. ~detached => messages' = context' /\ messages' = before \o newMessages'
      BY <1>4, <2>1, <3>1, <3>2
    <3>4. QED BY <2>1, <2>3, <3>3 DEF TranscriptInv
  <2>9. QED BY <2>5, <2>6, <2>7, <2>8
<1>7. QED BY <1>5, <1>6

LEMMA RunToolsStep == ASSUME IInv, RunTools PROVE IInv'
<1> DEFINE reply == LastOf(context)
           Results(k) == [i \in 1..k |-> ToolResult(reply.turn, i)]
<1> USE DEF IInv, queues, lifecycle
<1>1. /\ pc = "tools" /\ reply \in AssistantMessage
      /\ reply.turn \in Nat /\ reply.calls \in Nat
  BY DEF LookedInv, RunTools, AssistantMessage
<1>2. ASSUME NEW k \in Nat PROVE Results(k) \in Seq(Message)
  <2>1. \A i \in 1..k : ToolResult(reply.turn, i) \in Message
    BY <1>1, MessagesAreMessages
  <2>2. QED BY <2>1
<1> HIDE DEF Results
<1>3. /\ steeringQueue' \in Seq(Queued("steer")')
      /\ followUpQueue' \in Seq(Queued("followUp")')
  BY QueuesKeepType DEF RunTools
<1>4. CASE Throw(<<>>)
  <2>1. PICK k \in Nat : messages' = messages \o Results(k)
    <3>1. \A o \in BatchOutcomes(reply.calls, reply.stop = "length", aborted) :
             o.answered \in Nat
      BY DEF BatchOutcomes
    <3>2. \A k \in 0..reply.calls : k \in Nat
      BY <1>1
    <3>3. QED BY <3>1, <3>2 DEF RunTools, Results
  <2>2. messages' \in Seq(Message)
    BY <1>2, <2>1 DEF TypeInv
  <2>3. TypeInv'
    BY <1>3, <1>4, <2>2, ThrowType DEF TypeInv, RunTools
  <2>4. PhaseInv' /\ LookedInv' /\ TranscriptInv'
    BY <1>4, FailingInv DEF PhaseInv, Throw, RunTools
  <2>5. QED BY <2>3, <2>4
<1>5. CASE ~Throw(<<>>)
  <2>1. PICK o \in BatchOutcomes(reply.calls, reply.stop = "length", aborted) :
          /\ messages' = messages \o Results(o.answered)
          /\ context' = context \o Results(o.answered)
          /\ newMessages' = newMessages \o Results(o.answered)
          /\ hasMore' = ~o.terminate
          /\ pc' = "turnEnd"
          /\ UNCHANGED <<pending, skipPoll, throws, discarded>>
    BY <1>5 DEF RunTools, Results
  <2>2. Results(o.answered) \in Seq(Message)
    <3>1. o.answered \in Nat
      BY DEF BatchOutcomes
    <3>2. QED BY <1>2, <3>1
  <2>3. messages' \in Seq(Message) /\ context' \in Seq(Message) /\ newMessages' \in Seq(Message)
    BY <2>1, <2>2 DEF TypeInv
  <2>4. TypeInv'
    BY <1>3, <2>1, <2>3 DEF TypeInv, RunTools, Phases, BatchOutcomes
  <2>5. PhaseInv' /\ LookedInv'
    BY <1>1, <2>1 DEF PhaseInv, LookedInv, RunTools
  <2>6. TranscriptInv'
    <3>1. before \o newMessages' = (before \o newMessages) \o Results(o.answered)
      BY <2>1, <2>2, GrowTranscript DEF TypeInv
    <3>2. ~detached => messages = context /\ messages = before \o newMessages
      BY <1>1 DEF TranscriptInv, Phases
    <3>3. UNCHANGED <<before, detached>> /\ pc' = "turnEnd"
      BY <2>1 DEF RunTools
    <3>4. QED BY <2>1, <3>1, <3>2, <3>3 DEF TranscriptInv
  <2>7. QED BY <2>4, <2>5, <2>6
<1>6. QED BY <1>4, <1>5

LEMMA EndTurnStep == ASSUME IInv, EndTurn PROVE IInv'
<1> USE DEF IInv, state, queues, lifecycle, loop
<1>1. /\ steeringQueue' \in Seq(Queued("steer")')
      /\ followUpQueue' \in Seq(Queued("followUp")')
  BY QueuesKeepType DEF EndTurn
<1>2. CASE Throw(<<>>)
  <2>1. TypeInv'
    BY <1>1, <1>2, ThrowType DEF TypeInv, EndTurn
  <2>2. pc /= "idle"
    BY DEF EndTurn
  <2>3. PhaseInv' /\ LookedInv' /\ TranscriptInv'
    BY <1>2, <2>2, FailingInv DEF PhaseInv, Throw, EndTurn
  <2>4. QED BY <2>1, <2>3
<1>3. CASE /\ UNCHANGED <<loop, throws, discarded>>
           /\ \/ pc = "turnEnd" /\ pc' = "pollSteering"
              \/ pc = "fatal" /\ pc' = "agentEnd"
  <2>1. TypeInv'
    BY <1>1, <1>3 DEF TypeInv, EndTurn, Phases
  <2>2. PhaseInv' /\ LookedInv' /\ TranscriptInv'
    BY <1>3 DEF PhaseInv, LookedInv, TranscriptInv, HasFatalReply, EndTurn, Phases
  <2>3. QED BY <2>1, <2>2
<1>4. QED BY <1>2, <1>3 DEF EndTurn

(* What finishRun leaves, whatever the transcript is.                       *)
LEMMA FinishRunStep ==
  ASSUME IInv, FinishRun, messages' \in Seq(Message), throws' \in 0..MaxThrows,
         UNCHANGED <<queues, submitted, turn, clears>>
  PROVE  IInv'
<1> USE DEF IInv, queues
<1>1. /\ steeringQueue' \in Seq(Queued("steer")')
      /\ followUpQueue' \in Seq(Queued("followUp")')
  BY QueuesKeepType
<1>2. <<>> \in Seq(Message)
  OBVIOUS
<1>3. TypeInv'
  BY <1>1, <1>2 DEF TypeInv, FinishRun, SettleState, Phases
<1>4. PhaseInv' /\ LookedInv' /\ TranscriptInv'
  BY DEF PhaseInv, LookedInv, TranscriptInv, FinishRun, SettleState
<1>5. QED BY <1>3, <1>4

LEMMA EndRunStep == ASSUME IInv, EndRun PROVE IInv'
<1>1. CASE FinishRun /\ UNCHANGED <<messages, throws, discarded>>
  BY <1>1, FinishRunStep DEF EndRun, IInv, TypeInv
<1>2. CASE Throw(<<>>) /\ ended' = TRUE /\ streaming' = FALSE
           /\ UNCHANGED <<messages, isStreaming, lifecycle, before, detached>>
  <2>1. /\ steeringQueue' \in Seq(Queued("steer")')
        /\ followUpQueue' \in Seq(Queued("followUp")')
    BY QueuesKeepType DEF EndRun, IInv, queues
  <2>2. TypeInv'
    BY <1>2, <2>1, ThrowType DEF TypeInv, EndRun, IInv, lifecycle
  <2>3. PhaseInv' /\ LookedInv' /\ TranscriptInv'
    BY <1>2, FailingInv DEF IInv, PhaseInv, Throw, EndRun, lifecycle
  <2>4. QED BY <2>2, <2>3 DEF IInv
<1>3. QED BY <1>1, <1>2 DEF EndRun

LEMMA HandleRunFailureStep == ASSUME IInv, HandleRunFailure PROVE IInv'
<1>1. messages' \in {messages, Append(messages, FailureMessage)}
  BY DEF HandleRunFailure
<1>2. messages' \in Seq(Message)
  <2>1. messages \in Seq(Message) /\ FailureMessage \in Message
    BY MessagesAreMessages DEF IInv, TypeInv
  <2>2. Append(messages, FailureMessage) \in Seq(Message)
    BY <2>1
  <2>3. QED BY <1>1, <2>1, <2>2
<1>3. throws' \in 0..MaxThrows
  BY BoundAssumption DEF HandleRunFailure, IInv, TypeInv
<1>4. QED BY <1>2, <1>3, FinishRunStep DEF HandleRunFailure

-----------------------------------------------------------------------------
(* The theorems.                                                            *)

LEMMA NextIInv == IInv /\ [Next]_vars => IInv'
<1> SUFFICES ASSUME IInv, [Next]_vars PROVE IInv'
  OBVIOUS
<1>1. CASE Caller
  BY <1>1, SteerStep, FollowUpStep, ClearStep, AbortStep, ResetStep, PromptStep,
     ContinueStep DEF Caller
<1>2. CASE RunLoop
  BY <1>2, EmitPromptStep, InjectStep, StartThrowsStep, PollSteeringStep, PollLengthStep,
     PollFollowUpStep, StreamReplyStep, EndReplyStep, RunToolsStep, EndTurnStep,
     EndRunStep, HandleRunFailureStep DEF RunLoop
<1>3. CASE UNCHANGED vars
  <2>1. UNCHANGED <<messages, isStreaming, streaming, steeringQueue, followUpQueue,
                    active, aborted, pc, pending, skipPoll, context, newMessages,
                    hasMore, submitted, turn, throws, clears, before, detached,
                    unpolled, ended>>
    BY <1>3 DEF vars, state, queues, lifecycle, loop, bounds, history
  <2>2. Queued("steer")' = Queued("steer") /\ Queued("followUp")' = Queued("followUp")
    BY <2>1, QueuedSame
  <2>3. QED
    BY <2>1, <2>2, SMTT(20) DEF IInv, TypeInv, PhaseInv, LookedInv, TranscriptInv, HasFatalReply
<1>4. QED BY <1>1, <1>2, <1>3 DEF Next

(* The inductive invariant of a run holds in every reachable state.         *)
THEOREM Invariance == Spec => []IInv
BY InitIInv, NextIInv, PTL DEF Spec

(* Every variable keeps its type, and a queue holds only messages that were *)
(* handed to it (agent.ts: steer, followUp, drain).                         *)
THEOREM TypeCorrect == Spec => []TypeOK
<1>1. ASSUME TypeInv PROVE TypeOK
  <2>1. /\ Elements(steeringQueue) \subseteq Queued("steer")
        /\ Elements(followUpQueue) \subseteq Queued("followUp")
    BY <1>1 DEF TypeInv, Elements
  <2>2. QED BY <1>1, <2>1 DEF TypeInv, TypeOK, Queued
<1>2. IInv => TypeOK
  BY <1>1 DEF IInv
<1>3. QED BY <1>2, Invariance, PTL

(* An agent without a run shows no stream and holds no message it has taken *)
(* and not emitted; one whose run was not reset says that it streams        *)
(* (agent.ts: runWithLifecycle, finishRun, reset).                          *)
THEOREM IdleAgentIsQuiet == Spec => []IdleIsQuiet
<1>1. IInv => IdleIsQuiet
  BY DEF IInv, PhaseInv, IdleIsQuiet
<1>2. QED BY <1>1, Invariance, PTL

(* A run that ends of itself leaves nothing in a queue that was there when  *)
(* it last looked (agent-loop.ts: the outer loop of runLoop).               *)
THEOREM QueuesAreServed == Spec => []NothingLeftBehind
<1>1. IInv => NothingLeftBehind
  BY DEF IInv, LookedInv, HasFatalReply, NothingLeftBehind, EndedOfItself
<1>2. QED BY <1>1, Invariance, PTL

------------------------------------------------------------------------------
(* The messages: the invariant.                                             *)

IsUser(m) == m.role = "user" /\ m.kind \in Kinds
Older(a, b) == IsUser(a) /\ IsUser(b) /\ a.kind = b.kind => a.id < b.id
Sorted(s) == \A i, j \in DOMAIN s : i < j => Older(s[i], s[j])
Precedes(s, t) == \A a \in Elements(s), b \in Elements(t) : Older(a, b)

(* From the transcript to the end of each queue, older messages come first. *)
OrderInv ==
  /\ Sorted(messages) /\ Sorted(pending) /\ Sorted(steeringQueue) /\ Sorted(followUpQueue)
  /\ Precedes(messages, pending)
  /\ Precedes(messages, steeringQueue) /\ Precedes(messages, followUpQueue)
  /\ Precedes(pending, steeringQueue) /\ Precedes(pending, followUpQueue)

Held ==
  Elements(messages) \union Elements(pending)
    \union Elements(steeringQueue) \union Elements(followUpQueue)
Seen == discarded \union Held

(* Every number was handed over once, as one kind of message, and what was  *)
(* dropped is nowhere else.                                                 *)
OnceInv ==
  /\ \A m \in Seen : IsUser(m) => m.id \in 1..submitted
  /\ \A m \in discarded : IsUser(m) => m \notin Held
  /\ \A i \in 1..submitted : \E k \in Kinds : \A j \in Kinds : User(j, i) \in Seen <=> j = k

(* Only user messages wait to be emitted.                                   *)
PendingInv == \A m \in Elements(pending) : m.role = "user"

(* What hasMoreToolCalls says of the last reply after a turn.               *)
HasMoreInv ==
  /\ pc \in {"turnEnd", "pollSteering"} =>
       /\ context /= <<>>
       /\ LastOf(context).role = "assistant" /\ LastOf(context).calls = 0 => ~hasMore
  /\ pc \in {"pollLength", "pollFollowUp"} => ~hasMore

(* The reply at p has its results, or failed, or its batch was cut short;   *)
(* in a settled sequence all replies but the last n messages are done.      *)
Done(s, p, u) ==
  s[p].role = "assistant" /\ s[p].stop \in {"stop", "length"} =>
    CallsAnswered(s, p) \/ s[p].turn \in u
Settled(s, u, n) == \A p \in 1..Len(s) - n : Done(s, p, u)
Closed(m, u) ==
  m.role = "assistant" /\ m.stop \in {"stop", "length"} => m.calls = 0 \/ m.turn \in u
Placed(s) == \A q \in DOMAIN s : s[q].role = "toolResult" => BehindItsCall(s, q)

(* What the model is shown, now in the context and later in the transcript: *)
(* while its tools run, the calls of the last reply are open.               *)
Open == IF pc = "tools" THEN 1 ELSE 0
ShownInv ==
  /\ Settled(messages, unanswered, Open) /\ Settled(context, unanswered, Open)
  /\ torn \/ (Placed(messages) /\ Placed(context))
  /\ pc = "tools" /\ messages /= <<>> => LastOf(messages) = LastOf(context)
  /\ detached => torn
  /\ pc = "idle" => context = <<>>

(* The transcript, whether or not it was reset, is the end of the context,  *)
(* short of the prompts still to emit.                                      *)
Rest == IF pc = "prompts" THEN pending ELSE <<>>
SuffixInv ==
  pc \notin {"idle", "failing"} => \E x \in Seq(Message) : context = (x \o messages) \o Rest

MInv == OrderInv /\ OnceInv /\ PendingInv /\ HasMoreInv /\ ShownInv /\ SuffixInv

------------------------------------------------------------------------------
(* Sequences of messages.                                                   *)

(* What is elsewhere in a sequence, and the elements of longer ones.        *)
LEMMA ElementsOfConcat ==
  ASSUME NEW S, NEW s \in Seq(S), NEW t \in Seq(S)
  PROVE  Elements(s \o t) = Elements(s) \union Elements(t)
<1>1. /\ Len(s) \in Nat /\ Len(t) \in Nat /\ DOMAIN s = 1..Len(s) /\ DOMAIN t = 1..Len(t)
      /\ DOMAIN (s \o t) = 1..Len(s) + Len(t)
      /\ \A i \in 1..Len(s) : (s \o t)[i] = s[i]
      /\ \A i \in 1..Len(s) + Len(t) : i > Len(s) => (s \o t)[i] = t[i - Len(s)]
  OBVIOUS
<1>2. \A i \in 1..Len(t) : i + Len(s) \in 1..Len(s) + Len(t) /\ (s \o t)[i + Len(s)] = t[i]
  BY <1>1
<1>3. Elements(s \o t) \subseteq Elements(s) \union Elements(t)
  BY <1>1 DEF Elements
<1>4. Elements(s) \subseteq Elements(s \o t)
  BY <1>1 DEF Elements
<1>5. Elements(t) \subseteq Elements(s \o t)
  <2> SUFFICES ASSUME NEW i \in DOMAIN t PROVE t[i] \in Elements(s \o t)
    BY DEF Elements
  <2>q. QED
    BY <1>1, <1>2 DEF Elements
<1>q. QED
  BY <1>3, <1>4, <1>5

(* A sequence of sorted parts, the first before the second, is sorted.      *)
LEMMA SortedConcat ==
  ASSUME NEW S, NEW s \in Seq(S), NEW t \in Seq(S), Sorted(s), Sorted(t), Precedes(s, t)
  PROVE  Sorted(s \o t)
<1>1. /\ Len(s) \in Nat /\ Len(t) \in Nat /\ DOMAIN s = 1..Len(s) /\ DOMAIN t = 1..Len(t)
      /\ DOMAIN (s \o t) = 1..Len(s) + Len(t)
      /\ \A i \in 1..Len(s) : (s \o t)[i] = s[i]
      /\ \A i \in 1..Len(s) + Len(t) : i > Len(s) =>
           i - Len(s) \in DOMAIN t /\ (s \o t)[i] = t[i - Len(s)]
  OBVIOUS
<1> SUFFICES ASSUME NEW i \in 1..Len(s) + Len(t), NEW j \in 1..Len(s) + Len(t), i < j
             PROVE  Older((s \o t)[i], (s \o t)[j])
  BY <1>1 DEF Sorted
<1>2. CASE j <= Len(s)
  BY <1>1, <1>2 DEF Sorted
<1>3. CASE i > Len(s)
  BY <1>1, <1>3 DEF Sorted
<1>4. CASE i <= Len(s) /\ j > Len(s)
  <2>1. s[i] \in Elements(s) /\ t[j - Len(s)] \in Elements(t)
    BY <1>1, <1>4 DEF Elements
  <2>q. QED
    BY <1>1, <1>4, <2>1 DEF Precedes
<1>q. QED
  BY <1>1, <1>2, <1>3, <1>4

(* Nothing, and one message, is sorted; what is no user message has no      *)
(* place in the order.                                                      *)
LEMMA Unordered ==
  /\ Elements(<<>>) = {} /\ Sorted(<<>>)
  /\ \A m : Elements(<<m>>) = {m} /\ Sorted(<<m>>)
  /\ \A a, b : ~IsUser(a) \/ ~IsUser(b) => Older(a, b)
  /\ \A a : IsUser(a) /\ a.id \in Nat => ~Older(a, a)
BY DEF Elements, Sorted, Older

(* A message at the end that all others are older than.                     *)
LEMMA SortedAppend ==
  ASSUME NEW S, NEW s \in Seq(S), NEW m \in S, Sorted(s), \A a \in Elements(s) : Older(a, m)
  PROVE  Sorted(Append(s, m))
<1>1. Append(s, m) = s \o <<m>> /\ <<m>> \in Seq(S)
  OBVIOUS
<1>2. Elements(<<m>>) = {m} /\ Sorted(<<m>>)
  BY Unordered
<1>3. Precedes(s, <<m>>)
  BY <1>2 DEF Precedes
<1>4. Sorted(s \o <<m>>)
  BY <1>1, <1>2, <1>3, SortedConcat
<1>q. QED
  BY <1>1, <1>4

(* The rest of a sorted sequence is sorted, and comes after its head.       *)
LEMMA SortedTail ==
  ASSUME NEW S, NEW s \in Seq(S), s /= <<>>
  PROVE  /\ Elements(s) = {Head(s)} \union Elements(Tail(s))
         /\ Sorted(s) => Sorted(Tail(s)) /\ \A b \in Elements(Tail(s)) : Older(Head(s), b)
<1>1. /\ Len(s) \in Nat \ {0} /\ Head(s) = s[1] /\ DOMAIN s = 1..Len(s)
      /\ DOMAIN Tail(s) = 1..Len(s) - 1 /\ \A i \in 1..Len(s) - 1 : Tail(s)[i] = s[i + 1]
  OBVIOUS
<1>2. Elements(s) = {Head(s)} \union Elements(Tail(s))
  <2>1. Elements(Tail(s)) \subseteq Elements(s) /\ Head(s) \in Elements(s)
    <3>1. Head(s) \in Elements(s)
      BY <1>1 DEF Elements
    <3>2. \A i \in 1..Len(s) - 1 : i + 1 \in DOMAIN s
      BY <1>1
    <3>3. Elements(Tail(s)) \subseteq Elements(s)
      BY <1>1, <3>2 DEF Elements
    <3>q. QED
      BY <3>1, <3>3
  <2>2. ASSUME NEW i \in DOMAIN s PROVE s[i] \in {Head(s)} \union Elements(Tail(s))
    <3>1. CASE i = 1
      BY <1>1, <3>1
    <3>2. CASE i # 1
      <4>1. i - 1 \in DOMAIN Tail(s) /\ Tail(s)[i - 1] = s[i]
        BY <1>1, <3>2
      <4>q. QED
        BY <4>1 DEF Elements
    <3>q. QED
      BY <3>1, <3>2
  <2>q. QED
    BY <2>1, <2>2 DEF Elements
<1>3. ASSUME Sorted(s) PROVE Sorted(Tail(s))
  BY <1>1, <1>3 DEF Sorted
<1>4. ASSUME Sorted(s), NEW b \in Elements(Tail(s)) PROVE Older(Head(s), b)
  <2>1. PICK i \in 1..Len(s) - 1 : b = s[i + 1]
    BY <1>1 DEF Elements
  <2>2. 1 < i + 1 /\ i + 1 \in DOMAIN s /\ 1 \in DOMAIN s
    BY <1>1
  <2>q. QED
    BY <1>1, <1>4, <2>1, <2>2 DEF Sorted
<1>q. QED
  BY <1>2, <1>3, <1>4

(* A drained queue is split, and the part taken is the older one.           *)
LEMMA DrainSplits ==
  ASSUME NEW S, NEW q \in Seq(S), NEW mode
  PROVE  LET got == Drained(mode, q)
             left == Remaining(mode, q)
         IN /\ Elements(q) = Elements(got) \union Elements(left)
            /\ Sorted(q) => Sorted(got) /\ Sorted(left) /\ Precedes(got, left)
<1>1. CASE mode = "all" \/ q = <<>>
  <2>1. Drained(mode, q) = q /\ Remaining(mode, q) = <<>>
    BY <1>1 DEF Drained, Remaining
  <2>q. QED
    BY <2>1, Unordered DEF Precedes
<1>2. CASE ~(mode = "all" \/ q = <<>>)
  <2>1. Drained(mode, q) = <<Head(q)>> /\ Remaining(mode, q) = Tail(q) /\ q /= <<>>
    BY <1>2 DEF Drained, Remaining
  <2>q. QED
    BY <2>1, Unordered, SortedTail DEF Precedes
<1>q. QED
  BY <1>1, <1>2

------------------------------------------------------------------------------
(* What steps do to the order and the places of the messages.               *)

(* Where the messages are, and what those in a queue are.                   *)
LEMMA Waiting ==
  ASSUME IInv
  PROVE  /\ messages \in Seq(Message) /\ pending \in Seq(Message) /\ submitted \in Nat
         /\ steeringQueue \in Seq(Message) /\ followUpQueue \in Seq(Message)
         /\ \A m \in Elements(steeringQueue) : IsUser(m) /\ m.kind = "steer"
         /\ \A m \in Elements(followUpQueue) : IsUser(m) /\ m.kind = "followUp"
<1>1. submitted \in Nat
  BY BoundAssumption DEF IInv, TypeInv
<1>2. Queued("steer") \subseteq Message /\ Queued("followUp") \subseteq Message
  BY <1>1, MessagesAreMessages DEF Queued, Kinds
<1>3. steeringQueue \in Seq(Queued("steer")) /\ followUpQueue \in Seq(Queued("followUp"))
  BY DEF IInv, TypeInv
<1>4. /\ Elements(steeringQueue) \subseteq Queued("steer")
      /\ Elements(followUpQueue) \subseteq Queued("followUp")
  BY <1>3 DEF Elements
<1>5. /\ \A m \in Queued("steer") : IsUser(m) /\ m.kind = "steer"
      /\ \A m \in Queued("followUp") : IsUser(m) /\ m.kind = "followUp"
  BY DEF Queued, User, IsUser, Kinds
<1>6. steeringQueue \in Seq(Message) /\ followUpQueue \in Seq(Message)
  BY <1>2, <1>3
<1>7. messages \in Seq(Message) /\ pending \in Seq(Message)
  BY DEF IInv, TypeInv
<1>q. QED
  BY <1>1, <1>4, <1>5, <1>6, <1>7

(* A user message is in one place only.                                     *)
LEMMA Apart ==
  ASSUME IInv, OrderInv, OnceInv, NEW m, IsUser(m)
  PROVE  /\ m \in Elements(messages) =>
              /\ m \notin Elements(pending)
              /\ m \notin Elements(steeringQueue) /\ m \notin Elements(followUpQueue)
         /\ m \in Elements(pending) =>
              m \notin Elements(steeringQueue) /\ m \notin Elements(followUpQueue)
         /\ m \in Elements(steeringQueue) => m \notin Elements(followUpQueue)
         /\ pending /= <<>> /\ m = Head(pending) => m \notin Elements(Tail(pending))
         /\ m \in discarded => m \notin Held
<1>1. m \in Held => m.id \in Nat
  BY Waiting DEF OnceInv, Seen
<1>2. m \in Held => ~Older(m, m)
  BY <1>1, Unordered
<1>3. \A a, b : Precedes(a, b) /\ m \in Elements(a) /\ m \in Elements(b) => Older(m, m)
  BY DEF Precedes
<1>4. m \in Elements(steeringQueue) => m \notin Elements(followUpQueue)
  BY Waiting
<1>5. pending /= <<>> /\ m = Head(pending) => m \notin Elements(Tail(pending))
  <2>1. pending /= <<>> /\ m = Head(pending) => m \in Held
    BY SortedTail, Waiting DEF Held
  <2>2. pending /= <<>> /\ m = Head(pending) /\ m \in Elements(Tail(pending)) => Older(m, m)
    BY SortedTail, Waiting DEF OrderInv
  <2>q. QED
    BY <1>2, <2>1, <2>2
<1>6. /\ m \in Elements(messages) =>
           /\ m \notin Elements(pending)
           /\ m \notin Elements(steeringQueue) /\ m \notin Elements(followUpQueue)
      /\ m \in Elements(pending) =>
           m \notin Elements(steeringQueue) /\ m \notin Elements(followUpQueue)
  BY <1>2, <1>3 DEF OrderInv, Held
<1>q. QED
  BY <1>4, <1>5, <1>6 DEF OnceInv

(* Nothing new is handed over, and every user message is still somewhere.   *)
LEMMA OnceKept ==
  ASSUME OnceInv, submitted' = submitted,
         \A m : IsUser(m) => (m \in Seen' <=> m \in Seen),
         \A m \in discarded' : IsUser(m) => m \notin Held'
  PROVE  OnceInv'
<1>1. \A k \in Kinds : \A i : IsUser(User(k, i))
  BY DEF IsUser, User
<1>q. QED
  BY <1>1 DEF OnceInv

(* A message is handed over.                                                *)
LEMMA OnceMore ==
  ASSUME OnceInv, submitted \in Nat, submitted' = submitted + 1, NEW k \in Kinds,
         discarded' = discarded, Held' = Held \union {User(k, submitted')}
  PROVE  OnceInv'
<1> DEFINE new == User(k, submitted + 1)
<1>1. new = User(k, submitted') /\ IsUser(new) /\ new.id = submitted + 1
  BY DEF User, IsUser
<1>2. \A j \in Kinds : \A i : IsUser(User(j, i)) /\ User(j, i).id = i /\ User(j, i).kind = j
  BY DEF User, IsUser
<1>3. Seen' = Seen \union {new}
  BY <1>1 DEF Seen
<1>4. \A m \in Seen : IsUser(m) => m.id # submitted + 1
  BY DEF OnceInv
<1> HIDE DEF new
<1>5. \A m \in Seen' : IsUser(m) => m.id \in 1..submitted'
  BY <1>1, <1>3 DEF OnceInv
<1>6. \A m \in discarded' : IsUser(m) => m \notin Held'
  BY <1>1, <1>4 DEF OnceInv, Seen
<1>7. ASSUME NEW i \in 1..submitted'
      PROVE  \E l \in Kinds : \A j \in Kinds : User(j, i) \in Seen' <=> j = l
  <2>1. CASE i = submitted + 1
    <3>1. \A j \in Kinds : User(j, i) \in Seen' <=> User(j, i) = new
      BY <1>2, <1>3, <1>4, <2>1
    <3>2. \A j \in Kinds : User(j, i) = new <=> j = k
      BY <1>1, <1>2, <2>1
    <3>q. QED
      BY <3>1, <3>2
  <2>2. CASE i \in 1..submitted
    <3>1. \A j \in Kinds : User(j, i) # new
      BY <1>1, <1>2, <2>2
    <3>2. PICK l \in Kinds : \A j \in Kinds : User(j, i) \in Seen <=> j = l
      BY <2>2 DEF OnceInv
    <3>q. QED
      BY <1>3, <3>1, <3>2
  <2>q. QED
    BY <2>1, <2>2
<1>q. QED
  BY <1>5, <1>6, <1>7 DEF OnceInv

(* A step that at most adds to the transcript what is no user message.      *)
Adds(r) ==
  /\ r \in Seq(Message) /\ \A x \in Elements(r) : ~IsUser(x)
  /\ messages' = messages \o r /\ pending' = pending /\ steeringQueue' = steeringQueue
  /\ followUpQueue' = followUpQueue /\ submitted' = submitted /\ discarded' = discarded
Own == \E r : Adds(r)

LEMMA Added ==
  ASSUME IInv, OrderInv, OnceInv, Own
  PROVE  OrderInv' /\ OnceInv'
<1>0. PICK r \in Seq(Message) :
        /\ \A x \in Elements(r) : ~IsUser(x)
        /\ messages' = messages \o r /\ pending' = pending /\ steeringQueue' = steeringQueue
        /\ followUpQueue' = followUpQueue /\ submitted' = submitted /\ discarded' = discarded
  BY DEF Own, Adds
<1>1. Elements(messages') = Elements(messages) \union Elements(r)
  BY <1>0, Waiting, ElementsOfConcat
<1>2. Sorted(r) /\ \A s : Precedes(s, r) /\ Precedes(r, s)
  <2>1. \A i \in DOMAIN r : ~IsUser(r[i])
    BY <1>0 DEF Elements
  <2>q. QED
    BY <1>0, <2>1, Unordered DEF Sorted, Precedes
<1>3. Sorted(messages')
  BY <1>0, <1>2, Waiting, SortedConcat DEF OrderInv
<1>4. \A s : Precedes(messages, s) => Precedes(messages', s)
  BY <1>1, <1>2 DEF Precedes
<1>5. OrderInv'
  BY <1>0, <1>3, <1>4 DEF OrderInv
<1>6. /\ \A m : IsUser(m) => (m \in Seen' <=> m \in Seen)
      /\ \A m \in discarded' : IsUser(m) => m \notin Held'
  BY <1>0, <1>1 DEF Seen, Held, OnceInv
<1>q. QED
  BY <1>0, <1>5, <1>6, OnceKept

(* A message that is handed over is younger than all before it.             *)
LEMMA Youngest ==
  ASSUME IInv, OrderInv, OnceInv, NEW k \in Kinds, submitted' = submitted + 1
  PROVE  /\ User(k, submitted') \in Message /\ IsUser(User(k, submitted'))
         /\ User(k, submitted').kind = k
         /\ \A a \in Held : Older(a, User(k, submitted'))
<1>1. submitted \in Nat
  BY Waiting
<1>2. User(k, submitted') \in Message
  BY <1>1, MessagesAreMessages
<1>3. /\ IsUser(User(k, submitted')) /\ User(k, submitted').kind = k
      /\ User(k, submitted').id = submitted + 1
  BY DEF IsUser, User
<1>4. \A a \in Held : IsUser(a) => a.id < submitted + 1
  BY <1>1 DEF OnceInv, Seen
<1>q. QED
  BY <1>2, <1>3, <1>4 DEF Older

(* A message enters a queue, or starts a run.                               *)
LEMMA SubmitSteps ==
  ASSUME IInv, OrderInv, OnceInv, Steer \/ FollowUp \/ Prompt
  PROVE  OrderInv' /\ OnceInv'
<1>1. submitted' = submitted + 1 /\ discarded' = discarded /\ messages' = messages
  BY DEF Steer, FollowUp, Prompt, BeginRun, state
<1>2. CASE Steer
  <2> DEFINE m == User("steer", submitted')
  <2>1. /\ pending' = pending /\ followUpQueue' = followUpQueue
        /\ steeringQueue' = Append(steeringQueue, m)
    BY <1>2 DEF Steer, loop
  <2>2. m \in Message /\ \A a \in Held : Older(a, m)
    BY <1>1, Youngest DEF Kinds
  <2>3. Elements(steeringQueue') = Elements(steeringQueue) \union {m}
    BY <2>1, <2>2, Waiting, ElementsOfAppend
  <2>4. Sorted(steeringQueue')
    BY <2>1, <2>2, Waiting, SortedAppend DEF OrderInv, Held
  <2>5. Held' = Held \union {m}
    BY <1>1, <2>1, <2>3 DEF Held
  <2>6. OnceInv'
    BY <1>1, <2>5, OnceMore, Waiting DEF Kinds
  <2>7. Precedes(messages, steeringQueue') /\ Precedes(pending, steeringQueue')
    BY <2>2, <2>3 DEF OrderInv, Precedes, Held
  <2>q. QED
    BY <1>1, <2>1, <2>4, <2>6, <2>7 DEF OrderInv
<1>3. CASE FollowUp
  <2> DEFINE m == User("followUp", submitted')
  <2>1. /\ pending' = pending /\ steeringQueue' = steeringQueue
        /\ followUpQueue' = Append(followUpQueue, m)
    BY <1>3 DEF FollowUp, loop
  <2>2. m \in Message /\ \A a \in Held : Older(a, m)
    BY <1>1, Youngest DEF Kinds
  <2>3. Elements(followUpQueue') = Elements(followUpQueue) \union {m}
    BY <2>1, <2>2, Waiting, ElementsOfAppend
  <2>4. Sorted(followUpQueue')
    BY <2>1, <2>2, Waiting, SortedAppend DEF OrderInv, Held
  <2>5. Held' = Held \union {m}
    BY <1>1, <2>1, <2>3 DEF Held
  <2>6. OnceInv'
    BY <1>1, <2>5, OnceMore, Waiting DEF Kinds
  <2>7. Precedes(messages, followUpQueue') /\ Precedes(pending, followUpQueue')
    BY <2>2, <2>3 DEF OrderInv, Precedes, Held
  <2>q. QED
    BY <1>1, <2>1, <2>4, <2>6, <2>7 DEF OrderInv
<1>4. CASE Prompt
  <2> DEFINE m == User("prompt", submitted')
  <2>1. /\ pending = <<>> /\ pending' = <<m>>
        /\ steeringQueue' = steeringQueue /\ followUpQueue' = followUpQueue
    BY <1>4 DEF Prompt, BeginRun, queues, IInv, PhaseInv
  <2>2. m.kind = "prompt" /\ \A a \in Held : Older(a, m)
    BY <1>1, Youngest DEF Kinds
  <2>3. Elements(pending) = {} /\ Elements(pending') = {m} /\ Sorted(pending')
    BY <2>1, Unordered
  <2>4. Held' = Held \union {m}
    BY <1>1, <2>1, <2>3 DEF Held
  <2>5. OnceInv'
    BY <1>1, <2>4, OnceMore, Waiting DEF Kinds
  <2>6. Precedes(messages, pending')
    BY <2>2, <2>3 DEF Precedes, Held
  <2>7. Precedes(pending', steeringQueue) /\ Precedes(pending', followUpQueue)
    BY <2>2, <2>3, Waiting DEF Precedes, Older
  <2>q. QED
    BY <1>1, <2>1, <2>3, <2>5, <2>6, <2>7 DEF OrderInv
<1>q. QED
  BY <1>2, <1>3, <1>4

(* What is dropped from the queues or from the transcript is remembered.    *)
LEMMA DropSteps ==
  ASSUME IInv, OrderInv, OnceInv, ClearSteeringQueue \/ ClearFollowUpQueue \/ Reset
  PROVE  OrderInv' /\ OnceInv'
<1>1. submitted' = submitted /\ pending' = pending
  BY DEF ClearSteeringQueue, ClearFollowUpQueue, Reset, loop, bounds
<1>2. Elements(<<>>) = {} /\ Sorted(<<>>) /\ \A s : Precedes(s, <<>>) /\ Precedes(<<>>, s)
  BY Unordered DEF Precedes
<1>3. CASE ClearSteeringQueue
  <2>1. /\ steeringQueue' = <<>> /\ followUpQueue' = followUpQueue /\ messages' = messages
        /\ discarded' = discarded \union Elements(steeringQueue)
    BY <1>3 DEF ClearSteeringQueue, state
  <2>2. OrderInv'
    BY <1>1, <1>2, <2>1 DEF OrderInv
  <2>3. \A m : IsUser(m) => (m \in Seen' <=> m \in Seen)
    BY <1>1, <1>2, <2>1 DEF Seen, Held
  <2>4. \A m \in discarded' : IsUser(m) => m \notin Held'
    BY <1>1, <1>2, <2>1, Apart DEF Held
  <2>q. QED
    BY <1>1, <2>2, <2>3, <2>4, OnceKept
<1>4. CASE ClearFollowUpQueue
  <2>1. /\ steeringQueue' = steeringQueue /\ followUpQueue' = <<>> /\ messages' = messages
        /\ discarded' = discarded \union Elements(followUpQueue)
    BY <1>4 DEF ClearFollowUpQueue, state
  <2>2. OrderInv'
    BY <1>1, <1>2, <2>1 DEF OrderInv
  <2>3. \A m : IsUser(m) => (m \in Seen' <=> m \in Seen)
    BY <1>1, <1>2, <2>1 DEF Seen, Held
  <2>4. \A m \in discarded' : IsUser(m) => m \notin Held'
    BY <1>1, <1>2, <2>1, Apart DEF Held
  <2>q. QED
    BY <1>1, <2>2, <2>3, <2>4, OnceKept
<1>5. CASE Reset
  <2>1. /\ steeringQueue' = <<>> /\ followUpQueue' = <<>> /\ messages' = <<>>
        /\ \A m : IsUser(m) =>
             (m \in discarded' <=>
                \/ m \in discarded \/ m \in Elements(messages)
                \/ m \in Elements(steeringQueue) \/ m \in Elements(followUpQueue))
    BY <1>5 DEF Reset, IsUser
  <2>2. OrderInv'
    BY <1>1, <1>2, <2>1 DEF OrderInv
  <2>3. \A m : IsUser(m) => (m \in Seen' <=> m \in Seen)
    BY <1>1, <1>2, <2>1 DEF Seen, Held
  <2>4. \A m \in discarded' : IsUser(m) => m \notin Held'
    BY <1>1, <1>2, <2>1, Apart DEF Held
  <2>q. QED
    BY <1>1, <2>2, <2>3, <2>4, OnceKept
<1>q. QED
  BY <1>3, <1>4, <1>5

(* The next message of a run enters the transcript, or a subscriber throws  *)
(* and the rest is dropped.                                                 *)
LEMMA EmitSteps ==
  ASSUME IInv, OrderInv, OnceInv, EmitPrompt \/ Inject
  PROVE  OrderInv' /\ OnceInv'
<1> DEFINE m == Head(pending)
<1>1. /\ submitted' = submitted /\ steeringQueue' = steeringQueue
      /\ followUpQueue' = followUpQueue /\ pending /= <<>>
  BY DEF EmitPrompt, Inject, EmitPending, queues
<1>2. \/ /\ messages' = Append(messages, m) /\ pending' = Tail(pending)
         /\ discarded' = discarded
      \/ /\ messages' = messages /\ pending' = <<>>
         /\ discarded' = discarded \union Elements(pending)
      \/ /\ messages' = Append(messages, m) /\ pending' = <<>>
         /\ discarded' = discarded \union Elements(Tail(pending))
  BY DEF EmitPrompt, Inject, EmitPending, Throw
<1>3. /\ messages \in Seq(Message) /\ pending \in Seq(Message) /\ m \in Message
      /\ Tail(pending) \in Seq(Message)
  BY <1>1, Waiting
<1>4. Elements(<<>>) = {} /\ Sorted(<<>>) /\ \A s : Precedes(s, <<>>) /\ Precedes(<<>>, s)
  BY Unordered DEF Precedes
<1>5. /\ Elements(pending) = {m} \union Elements(Tail(pending)) /\ Sorted(Tail(pending))
      /\ \A b \in Elements(Tail(pending)) : Older(m, b)
  BY <1>1, <1>3, SortedTail DEF OrderInv
<1>6. /\ Elements(Append(messages, m)) = Elements(messages) \union {m}
      /\ Sorted(Append(messages, m))
  <2>1. \A a \in Elements(messages) : Older(a, m)
    BY <1>5 DEF OrderInv, Precedes
  <2>q. QED
    BY <1>3, <2>1, ElementsOfAppend, SortedAppend DEF OrderInv
<1>7. /\ Precedes(Append(messages, m), Tail(pending))
      /\ Precedes(Append(messages, m), steeringQueue)
      /\ Precedes(Append(messages, m), followUpQueue)
      /\ Precedes(Tail(pending), steeringQueue) /\ Precedes(Tail(pending), followUpQueue)
  BY <1>5, <1>6 DEF OrderInv, Precedes
<1>8. OrderInv'
  BY <1>1, <1>2, <1>4, <1>5, <1>6, <1>7 DEF OrderInv
<1>9. \A x : IsUser(x) => (x \in Seen' <=> x \in Seen)
  BY <1>1, <1>2, <1>4, <1>5, <1>6 DEF Seen, Held
<1>10. \A x \in discarded' : IsUser(x) => x \notin Held'
  <2> SUFFICES ASSUME NEW x \in discarded', IsUser(x) PROVE x \notin Held'
    OBVIOUS
  <2> HIDE DEF m
  <2>1. /\ x \in discarded => x \notin Held
        /\ x \in Elements(messages) => x \notin Elements(pending)
        /\ x \in Elements(pending) =>
             x \notin Elements(steeringQueue) /\ x \notin Elements(followUpQueue)
        /\ x = m => x \notin Elements(Tail(pending))
    BY <1>1, Apart DEF m
  <2>q. QED
    BY <1>1, <1>2, <1>4, <1>5, <1>6, <2>1 DEF Held
<1>q. QED
  BY <1>1, <1>8, <1>9, <1>10, OnceKept

(* Nothing is taken, or a queue hands its oldest messages to the loop, or   *)
(* the loop makes one up.                                                   *)
Takes ==
  /\ pending = <<>> /\ messages' = messages
  /\ submitted' = submitted /\ discarded' = discarded
  /\ \/ /\ pending' = Drained(SteeringMode, steeringQueue)
        /\ steeringQueue' = Remaining(SteeringMode, steeringQueue)
        /\ followUpQueue' = followUpQueue
     \/ /\ pending' = Drained(FollowUpMode, followUpQueue)
        /\ followUpQueue' = Remaining(FollowUpMode, followUpQueue)
        /\ steeringQueue' = steeringQueue
     \/ /\ pending' \in {<<>>, <<ContinueMessage>>}
        /\ steeringQueue' = steeringQueue /\ followUpQueue' = followUpQueue

(* Which keeps the order, and every message in one place.                   *)
LEMMA Polled ==
  ASSUME IInv, OrderInv, OnceInv, Takes
  PROVE  OrderInv' /\ OnceInv'
<1>0. pending = <<>> /\ messages' = messages /\ submitted' = submitted /\ discarded' = discarded
  BY DEF Takes
<1>1. /\ Elements(<<>>) = {} /\ Sorted(<<>>) /\ (\A s : Precedes(s, <<>>) /\ Precedes(<<>>, s))
      /\ Elements(<<ContinueMessage>>) = {ContinueMessage} /\ Sorted(<<ContinueMessage>>)
  BY Unordered DEF Precedes
<1>2. CASE /\ pending' = Drained(SteeringMode, steeringQueue)
           /\ steeringQueue' = Remaining(SteeringMode, steeringQueue)
           /\ followUpQueue' = followUpQueue
  <2>1. /\ Elements(steeringQueue) = Elements(pending') \union Elements(steeringQueue')
        /\ Sorted(pending') /\ Sorted(steeringQueue') /\ Precedes(pending', steeringQueue')
    BY <1>2, Waiting, DrainSplits DEF OrderInv
  <2>2. Precedes(pending', followUpQueue)
    BY <2>1, Waiting DEF Precedes, Older
  <2>3. Precedes(messages, pending') /\ Precedes(messages, steeringQueue')
    BY <2>1 DEF OrderInv, Precedes
  <2>4. OrderInv'
    BY <1>0, <1>2, <2>1, <2>2, <2>3 DEF OrderInv
  <2>5. Held' = Held
    BY <1>0, <1>1, <1>2, <2>1 DEF Held
  <2>q. QED
    BY <1>0, <2>4, <2>5, OnceKept DEF OnceInv, Seen
<1>3. CASE /\ pending' = Drained(FollowUpMode, followUpQueue)
           /\ followUpQueue' = Remaining(FollowUpMode, followUpQueue)
           /\ steeringQueue' = steeringQueue
  <2>1. /\ Elements(followUpQueue) = Elements(pending') \union Elements(followUpQueue')
        /\ Sorted(pending') /\ Sorted(followUpQueue') /\ Precedes(pending', followUpQueue')
    BY <1>3, Waiting, DrainSplits DEF OrderInv
  <2>2. Precedes(pending', steeringQueue)
    BY <2>1, Waiting DEF Precedes, Older
  <2>3. Precedes(messages, pending') /\ Precedes(messages, followUpQueue')
    BY <2>1 DEF OrderInv, Precedes
  <2>4. OrderInv'
    BY <1>0, <1>3, <2>1, <2>2, <2>3 DEF OrderInv
  <2>5. Held' = Held
    BY <1>0, <1>1, <1>3, <2>1 DEF Held
  <2>q. QED
    BY <1>0, <2>4, <2>5, OnceKept DEF OnceInv, Seen
<1>4. CASE /\ pending' \in {<<>>, <<ContinueMessage>>}
           /\ steeringQueue' = steeringQueue /\ followUpQueue' = followUpQueue
  <2>1. ~IsUser(ContinueMessage)
    BY DEF IsUser, ContinueMessage, User, Kinds
  <2>2. /\ Elements(pending') \subseteq {ContinueMessage} /\ Sorted(pending')
        /\ \A s : Precedes(s, pending') /\ Precedes(pending', s)
    BY <1>1, <1>4, <2>1, Unordered DEF Precedes
  <2>3. OrderInv'
    BY <1>0, <1>4, <2>2 DEF OrderInv
  <2>4. \A m : IsUser(m) => (m \in Held' <=> m \in Held)
    BY <1>0, <1>1, <1>4, <2>1, <2>2 DEF Held
  <2>5. /\ \A m : IsUser(m) => (m \in Seen' <=> m \in Seen)
        /\ \A m \in discarded' : IsUser(m) => m \notin Held'
    BY <1>0, <2>4 DEF Seen, OnceInv
  <2>q. QED
    BY <1>0, <2>3, <2>5, OnceKept
<1>q. QED
  BY <1>2, <1>3, <1>4 DEF Takes

(* A run that continues takes its prompts from a queue, or starts with none. *)
LEMMA ContinueTakes ==
  ASSUME IInv, ContinueTranscript \/ ContinueWithSteering \/ ContinueWithFollowUp
  PROVE  Takes
<1>1. pending = <<>> /\ messages' = messages /\ submitted' = submitted /\ discarded' = discarded
  BY DEF ContinueTranscript, ContinueWithSteering, ContinueWithFollowUp, BeginRun, IInv,
         PhaseInv
<1>2. CASE ContinueTranscript
  <2>1. pending' = <<>> /\ steeringQueue' = steeringQueue /\ followUpQueue' = followUpQueue
    BY <1>2 DEF ContinueTranscript, BeginRun, queues
  <2>q. QED
    BY <1>1, <2>1 DEF Takes
<1>3. CASE ContinueWithSteering
  <2>1. /\ pending' = Drained(SteeringMode, steeringQueue)
        /\ steeringQueue' = Remaining(SteeringMode, steeringQueue)
        /\ followUpQueue' = followUpQueue
    BY <1>3 DEF ContinueWithSteering, BeginRun
  <2>q. QED
    BY <1>1, <2>1 DEF Takes
<1>4. CASE ContinueWithFollowUp
  <2>1. /\ pending' = Drained(FollowUpMode, followUpQueue)
        /\ followUpQueue' = Remaining(FollowUpMode, followUpQueue)
        /\ steeringQueue' = steeringQueue
    BY <1>4 DEF ContinueWithFollowUp, BeginRun
  <2>q. QED
    BY <1>1, <2>1 DEF Takes
<1>q. QED
  BY <1>2, <1>3, <1>4

(* The loop takes from a queue what it will emit next.                      *)
LEMMA PollTakes ==
  ASSUME IInv, PollSteering \/ PollLength \/ PollFollowUp
  PROVE  Takes
<1>1. pending = <<>> /\ messages' = messages /\ submitted' = submitted /\ discarded' = discarded
  <2>1. pc \notin {"prompts", "inject"}
    BY DEF PollSteering, PollLength, PollFollowUp
  <2>q. QED
    BY <2>1 DEF PollSteering, PollLength, PollFollowUp, IInv, PhaseInv, state, bounds
<1>2. CASE PollSteering
  <2>1. CASE skipPoll
    <3>1. pending' = <<>> /\ steeringQueue' = steeringQueue /\ followUpQueue' = followUpQueue
      BY <1>2, <2>1 DEF PollSteering
    <3>q. QED
      BY <1>1, <3>1 DEF Takes
  <2>2. CASE ~skipPoll
    <3>1. /\ pending' = Drained(SteeringMode, steeringQueue)
          /\ steeringQueue' = Remaining(SteeringMode, steeringQueue)
          /\ followUpQueue' = followUpQueue
      BY <1>2, <2>2 DEF PollSteering
    <3>q. QED
      BY <1>1, <3>1 DEF Takes
  <2>q. QED
    BY <2>1, <2>2
<1>3. CASE PollLength
  <2>1. /\ pending' \in {Drained(FollowUpMode, followUpQueue), <<ContinueMessage>>}
        /\ pending' = <<ContinueMessage>> =>
             \/ Drained(FollowUpMode, followUpQueue) = <<>>
             \/ pending' = Drained(FollowUpMode, followUpQueue)
        /\ followUpQueue' = Remaining(FollowUpMode, followUpQueue)
        /\ steeringQueue' = steeringQueue
    BY <1>3 DEF PollLength
  <2>2. CASE pending' = Drained(FollowUpMode, followUpQueue)
    BY <1>1, <2>1, <2>2 DEF Takes
  <2>3. CASE pending' # Drained(FollowUpMode, followUpQueue)
    <3>1. pending' = <<ContinueMessage>> /\ Drained(FollowUpMode, followUpQueue) = <<>>
      BY <2>1, <2>3
    <3>2. followUpQueue' = followUpQueue
      BY <2>1, <3>1, DrainType, Waiting
    <3>q. QED
      BY <1>1, <2>1, <3>1, <3>2 DEF Takes
  <2>q. QED
    BY <2>2, <2>3
<1>4. CASE PollFollowUp
  <2>1. /\ pending' = Drained(FollowUpMode, followUpQueue)
        /\ followUpQueue' = Remaining(FollowUpMode, followUpQueue)
        /\ steeringQueue' = steeringQueue
    BY <1>4 DEF PollFollowUp
  <2>q. QED
    BY <1>1, <2>1 DEF Takes
<1>q. QED
  BY <1>2, <1>3, <1>4

(* What the loop itself adds to the transcript is no user message.          *)
LEMMA OwnMessages ==
  /\ FailureMessage \in Message /\ ~IsUser(FailureMessage)
  /\ \A t \in Nat, stop \in StopReasons, n \in Nat :
       Assistant(t, stop, n) \in Message /\ ~IsUser(Assistant(t, stop, n))
  /\ \A t \in Nat, k \in Nat :
       LET r == [i \in 1..k |-> ToolResult(t, i)] IN
         r \in Seq(Message) /\ \A x \in Elements(r) : ~IsUser(x)
<1>1. /\ ~IsUser(FailureMessage)
      /\ \A t, stop, n : ~IsUser(Assistant(t, stop, n))
      /\ \A t, i : ~IsUser(ToolResult(t, i))
  BY DEF IsUser, FailureMessage, Assistant, ToolResult
<1>2. ASSUME NEW t \in Nat, NEW k \in Nat
      PROVE  LET r == [i \in 1..k |-> ToolResult(t, i)] IN
               r \in Seq(Message) /\ \A x \in Elements(r) : ~IsUser(x)
  BY <1>1, MessagesAreMessages DEF Elements
<1>q. QED
  BY <1>1, <1>2, MessagesAreMessages

(* A step that leaves the queues and what is pending alone, and adds at     *)
(* most one message of the loop's own to the transcript.                    *)
LEMMA AddedOne ==
  ASSUME IInv, NEW m \in Message, ~IsUser(m),
         messages' \in {messages, Append(messages, m)}, pending' = pending,
         steeringQueue' = steeringQueue, followUpQueue' = followUpQueue,
         submitted' = submitted, discarded' = discarded
  PROVE  Own
<1>1. messages \in Seq(Message)
  BY Waiting
<1>2. messages \o <<>> = messages /\ messages \o <<m>> = Append(messages, m)
  BY <1>1
<1>3. /\ <<>> \in Seq(Message) /\ <<m>> \in Seq(Message)
      /\ Elements(<<>>) = {} /\ Elements(<<m>>) = {m}
  BY Unordered
<1>4. CASE messages' = messages
  BY <1>2, <1>3, <1>4 DEF Own, Adds
<1>5. CASE messages' = Append(messages, m)
  BY <1>2, <1>3, <1>5 DEF Own, Adds
<1>q. QED
  BY <1>4, <1>5

(* Every other step of the loop, and an abort.                              *)
LEMMA OwnSteps ==
  ASSUME IInv,
         \/ Abort \/ StartThrows \/ StreamReply \/ RunTools \/ EndTurn \/ EndRun
         \/ HandleRunFailure
         \/ \E stop \in StopReasons, n \in 0..MaxCalls : EndReply(stop, n)
         \/ UNCHANGED vars
  PROVE  Own
<1>1. /\ steeringQueue' = steeringQueue /\ followUpQueue' = followUpQueue
      /\ submitted' = submitted
  BY DEF Abort, StartThrows, StreamReply, RunTools, EndTurn, EndRun, HandleRunFailure, EndReply, vars,
         queues, bounds
<1>2. pending' = pending /\ discarded' = discarded
  <2>1. Elements(<<>>) = {}
    BY Unordered
  <2>2. \/ pending' = pending /\ discarded' = discarded
        \/ pending' = <<>> /\ (discarded' = discarded \/ Throw(<<>>))
    BY DEF Abort, StartThrows, StreamReply, RunTools, EndTurn, EndRun, HandleRunFailure, EndReply, Throw,
           FinishRun, vars, loop, history
  <2>3. pending' # pending => pc \notin {"prompts", "inject"}
    BY DEF Abort, StartThrows, StreamReply, RunTools, EndTurn, EndRun, HandleRunFailure, EndReply, vars, loop
  <2>q. QED
    BY <2>1, <2>2, <2>3 DEF Throw, IInv, PhaseInv
<1>3. CASE RunTools
  <2> DEFINE r(k) == [i \in 1..k |-> ToolResult(LastOf(context).turn, i)]
  <2>1. LastOf(context).turn \in Nat /\ LastOf(context).calls \in Nat
    BY <1>3 DEF RunTools, IInv, LookedInv, AssistantMessage
  <2>2. CASE \E o \in BatchOutcomes(LastOf(context).calls, LastOf(context).stop = "length",
                                    aborted) :
               messages' = messages \o [i \in 1..o.answered |->
                                         ToolResult(LastOf(context).turn, i)]
    <3>1. PICK o \in BatchOutcomes(LastOf(context).calls, LastOf(context).stop = "length",
                                   aborted) :
            messages' = messages \o r(o.answered)
      BY <2>2
    <3>2. o.answered \in Nat
      BY <2>1 DEF BatchOutcomes
    <3>q. QED
      BY <1>1, <1>2, <2>1, <3>1, <3>2, OwnMessages DEF Own, Adds
  <2>3. CASE \E k \in 0..LastOf(context).calls :
               messages' = messages \o [i \in 1..k |-> ToolResult(LastOf(context).turn, i)]
    <3>1. PICK k \in 0..LastOf(context).calls : messages' = messages \o r(k)
      BY <2>3
    <3>2. k \in Nat
      BY <2>1
    <3>q. QED
      BY <1>1, <1>2, <2>1, <3>1, <3>2, OwnMessages DEF Own, Adds
  <2>q. QED
    BY <1>3, <2>2, <2>3 DEF RunTools
<1>4. CASE \E stop \in StopReasons, n \in 0..MaxCalls : EndReply(stop, n)
  <2>1. PICK stop \in StopReasons, n \in 0..MaxCalls : EndReply(stop, n)
    BY <1>4
  <2>2. turn' \in Nat /\ n \in Nat
    <3>1. turn \in Nat
      BY DEF IInv, TypeInv
    <3>2. turn' = turn + 1
      BY <2>1 DEF EndReply
    <3>q. QED
      BY <3>1, <3>2, BoundAssumption
  <2>3. messages' = Append(messages, Assistant(turn', stop, n))
    BY <2>1 DEF EndReply
  <2>q. QED
    BY <1>1, <1>2, <2>2, <2>3, OwnMessages, AddedOne
<1>5. CASE Abort \/ StartThrows \/ StreamReply \/ EndTurn \/ EndRun \/ HandleRunFailure \/ UNCHANGED vars
  <2>1. messages' \in {messages, Append(messages, FailureMessage)}
    BY <1>5 DEF Abort, StartThrows, StreamReply, EndTurn, EndRun, HandleRunFailure, vars, state
  <2>q. QED
    BY <1>1, <1>2, <2>1, OwnMessages, AddedOne
<1>q. QED
  BY <1>3, <1>4, <1>5

------------------------------------------------------------------------------
(* What steps do to the calls that wait for a result.                       *)

LEMMA AppendIsConcat ==
  ASSUME NEW S, NEW s \in Seq(S), NEW x \in S
  PROVE  <<x>> \in Seq(S) /\ Append(s, x) = s \o <<x>>
OBVIOUS

(* A reply with all its results keeps them when more follows.               *)
LEMMA StaysAnswered ==
  ASSUME NEW s \in Seq(Message), NEW r \in Seq(Message), NEW p \in DOMAIN s, CallsAnswered(s, p)
  PROVE  p \in DOMAIN (s \o r) /\ (s \o r)[p] = s[p] /\ CallsAnswered(s \o r, p)
<1>1. /\ Len(s) \in Nat /\ Len(r) \in Nat /\ DOMAIN s = 1..Len(s)
      /\ DOMAIN (s \o r) = 1..Len(s) + Len(r)
      /\ \A i \in 1..Len(s) : (s \o r)[i] = s[i]
  OBVIOUS
<1>2. \A i \in DOMAIN s : i \in DOMAIN (s \o r) /\ (s \o r)[i] = s[i]
  BY <1>1
<1> HIDE <1>1
<1>q. QED
  BY <1>2 DEF CallsAnswered

(* A reply that is done stays done when more follows.                       *)
LEMMA StaysDone ==
  ASSUME NEW s \in Seq(Message), NEW r \in Seq(Message), NEW p \in DOMAIN s,
         NEW u, NEW v, u \subseteq v, Done(s, p, u)
  PROVE  Done(s \o r, p, v)
<1>1. p \in DOMAIN (s \o r) /\ (s \o r)[p] = s[p]
  OBVIOUS
<1>2. CASE CallsAnswered(s, p)
  BY <1>1, <1>2, StaysAnswered DEF Done
<1>3. CASE ~CallsAnswered(s, p)
  BY <1>1, <1>3 DEF Done
<1>q. QED
  BY <1>2, <1>3

(* A message that opens no call, or one whose batch was cut short.          *)
LEMMA AloneDone ==
  ASSUME NEW s \in Seq(Message), NEW p \in DOMAIN s, NEW u, Closed(s[p], u)
  PROVE  Done(s, p, u)
<1>1. CASE s[p].role = "assistant" /\ s[p].stop \in {"stop", "length"} /\ s[p].calls = 0
  <2>1. 1..s[p].calls = {}
    BY <1>1
  <2>q. QED
    BY <2>1 DEF Done, CallsAnswered
<1>q. QED
  BY <1>1 DEF Done, Closed

(* A settled sequence stays settled when closed messages follow.            *)
LEMMA SettledGrows ==
  ASSUME NEW s \in Seq(Message), NEW r \in Seq(Message), NEW u, NEW v, u \subseteq v,
         Settled(s, u, 0), \A i \in DOMAIN r : Closed(r[i], v)
  PROVE  Settled(s \o r, v, 0)
<1>1. /\ Len(s) \in Nat /\ Len(r) \in Nat /\ DOMAIN s = 1..Len(s) /\ DOMAIN r = 1..Len(r)
      /\ DOMAIN (s \o r) = 1..Len(s) + Len(r) /\ Len(s \o r) = Len(s) + Len(r)
      /\ s \o r \in Seq(Message)
      /\ \A i \in 1..Len(s) + Len(r) : i > Len(s) => (s \o r)[i] = r[i - Len(s)]
  OBVIOUS
<1>2. ASSUME NEW p \in 1..Len(s) + Len(r) PROVE Done(s \o r, p, v)
  <2>1. CASE p \in 1..Len(s)
    <3>1. Done(s, p, u)
      BY <1>1, <2>1 DEF Settled
    <3>q. QED
      BY <1>1, <2>1, <3>1, StaysDone
  <2>2. CASE p \notin 1..Len(s)
    <3>1. p > Len(s) /\ p - Len(s) \in DOMAIN r /\ (s \o r)[p] = r[p - Len(s)]
      BY <1>1, <1>2, <2>2
    <3>2. Closed((s \o r)[p], v)
      BY <3>1
    <3>q. QED
      BY <1>1, <1>2, <3>2, AloneDone
  <2>q. QED
    BY <2>1, <2>2
<1>3. Len(s \o r) - 0 = Len(s) + Len(r)
  BY <1>1
<1>q. QED
  BY <1>2, <1>3 DEF Settled

(* A reply at the end is the only one that may be open.                     *)
LEMMA SettledReply ==
  ASSUME NEW s \in Seq(Message), NEW m \in Message, NEW u, Settled(s, u, 0)
  PROVE  Settled(Append(s, m), u, 1)
<1>1. /\ Append(s, m) = s \o <<m>> /\ <<m>> \in Seq(Message) /\ Len(s) \in Nat
      /\ DOMAIN s = 1..Len(s) /\ Len(Append(s, m)) - 1 = Len(s) /\ Len(s) - 0 = Len(s)
  OBVIOUS
<1>2. ASSUME NEW p \in 1..Len(s) PROVE Done(s \o <<m>>, p, u)
  BY <1>1, StaysDone DEF Settled
<1>q. QED
  BY <1>1, <1>2 DEF Settled

(* The results of a reply close it, all of them or as many as an abort or   *)
(* a subscriber let through.                                                *)
LEMMA SettledResults ==
  ASSUME NEW s \in Seq(Message), NEW reply \in AssistantMessage, NEW k \in Nat,
         s /= <<>> => LastOf(s) = reply,
         NEW u, NEW v, u \subseteq v, Settled(s, u, 1),
         k = reply.calls \/ reply.turn \in v
  PROVE  Settled(s \o [i \in 1..k |-> ToolResult(reply.turn, i)], v, 0)
<1> DEFINE r == [i \in 1..k |-> ToolResult(reply.turn, i)]
<1>0. reply.turn \in Nat
  BY DEF AssistantMessage
<1>1. r \in Seq(Message) /\ Len(r) = k /\ \A i \in 1..k : r[i] = ToolResult(reply.turn, i)
  BY <1>0, OwnMessages
<1> HIDE DEF r
<1>2. /\ Len(s) \in Nat /\ DOMAIN s = 1..Len(s) /\ Len(s \o r) = Len(s) + k
      /\ DOMAIN (s \o r) = 1..Len(s) + k /\ s \o r \in Seq(Message)
      /\ \A i \in 1..Len(s) : (s \o r)[i] = s[i]
      /\ \A i \in 1..k : (s \o r)[Len(s) + i] = r[i]
  BY <1>1
<1>3. ASSUME NEW p \in 1..Len(s) + k PROVE Done(s \o r, p, v)
  <2>1. CASE p \in 1..Len(s) - 1
    <3>1. Done(s, p, u)
      BY <2>1 DEF Settled
    <3>2. p \in DOMAIN s
      BY <1>2, <2>1
    <3>q. QED
      BY <1>1, <3>1, <3>2, StaysDone
  <2>2. CASE p = Len(s)
    <3>1. (s \o r)[p] = reply
      BY <1>2, <1>3, <2>2 DEF LastOf
    <3>2. CASE k = reply.calls
      <4>1. \A i \in 1..reply.calls : p + i \in DOMAIN (s \o r)
                                      /\ (s \o r)[p + i] = ToolResult(reply.turn, i)
        BY <1>1, <1>2, <2>2, <3>2
      <4>q. QED
        BY <3>1, <4>1 DEF Done, CallsAnswered
    <3>3. CASE reply.turn \in v
      BY <3>1, <3>3 DEF Done
    <3>q. QED
      BY <3>2, <3>3
  <2>3. CASE p > Len(s)
    <3>1. p - Len(s) \in 1..k /\ p = Len(s) + (p - Len(s))
      BY <1>2, <1>3, <2>3
    <3>2. (s \o r)[p] = ToolResult(reply.turn, p - Len(s))
      BY <1>1, <1>2, <3>1
    <3>q. QED
      BY <3>2 DEF Done, ToolResult
  <2>q. QED
    BY <1>2, <1>3, <2>1, <2>2, <2>3
<1>4. Len(s \o r) - 0 = Len(s) + k
  BY <1>2
<1>q. QED
  BY <1>3, <1>4 DEF Settled, r

(* A result in its place stays there when more follows.                     *)
LEMMA StaysBehind ==
  ASSUME NEW s \in Seq(Message), NEW r \in Seq(Message), NEW q \in DOMAIN s,
         s[q].call \in Nat, BehindItsCall(s, q)
  PROVE  BehindItsCall(s \o r, q)
<1>1. /\ Len(s) \in Nat /\ Len(r) \in Nat /\ DOMAIN s = 1..Len(s)
      /\ DOMAIN (s \o r) = 1..Len(s) + Len(r)
      /\ \A i \in 1..Len(s) : (s \o r)[i] = s[i]
  OBVIOUS
<1>2. PICK p \in DOMAIN s :
        /\ q = p + s[q].call
        /\ s[p].role = "assistant" /\ s[q].call <= s[p].calls
        /\ \A i \in 1..s[q].call : s[p + i] = ToolResult(s[p].turn, i)
  BY DEF BehindItsCall
<1>3. p \in DOMAIN (s \o r) /\ (s \o r)[p] = s[p] /\ (s \o r)[q] = s[q]
  BY <1>1
<1>4. \A i \in 1..s[q].call : (s \o r)[p + i] = s[p + i]
  BY <1>1, <1>2
<1>q. QED
  BY <1>2, <1>3, <1>4 DEF BehindItsCall

(* Messages that are no results leave the results where they stand.         *)
LEMMA PlacedGrows ==
  ASSUME NEW s \in Seq(Message), NEW r \in Seq(Message), Placed(s),
         \A i \in DOMAIN r : r[i].role /= "toolResult"
  PROVE  Placed(s \o r)
<1>1. /\ Len(s) \in Nat /\ Len(r) \in Nat /\ DOMAIN s = 1..Len(s) /\ DOMAIN r = 1..Len(r)
      /\ DOMAIN (s \o r) = 1..Len(s) + Len(r)
      /\ \A i \in 1..Len(s) : (s \o r)[i] = s[i] /\ s[i] \in Message
      /\ \A i \in 1..Len(s) + Len(r) : i > Len(s) => (s \o r)[i] = r[i - Len(s)]
  OBVIOUS
<1>2. ASSUME NEW q \in DOMAIN (s \o r), (s \o r)[q].role = "toolResult"
      PROVE  BehindItsCall(s \o r, q)
  <2>1. q \in DOMAIN s
    <3>1. SUFFICES ASSUME q \notin DOMAIN s PROVE FALSE
      OBVIOUS
    <3>2. q - Len(s) \in DOMAIN r /\ (s \o r)[q] = r[q - Len(s)]
      BY <1>1, <1>2, <3>1
    <3>q. QED
      BY <1>2, <3>2
  <2>2. s[q] \in Message /\ s[q].role = "toolResult"
    BY <1>1, <1>2, <2>1
  <2>3. s[q].call \in Nat
    BY <2>2 DEF Message, AssistantMessage
  <2>q. QED
    BY <2>1, <2>2, <2>3, StaysBehind DEF Placed
<1>q. QED
  BY <1>2 DEF Placed

(* Results that follow their reply stand behind its calls.                  *)
LEMMA PlacedResults ==
  ASSUME NEW s \in Seq(Message), NEW reply \in AssistantMessage, NEW k \in Nat,
         s /= <<>>, LastOf(s) = reply, k <= reply.calls, Placed(s)
  PROVE  Placed(s \o [i \in 1..k |-> ToolResult(reply.turn, i)])
<1> DEFINE r == [i \in 1..k |-> ToolResult(reply.turn, i)]
<1>0. reply.turn \in Nat /\ reply.calls \in Nat /\ reply.role = "assistant"
  BY DEF AssistantMessage
<1>1. r \in Seq(Message) /\ Len(r) = k /\ \A i \in 1..k : r[i] = ToolResult(reply.turn, i)
  BY <1>0, OwnMessages
<1> HIDE DEF r
<1>2. /\ Len(s) \in Nat \ {0} /\ DOMAIN s = 1..Len(s)
      /\ DOMAIN (s \o r) = 1..Len(s) + k
      /\ \A i \in 1..Len(s) : (s \o r)[i] = s[i] /\ s[i] \in Message
      /\ \A i \in 1..k : (s \o r)[Len(s) + i] = r[i]
  BY <1>1
<1>3. ASSUME NEW q \in DOMAIN (s \o r), (s \o r)[q].role = "toolResult"
      PROVE  BehindItsCall(s \o r, q)
  <2>1. CASE q \in DOMAIN s
    <3>1. s[q] \in Message /\ s[q].role = "toolResult"
      BY <1>2, <1>3, <2>1
    <3>2. s[q].call \in Nat
      BY <3>1 DEF Message, AssistantMessage
    <3>q. QED
      BY <1>1, <2>1, <3>1, <3>2, StaysBehind DEF Placed
  <2>2. CASE q \notin DOMAIN s
    <3>1. PICK j \in 1..k : q = Len(s) + j
      <4>1. q \in 1..Len(s) + k /\ q \notin 1..Len(s) /\ Len(s) \in Nat
        BY <1>2, <1>3, <2>2
      <4>2. q - Len(s) \in 1..k /\ q = Len(s) + (q - Len(s))
        BY <4>1
      <4>q. QED
        BY <4>2
    <3>2. (s \o r)[q] = ToolResult(reply.turn, j)
      BY <1>1, <1>2, <3>1
    <3>3. (s \o r)[q].call = j
      BY <3>2 DEF ToolResult
    <3>4. Len(s) \in DOMAIN (s \o r) /\ (s \o r)[Len(s)] = reply
      BY <1>2 DEF LastOf
    <3>5. \A i \in 1..j : (s \o r)[Len(s) + i] = ToolResult(reply.turn, i)
      BY <1>1, <1>2, <3>1
    <3>6. j <= reply.calls
      BY <1>0, <3>1
    <3>q. QED
      BY <1>0, <3>1, <3>3, <3>4, <3>5, <3>6 DEF BehindItsCall
  <2>q. QED
    BY <2>1, <2>2
<1>q. QED
  BY <1>3 DEF Placed, r

(* Only user messages become pending.                                       *)
LEMMA PendingSteps == ASSUME IInv, PendingInv, [Next]_vars PROVE PendingInv'
<1>1. /\ Elements(<<>>) = {} /\ Elements(<<ContinueMessage>>) = {ContinueMessage}
      /\ \A m : Elements(<<m>>) = {m}
  BY Unordered
<1>2. ContinueMessage.role = "user" /\ \A k, i : User(k, i).role = "user"
  BY DEF ContinueMessage, User
<1>3. /\ \A m \in Elements(Drained(SteeringMode, steeringQueue)) : m.role = "user"
      /\ \A m \in Elements(Drained(FollowUpMode, followUpQueue)) : m.role = "user"
  BY Waiting, DrainSplits DEF IsUser
<1>4. pending /= <<>> => Elements(Tail(pending)) \subseteq Elements(pending)
  BY Waiting, SortedTail
<1>5. \/ pending' \in {pending, <<>>, <<ContinueMessage>>,
                       Drained(SteeringMode, steeringQueue), Drained(FollowUpMode, followUpQueue)}
      \/ pending /= <<>> /\ pending' = Tail(pending)
      \/ \E k, i : pending' = <<User(k, i)>>
  <2>1. CASE Caller
    BY <2>1 DEF Caller, Steer, FollowUp, ClearSteeringQueue, ClearFollowUpQueue, Abort, Reset,
                Prompt, ContinueTranscript, ContinueWithSteering, ContinueWithFollowUp, BeginRun,
                loop
  <2>2. CASE EmitPrompt \/ Inject
    BY <2>2 DEF EmitPrompt, Inject, EmitPending, Throw
  <2>3. CASE PollSteering \/ PollLength \/ PollFollowUp
    BY <2>3 DEF PollSteering, PollLength, PollFollowUp
  <2>4. CASE StartThrows \/ StreamReply \/ RunTools \/ EndTurn \/ EndRun \/ HandleRunFailure
             \/ \E stop \in StopReasons, n \in 0..MaxCalls : EndReply(stop, n)
    BY <2>4 DEF StartThrows, StreamReply, RunTools, EndTurn, EndRun, HandleRunFailure, EndReply, Throw,
                FinishRun, loop
  <2>5. CASE UNCHANGED vars
    BY <2>5 DEF vars, loop
  <2>q. QED
    BY <2>1, <2>2, <2>3, <2>4, <2>5 DEF Next, RunLoop
<1>6. CASE pending' \in {pending, <<>>, <<ContinueMessage>>,
                         Drained(SteeringMode, steeringQueue), Drained(FollowUpMode,
                         followUpQueue)}
  <2>1. \A s \in {pending, <<>>, <<ContinueMessage>>, Drained(SteeringMode, steeringQueue),
                 Drained(FollowUpMode, followUpQueue)} : \A m \in Elements(s) : m.role = "user"
    BY <1>1, <1>2, <1>3 DEF PendingInv
  <2>q. QED
    BY <1>6, <2>1 DEF PendingInv
<1>7. CASE pending /= <<>> /\ pending' = Tail(pending)
  BY <1>4, <1>7 DEF PendingInv
<1>8. CASE \E k, i : pending' = <<User(k, i)>>
  <2>1. PICK k, i : pending' = <<User(k, i)>>
    BY <1>8
  <2>2. Elements(pending') = {User(k, i)}
    BY <1>1, <2>1
  <2>q. QED
    BY <1>2, <2>2 DEF PendingInv
<1>q. QED
  BY <1>5, <1>6, <1>7, <1>8

(* A step that moves neither the messages nor the loop.                     *)
LEMMA ShownKept ==
  ASSUME ShownInv,
         UNCHANGED <<messages, context, pc, unanswered, torn, detached>>
  PROVE  ShownInv'
BY DEF ShownInv, Open

(* A step outside a batch that adds closed messages which are no results.   *)
LEMMA ShownGrows ==
  ASSUME TypeInv, ShownInv, pc /= "tools", pc' /= "tools", pc' = "idle" => context' = <<>>,
         NEW r \in Seq(Message),
         \A i \in DOMAIN r : r[i].role /= "toolResult" /\ Closed(r[i], unanswered'),
         messages' \in {messages, messages \o r},
         context' \in {context, context \o r, messages \o r, <<>>},
         unanswered \subseteq unanswered', torn' = torn, detached' \in {detached, FALSE}
  PROVE  ShownInv'
<1>1. /\ messages \in Seq(Message) /\ context \in Seq(Message) /\ <<>> \in Seq(Message)
      /\ messages \o <<>> = messages /\ context \o <<>> = context /\ DOMAIN <<>> = {}
  BY DEF TypeInv
<1>2. Settled(messages, unanswered, 0) /\ Settled(context, unanswered, 0)
  BY DEF ShownInv, Open
<1>3. /\ Settled(messages, unanswered', 0) /\ Settled(messages \o r, unanswered', 0)
      /\ Settled(context, unanswered', 0) /\ Settled(context \o r, unanswered', 0)
  <2>1. ASSUME NEW s \in Seq(Message), Settled(s, unanswered, 0)
        PROVE  Settled(s, unanswered', 0) /\ Settled(s \o r, unanswered', 0)
    <3>1. s \o <<>> = s
      OBVIOUS
    <3>2. Settled(s \o <<>>, unanswered', 0)
      BY <1>1, <2>1, SettledGrows
    <3>q. QED
      BY <2>1, <3>1, <3>2, SettledGrows
  <2>q. QED
    BY <1>1, <1>2, <2>1
<1>4. Settled(<<>>, unanswered', 0) /\ Placed(<<>>)
  BY <1>1 DEF Settled, Placed
<1>5. Open' = 0
  BY DEF Open
<1>6. Settled(messages', unanswered', 0) /\ Settled(context', unanswered', 0)
  BY <1>3, <1>4
<1>7. torn' \/ (Placed(messages') /\ Placed(context'))
  <2> SUFFICES ASSUME ~torn PROVE Placed(messages') /\ Placed(context')
    OBVIOUS
  <2>1. Placed(messages) /\ Placed(context)
    BY DEF ShownInv
  <2>2. Placed(messages \o r) /\ Placed(context \o r)
    BY <1>1, <2>1, PlacedGrows
  <2>q. QED
    BY <1>4, <2>1, <2>2
<1>8. detached' => torn'
  BY DEF ShownInv
<1>q. QED
  BY <1>5, <1>6, <1>7, <1>8 DEF ShownInv

(* The same for a single message, or for none.                              *)
LEMMA ShownOne ==
  ASSUME TypeInv, ShownInv, pc /= "tools", pc' /= "tools", pc' = "idle" => context' = <<>>,
         NEW m \in Message, m.role /= "toolResult", Closed(m, unanswered'),
         messages' \in {messages, Append(messages, m)},
         context' \in {context, Append(context, m), <<>>},
         unanswered \subseteq unanswered', torn' = torn, detached' \in {detached, FALSE}
  PROVE  ShownInv'
<1>1. messages \in Seq(Message) /\ context \in Seq(Message)
  BY DEF TypeInv
<1>2. \A i \in DOMAIN <<m>> : <<m>>[i] = m
  OBVIOUS
<1>3. \A i \in DOMAIN <<m>> : <<m>>[i].role /= "toolResult" /\ Closed(<<m>>[i], unanswered')
  BY <1>2
<1>4. /\ <<m>> \in Seq(Message)
      /\ Append(messages, m) = messages \o <<m>> /\ Append(context, m) = context \o <<m>>
  BY <1>1, AppendIsConcat
<1>q. QED
  BY <1>3, <1>4, ShownGrows

(* A run starts with user messages only.                                    *)
LEMMA ShownBegin ==
  ASSUME TypeInv, TypeInv', PhaseInv, PendingInv', ShownInv, NEW prompts, NEW skip,
         BeginRun(prompts, skip)
  PROVE  ShownInv'
<1>1. /\ pending' = prompts /\ messages' = messages /\ context' = messages \o prompts
      /\ pc' \in {"prompts", "pollInitial"} /\ unanswered' = unanswered /\ torn' = torn
      /\ detached' = FALSE
  BY DEF BeginRun, RunContext, excuses
<1>2. pc = "idle"
  BY DEF BeginRun, PhaseInv
<1>3. prompts \in Seq(Message)
  BY <1>1 DEF TypeInv
<1>4. \A i \in DOMAIN prompts : prompts[i].role = "user"
  BY <1>1 DEF PendingInv, Elements
<1>5. \A i \in DOMAIN prompts : prompts[i].role /= "toolResult" /\ Closed(prompts[i], unanswered')
  BY <1>4 DEF Closed
<1>q. QED
  BY <1>1, <1>2, <1>3, <1>5, ShownGrows

(* reset() under a run leaves its context alone.                            *)
LEMMA ShownReset == ASSUME TypeInv, PhaseInv, ShownInv, Reset PROVE ShownInv'
<1>1. /\ messages' = <<>> /\ context' = context /\ pc' = pc /\ unanswered' = unanswered
      /\ torn' = active /\ detached' = active
  BY DEF Reset, loop
<1>2. Settled(<<>>, unanswered, Open) /\ Placed(<<>>)
  BY DEF Settled, Placed, Open
<1>3. ~active => context = <<>>
  BY DEF PhaseInv, ShownInv
<1>q. QED
  BY <1>1, <1>2, <1>3 DEF ShownInv, Open

(* Callers.                                                                 *)
LEMMA ShownCaller ==
  ASSUME IInv, IInv', PendingInv', ShownInv, Caller
  PROVE  ShownInv'
<1>1. CASE Steer \/ FollowUp \/ ClearSteeringQueue \/ ClearFollowUpQueue \/ Abort
  BY <1>1, ShownKept DEF Steer, FollowUp, ClearSteeringQueue, ClearFollowUpQueue, Abort, state,
     loop, history, excuses
<1>2. CASE Reset
  BY <1>2, ShownReset DEF IInv
<1>3. CASE Prompt \/ ContinueTranscript \/ ContinueWithSteering \/ ContinueWithFollowUp
  BY <1>3, ShownBegin DEF IInv, Prompt, ContinueTranscript, ContinueWithSteering,
     ContinueWithFollowUp
<1>q. QED
  BY <1>1, <1>2, <1>3 DEF Caller

(* A message is emitted.                                                    *)
LEMMA ShownEmits ==
  ASSUME IInv, PendingInv, ShownInv, EmitPrompt \/ Inject
  PROVE  ShownInv'
<1> DEFINE m == Head(pending)
<1>1. pending /= <<>> /\ pending \in Seq(Message)
  BY DEF EmitPrompt, Inject, EmitPending, IInv, TypeInv
<1>2. m \in Message /\ m.role = "user"
  BY <1>1, SortedTail DEF PendingInv
<1>3. m.role /= "toolResult" /\ Closed(m, unanswered')
  BY <1>2 DEF Closed
<1>4. /\ messages' \in {messages, Append(messages, m)}
      /\ context' \in {context, Append(context, m), <<>>}
      /\ unanswered' = unanswered /\ torn' = torn /\ detached' = detached
      /\ pc \in {"prompts", "inject"}
      /\ pc' \in {"prompts", "inject", "pollInitial", "stream", "failing"}
  BY DEF EmitPrompt, Inject, EmitPending, Throw, excuses
<1> HIDE DEF m
<1>q. QED
  BY <1>2, <1>3, <1>4, ShownOne DEF IInv

(* The reply: its calls are open when the batch starts.                     *)
LEMMA ShownReply ==
  ASSUME IInv, ShownInv, NEW stop \in StopReasons, NEW n \in 0..MaxCalls, EndReply(stop, n)
  PROVE  ShownInv'
<1> DEFINE m == Assistant(turn', stop, n)
<1>1. turn' \in Nat /\ n \in Nat
  <2>1. turn \in Nat
    BY DEF IInv, TypeInv
  <2>2. turn' = turn + 1
    BY DEF EndReply
  <2>q. QED
    BY <2>1, <2>2, BoundAssumption
<1>2. /\ m \in Message /\ m.role = "assistant" /\ m.calls = n /\ m.turn = turn'
      /\ m.stop = stop
  BY <1>1, MessagesAreMessages DEF Assistant
<1>3. messages \in Seq(Message) /\ context \in Seq(Message)
  BY DEF IInv, TypeInv
<1>4. /\ pc = "stream" /\ messages' = Append(messages, m) /\ torn' = torn
      /\ detached' = detached
  BY DEF EndReply
<1>5. CASE pc' = "failing"
  <2>1. context' = context /\ unanswered' = unanswered \union {turn'}
    BY <1>5, <1>1 DEF EndReply, Throw, StopReasons
  <2>2. Closed(m, unanswered')
    BY <1>2, <2>1 DEF Closed
  <2> HIDE DEF m
  <2>q. QED
    BY <1>2, <1>4, <1>5, <2>1, <2>2, ShownOne DEF IInv
<1>6. CASE pc' # "failing"
  <2>1. context' = Append(context, m) /\ unanswered' = unanswered
    BY <1>6 DEF EndReply, Throw
  <2>2. /\ pc' \in {"fatal", "tools", "turnEnd"}
        /\ pc' = "turnEnd" => n = 0
        /\ pc' = "fatal" => stop \in {"error", "aborted"}
    <3>1. pc' = CASE stop \in {"error", "aborted"} -> "fatal"
                  [] stop \in {"stop", "length"} /\ n > 0 -> "tools"
                  [] stop \in {"stop", "length"} /\ n = 0 -> "turnEnd"
      BY <1>6 DEF EndReply, Throw
    <3>2. \/ stop \in {"error", "aborted"}
          \/ stop \in {"stop", "length"} /\ n > 0
          \/ stop \in {"stop", "length"} /\ n = 0
      BY <1>1 DEF StopReasons
    <3>q. QED
      BY <3>1, <3>2
  <2> HIDE DEF m
  <2>3. CASE pc' \in {"fatal", "turnEnd"}
    <3>1. Closed(m, unanswered')
      BY <1>2, <2>2, <2>3 DEF Closed
    <3>q. QED
      BY <1>2, <1>4, <2>1, <2>3, <3>1, ShownOne DEF IInv
  <2>4. CASE pc' = "tools"
    <3>1. Settled(messages, unanswered, 0) /\ Settled(context, unanswered, 0)
      BY <1>4 DEF ShownInv, Open
    <3>2. Settled(messages', unanswered', 1) /\ Settled(context', unanswered', 1)
      BY <1>2, <1>3, <1>4, <2>1, <3>1, SettledReply
    <3>3. torn' \/ (Placed(messages') /\ Placed(context'))
      <4>0. \A i \in DOMAIN <<m>> : <<m>>[i].role /= "toolResult"
        BY <1>2
      <4>1. /\ <<m>> \in Seq(Message) /\ \A i \in DOMAIN <<m>> : <<m>>[i].role /= "toolResult"
            /\ Append(messages, m) = messages \o <<m>> /\ Append(context, m) = context \o <<m>>
        BY <1>2, <1>3, <4>0, AppendIsConcat
      <4>2. torn \/ (Placed(messages \o <<m>>) /\ Placed(context \o <<m>>))
        BY <1>3, <4>1, PlacedGrows DEF ShownInv
      <4>q. QED
        BY <1>4, <2>1, <4>1, <4>2
    <3>4. LastOf(messages') = m /\ LastOf(context') = m
      BY <1>2, <1>3, <1>4, <2>1, LastOfAppend
    <3>5. Open' = 1
      BY <2>4 DEF Open
    <3>6. detached' => torn'
      BY <1>4 DEF ShownInv
    <3>q. QED
      BY <2>4, <3>2, <3>3, <3>4, <3>5, <3>6 DEF ShownInv
  <2>q. QED
    BY <2>2, <2>3, <2>4
<1>q. QED
  BY <1>5, <1>6

(* The results of its calls, all of them unless an abort or a subscriber    *)
(* cut the batch short.                                                     *)
LEMMA ShownTools == ASSUME IInv, ShownInv, RunTools PROVE ShownInv'
<1>1. PICK reply \in AssistantMessage : reply = LastOf(context)
  BY DEF RunTools, IInv, LookedInv
<1>2. reply.calls \in Nat /\ reply.turn \in Nat
  BY <1>1 DEF AssistantMessage
<1> DEFINE Results(k) == [i \in 1..k |-> ToolResult(reply.turn, i)]
<1>3. PICK k \in 0..reply.calls :
        /\ messages' = messages \o Results(k)
        /\ \/ pc' = "turnEnd" /\ context' = context \o Results(k)
           \/ pc' = "failing" /\ context' = context
        /\ \/ k = reply.calls /\ unanswered' = unanswered
           \/ unanswered' = unanswered \union {reply.turn}
        /\ pc' = "turnEnd" \/ unanswered' = unanswered \union {reply.turn}
  <2>1. CASE Throw(<<>>)
    <3>1. \/ \E k \in 0..reply.calls : /\ messages' = messages \o Results(k)
                                       /\ unanswered' = unanswered \union {reply.turn}
          \/ pc' = "turnEnd"
      BY <1>1, <2>1 DEF RunTools
    <3>2. pc' = "failing" /\ context' = context
      BY <2>1 DEF Throw
    <3>q. QED
      BY <3>1, <3>2
  <2>2. CASE ~Throw(<<>>)
    <3>1. PICK o \in BatchOutcomes(reply.calls, reply.stop = "length", aborted) :
            /\ messages' = messages \o Results(o.answered)
            /\ context' = context \o Results(o.answered)
            /\ pc' = "turnEnd"
            /\ unanswered' = IF aborted /\ o.answered < reply.calls
                             THEN unanswered \union {reply.turn} ELSE unanswered
      BY <1>1, <2>2 DEF RunTools
    <3>2. /\ o.answered \in 1..reply.calls
          /\ o.answered < reply.calls => aborted
      BY DEF BatchOutcomes
    <3>3. o.answered \in 0..reply.calls /\ (~(o.answered < reply.calls) => o.answered = reply.calls)
      BY <1>2, <3>2
    <3>q. QED
      BY <3>1, <3>2, <3>3
  <2>q. QED
    BY <2>1, <2>2
<1> HIDE DEF Results
<1>4. /\ messages \in Seq(Message) /\ context \in Seq(Message) /\ context /= <<>>
      /\ pc = "tools" /\ k \in Nat /\ k <= reply.calls
  BY <1>2 DEF RunTools, IInv, TypeInv, LookedInv
<1>5. torn' = torn /\ detached' = detached
  BY DEF RunTools
<1>6. /\ Settled(messages, unanswered, 1) /\ Settled(context, unanswered, 1)
      /\ messages /= <<>> => LastOf(messages) = reply
  BY <1>1, <1>4 DEF ShownInv, Open
<1>7. unanswered \subseteq unanswered' /\ (k = reply.calls \/ reply.turn \in unanswered')
  BY <1>3
<1>8. Settled(messages \o Results(k), unanswered', 0)
  BY <1>4, <1>6, <1>7, SettledResults DEF Results
<1>9. Settled(context', unanswered', 0)
  <2>1. CASE pc' = "turnEnd"
    <3>1. Settled(context \o Results(k), unanswered', 0)
      BY <1>1, <1>4, <1>6, <1>7, SettledResults DEF Results
    <3>q. QED
      BY <1>3, <2>1, <3>1
  <2>2. CASE pc' /= "turnEnd"
    <3>1. context' = context /\ reply.turn \in unanswered'
      BY <1>3, <2>2
    <3>2. Settled(context \o Results(0), unanswered', 0) /\ Results(0) = <<>>
      <4>1. 0 \in Nat /\ Results(0) = <<>>
        BY DEF Results
      <4>q. QED
        BY <1>1, <1>4, <1>6, <1>7, <3>1, <4>1, SettledResults DEF Results
    <3>3. context \o <<>> = context
      BY <1>4
    <3>q. QED
      BY <3>1, <3>2, <3>3
  <2>q. QED
    BY <2>1, <2>2
<1>10. torn' \/ (Placed(messages') /\ Placed(context'))
  <2> SUFFICES ASSUME ~torn PROVE Placed(messages') /\ Placed(context')
    BY <1>5
  <2>1. Placed(messages) /\ Placed(context) /\ ~detached
    BY DEF ShownInv
  <2>2. messages = context
    BY <1>4, <2>1 DEF IInv, TranscriptInv, Phases
  <2>3. Placed(context \o Results(k))
    BY <1>1, <1>4, <2>1, PlacedResults DEF Results
  <2>q. QED
    BY <1>3, <2>1, <2>2, <2>3
<1>11. Open' = 0 /\ pc' \notin {"tools", "idle"}
  BY <1>3 DEF Open
<1>12. detached' => torn'
  BY <1>5 DEF ShownInv
<1>q. QED
  BY <1>3, <1>8, <1>9, <1>10, <1>11, <1>12 DEF ShownInv

(* The rest of the loop.                                                    *)
LEMMA ShownSteps ==
  ASSUME IInv, IInv', PendingInv, PendingInv', ShownInv, [Next]_vars
  PROVE  ShownInv'
<1>1. CASE PollSteering \/ PollLength \/ PollFollowUp \/ StartThrows \/ StreamReply \/ EndTurn
  <2>1. /\ messages' = messages /\ context' = context /\ unanswered' = unanswered
        /\ torn' = torn /\ detached' = detached
        /\ pc \notin {"tools", "idle"} /\ pc' \notin {"tools", "idle"}
    BY <1>1 DEF PollSteering, PollLength, PollFollowUp, StartThrows, StreamReply, EndTurn, Throw,
                AfterEmptyPoll, state, loop, excuses
  <2>2. FailureMessage \in Message /\ FailureMessage.role /= "toolResult"
        /\ Closed(FailureMessage, unanswered')
    BY OwnMessages DEF FailureMessage, Assistant, Closed
  <2>q. QED
    BY <2>1, <2>2, ShownOne DEF IInv
<1>2. CASE EndRun \/ HandleRunFailure
  <2>1. /\ messages' \in {messages, Append(messages, FailureMessage)}
        /\ unanswered' = unanswered /\ torn' = torn
        /\ \/ pc' = "idle" /\ context' = <<>> /\ detached' = FALSE
           \/ pc' = "failing" /\ context' = context /\ detached' = detached
        /\ pc \in {"agentEnd", "failing"}
    BY <1>2 DEF EndRun, HandleRunFailure, FinishRun, Throw, excuses
  <2>2. FailureMessage \in Message /\ FailureMessage.role /= "toolResult"
        /\ Closed(FailureMessage, unanswered')
    BY OwnMessages DEF FailureMessage, Assistant, Closed
  <2>q. QED
    BY <2>1, <2>2, ShownOne DEF IInv
<1>3. CASE UNCHANGED vars
  BY <1>3, ShownKept DEF vars, state, loop, history, excuses
<1>4. CASE \E stop \in StopReasons, n \in 0..MaxCalls : EndReply(stop, n)
  BY <1>4, ShownReply
<1>q. QED
  BY <1>1, <1>2, <1>3, <1>4, ShownCaller, ShownEmits, ShownTools DEF Next, RunLoop

------------------------------------------------------------------------------
(* The transcript under a run that was reset.                               *)

(* Both grow by the same messages, or neither does.                         *)
LEMMA SuffixGrows ==
  ASSUME TypeInv, SuffixInv, NEW r \in Seq(Message), pc \notin {"idle", "failing", "prompts"},
         pc' \notin {"idle", "prompts"},
         \/ pc' = "failing"
         \/ messages' = messages \o r /\ context' = context \o r
  PROVE  SuffixInv'
<1>1. CASE pc' = "failing"
  BY <1>1 DEF SuffixInv
<1>2. CASE pc' /= "failing"
  <2>1. PICK x \in Seq(Message) : context = (x \o messages) \o Rest
    BY DEF SuffixInv
  <2>2. messages \in Seq(Message) /\ Rest = <<>> /\ Rest' = <<>>
    BY DEF TypeInv, Rest
  <2>3. ((x \o messages) \o <<>>) \o r = (x \o (messages \o r)) \o <<>>
    BY <2>2
  <2>q. QED
    BY <1>2, <2>1, <2>2, <2>3 DEF SuffixInv
<1>q. QED
  BY <1>1, <1>2

LEMMA SuffixSteps == ASSUME IInv, IInv', SuffixInv, [Next]_vars PROVE SuffixInv'
<1>0. /\ messages \in Seq(Message) /\ context \in Seq(Message) /\ pending \in Seq(Message)
      /\ <<>> \in Seq(Message) /\ messages \o <<>> = messages /\ context \o <<>> = context
  BY DEF IInv, TypeInv
<1>1. CASE \/ Steer \/ FollowUp \/ ClearSteeringQueue \/ ClearFollowUpQueue \/ Abort
           \/ UNCHANGED vars
  <2>1. UNCHANGED <<messages, context, pc, pending>>
    BY <1>1 DEF Steer, FollowUp, ClearSteeringQueue, ClearFollowUpQueue, Abort, vars, state, loop
  <2>q. QED
    BY <2>1 DEF SuffixInv, Rest
<1>2. CASE Reset
  <2>1. messages' = <<>> /\ UNCHANGED <<context, pc, pending>>
    BY <1>2 DEF Reset, loop
  <2>2. CASE pc \notin {"idle", "failing"}
    <3>1. PICK x \in Seq(Message) : context = (x \o messages) \o Rest
      BY <2>2 DEF SuffixInv
    <3>2. x \o messages \in Seq(Message) /\ (x \o messages) \o <<>> = x \o messages
      BY <1>0
    <3>3. Rest' = Rest
      BY <2>1 DEF Rest
    <3>q. QED
      BY <2>1, <3>1, <3>2, <3>3 DEF SuffixInv
  <2>q. QED
    BY <2>1, <2>2 DEF SuffixInv
<1>3. CASE Prompt \/ ContinueTranscript \/ ContinueWithSteering \/ ContinueWithFollowUp
  <2>1. PICK prompts, skip : BeginRun(prompts, skip)
    BY <1>3 DEF Prompt, ContinueTranscript, ContinueWithSteering, ContinueWithFollowUp
  <2>2. /\ messages' = messages /\ context' = messages \o prompts /\ pending' = prompts
        /\ pc' = IF prompts = <<>> THEN "pollInitial" ELSE "prompts"
    BY <2>1 DEF BeginRun, RunContext
  <2>3. Rest' = prompts
    BY <2>2 DEF Rest
  <2>4. <<>> \o messages = messages
    BY <1>0
  <2>q. QED
    BY <1>0, <2>2, <2>3, <2>4 DEF SuffixInv
<1>4. CASE EmitPrompt
  <2>1. CASE pc' = "failing"
    BY <2>1 DEF SuffixInv
  <2>2. CASE pc' /= "failing"
    <3>1. /\ pc = "prompts" /\ pending /= <<>>
          /\ messages' = Append(messages, Head(pending)) /\ pending' = Tail(pending)
          /\ pc' = IF Tail(pending) = <<>> THEN "pollInitial" ELSE "prompts"
          /\ context' = context
      BY <1>4, <2>2 DEF EmitPrompt, EmitPending, Throw
    <3>2. PICK x \in Seq(Message) : context = (x \o messages) \o pending
      BY <3>1 DEF SuffixInv, Rest
    <3>3. Rest' = Tail(pending)
      BY <3>1 DEF Rest
    <3>4. /\ x \o messages \in Seq(Message)
          /\ x \o Append(messages, Head(pending)) = Append(x \o messages, Head(pending))
      BY <1>0, <3>1
    <3>5. Append(x \o messages, Head(pending)) \o Tail(pending) = (x \o messages) \o pending
      BY <1>0, <3>1, <3>4, MoveHead
    <3>q. QED
      BY <3>1, <3>2, <3>3, <3>4, <3>5 DEF SuffixInv
  <2>q. QED
    BY <2>1, <2>2
<1>5. CASE Inject
  <2>1. pending /= <<>> /\ pc = "inject"
    BY <1>5 DEF Inject, EmitPending
  <2>2. /\ <<Head(pending)>> \in Seq(Message)
        /\ Append(messages, Head(pending)) = messages \o <<Head(pending)>>
        /\ Append(context, Head(pending)) = context \o <<Head(pending)>>
    <3>1. Head(pending) \in Message
      BY <1>0, <2>1
    <3>q. QED
      BY <1>0, <3>1, AppendIsConcat
  <2>3. /\ pc' \notin {"idle", "prompts"}
        /\ \/ pc' = "failing"
           \/ /\ messages' = Append(messages, Head(pending))
              /\ context' = Append(context, Head(pending))
    BY <1>5 DEF Inject, EmitPending, Throw
  <2>q. QED
    BY <2>1, <2>2, <2>3, SuffixGrows DEF IInv
<1>6. CASE PollSteering \/ PollLength \/ PollFollowUp \/ StartThrows \/ StreamReply \/ EndTurn
  <2>1. /\ messages' = messages /\ context' = context
        /\ pc \notin {"idle", "failing", "prompts"} /\ pc' \notin {"idle", "prompts"}
    BY <1>6 DEF PollSteering, PollLength, PollFollowUp, StartThrows, StreamReply, EndTurn, Throw,
                AfterEmptyPoll, state, loop
  <2>q. QED
    BY <1>0, <2>1, SuffixGrows DEF IInv
<1>7. CASE \E stop \in StopReasons, n \in 0..MaxCalls : EndReply(stop, n)
  <2>1. PICK m : /\ messages' = Append(messages, m)
                 /\ pc' = "failing" \/ context' = Append(context, m)
    BY <1>7 DEF EndReply, Throw
  <2>2. m \in Message
    <3>1. messages' \in Seq(Message) /\ Len(messages') = Len(messages) + 1
          /\ messages'[Len(messages) + 1] = m
      BY <1>0, <2>1 DEF IInv, TypeInv
    <3>q. QED
      BY <1>0, <3>1
  <2>3. /\ <<m>> \in Seq(Message) /\ Append(messages, m) = messages \o <<m>>
        /\ Append(context, m) = context \o <<m>>
    BY <1>0, <2>2, AppendIsConcat
  <2>4. pc = "stream" /\ pc' \notin {"idle", "prompts"}
    <3>1. PICK stop \in StopReasons, n \in 0..MaxCalls : EndReply(stop, n)
      BY <1>7
    <3>2. n > 0 \/ n = 0
      BY BoundAssumption
    <3>q. QED
      BY <3>1, <3>2 DEF EndReply, Throw, StopReasons
  <2>q. QED
    BY <2>1, <2>3, <2>4, SuffixGrows DEF IInv
<1>8. CASE RunTools
  <2>1. CASE pc' = "failing"
    BY <2>1 DEF SuffixInv
  <2>2. CASE pc' /= "failing"
    <3>1. PICK o \in BatchOutcomes(LastOf(context).calls, LastOf(context).stop = "length",
                                   aborted) :
            /\ messages' = messages \o [i \in 1..o.answered |->
                                          ToolResult(LastOf(context).turn, i)]
            /\ context' = context \o [i \in 1..o.answered |->
                                        ToolResult(LastOf(context).turn, i)]
            /\ pc' = "turnEnd"
      BY <1>8, <2>2 DEF RunTools, Throw
    <3>2. pc = "tools" /\ LastOf(context).turn \in Nat /\ o.answered \in Nat
      BY <1>8, <3>1 DEF RunTools, IInv, LookedInv, AssistantMessage, BatchOutcomes
    <3>3. [i \in 1..o.answered |-> ToolResult(LastOf(context).turn, i)] \in Seq(Message)
      BY <3>2, OwnMessages
    <3>q. QED
      BY <3>1, <3>2, <3>3, SuffixGrows DEF IInv
  <2>q. QED
    BY <2>1, <2>2
<1>9. CASE EndRun \/ HandleRunFailure
  <2>1. pc' \in {"idle", "failing"}
    BY <1>9 DEF EndRun, HandleRunFailure, FinishRun, Throw
  <2>q. QED
    BY <2>1 DEF SuffixInv
<1>q. QED
  BY <1>1, <1>2, <1>3, <1>4, <1>5, <1>6, <1>7, <1>8, <1>9 DEF Next, Caller, RunLoop

------------------------------------------------------------------------------
(* What hasMoreToolCalls says of the last reply.                            *)

LEMMA HasMoreSteps == ASSUME IInv, HasMoreInv, [Next]_vars PROVE HasMoreInv'
<1>1. CASE \/ Steer \/ FollowUp \/ ClearSteeringQueue \/ ClearFollowUpQueue \/ Abort \/ Reset
           \/ UNCHANGED vars
  <2>1. UNCHANGED <<context, hasMore, pc>>
    BY <1>1 DEF Steer, FollowUp, ClearSteeringQueue, ClearFollowUpQueue, Abort, Reset, vars, loop
  <2>q. QED
    BY <2>1 DEF HasMoreInv
<1>2. CASE \/ Prompt \/ ContinueTranscript \/ ContinueWithSteering \/ ContinueWithFollowUp
           \/ EmitPrompt \/ Inject \/ StartThrows \/ StreamReply \/ EndRun \/ HandleRunFailure
  <2>1. \/ pc' \in {"prompts", "pollInitial", "inject", "stream", "failing", "idle"}
        \/ UNCHANGED <<context, hasMore, pc>>
    BY <1>2 DEF Prompt, ContinueTranscript, ContinueWithSteering, ContinueWithFollowUp, BeginRun,
                EmitPrompt, Inject, EmitPending, StartThrows, StreamReply, EndRun,
                HandleRunFailure, FinishRun, Throw, loop
  <2>q. QED
    BY <2>1 DEF HasMoreInv
<1>3. CASE PollSteering
  <2>1. hasMore' = hasMore
    BY <1>3 DEF PollSteering
  <2>2. /\ pc' \in {"inject", "stream", "pollLength", "pollFollowUp"}
        /\ pc' \in {"pollLength", "pollFollowUp"} => pc = "pollSteering" /\ (CutOff \/ ~hasMore)
    BY <1>3 DEF PollSteering, AfterEmptyPoll
  <2>3. pc = "pollSteering" /\ CutOff => ~hasMore
    BY DEF CutOff, HasMoreInv
  <2>q. QED
    BY <2>1, <2>2, <2>3 DEF HasMoreInv
<1>4. CASE PollLength \/ PollFollowUp
  <2>1. /\ hasMore' = hasMore /\ pc \in {"pollLength", "pollFollowUp"}
        /\ pc' \in {"inject", "pollFollowUp", "agentEnd"}
    BY <1>4 DEF PollLength, PollFollowUp
  <2>q. QED
    BY <2>1 DEF HasMoreInv
<1>5. CASE \E stop \in StopReasons, n \in 0..MaxCalls : EndReply(stop, n)
  <2>1. PICK stop \in StopReasons, n \in 0..MaxCalls : EndReply(stop, n)
    BY <1>5
  <2>2. CASE pc' \in {"failing", "fatal", "tools"}
    BY <2>2 DEF HasMoreInv
  <2>3. CASE pc' = "turnEnd"
    <3>1. hasMore' = FALSE /\ context' = Append(context, Assistant(turn', stop, n))
      BY <2>1, <2>3 DEF EndReply, Throw
    <3>2. context \in Seq(Message)
      BY DEF IInv, TypeInv
    <3>3. Assistant(turn', stop, n) \in Message
      <4>1. turn \in Nat /\ turn' = turn + 1 /\ n \in Nat
        BY <2>1, BoundAssumption DEF IInv, TypeInv, EndReply
      <4>q. QED
        BY <4>1, MessagesAreMessages
    <3>4. context' /= <<>>
      BY <3>1, <3>2, <3>3, LastOfAppend
    <3>q. QED
      BY <2>3, <3>1, <3>4 DEF HasMoreInv
  <2>4. pc' \in {"failing", "fatal", "tools", "turnEnd"}
    <3>1. n > 0 \/ n = 0
      BY BoundAssumption
    <3>q. QED
      BY <2>1, <3>1 DEF EndReply, Throw, StopReasons
  <2>q. QED
    BY <2>2, <2>3, <2>4
<1>6. CASE RunTools
  <2>1. CASE pc' = "failing"
    BY <2>1 DEF HasMoreInv
  <2>2. CASE pc' /= "failing"
    <3>1. PICK reply \in AssistantMessage : reply = LastOf(context)
      BY <1>6 DEF RunTools, IInv, LookedInv
    <3>2. reply.calls \in Nat /\ reply.turn \in Nat
      BY DEF AssistantMessage
    <3>3. PICK o \in BatchOutcomes(reply.calls, reply.stop = "length", aborted) :
            /\ context' = context \o [i \in 1..o.answered |-> ToolResult(reply.turn, i)]
            /\ pc' = "turnEnd"
      BY <1>6, <2>2, <3>1 DEF RunTools, Throw
    <3>4. PICK n \in 1..reply.calls : n = o.answered
      BY DEF BatchOutcomes
    <3>5. PICK r : r = [i \in 1..n |-> ToolResult(reply.turn, i)]
      OBVIOUS
    <3>6. /\ n \in Nat \ {0} /\ r \in Seq(Message) /\ Len(r) = n
          /\ r[n] = ToolResult(reply.turn, n)
      <4>1. n \in Nat \ {0}
        BY <3>2, <3>4
      <4>2. r \in Seq(Message)
        BY <3>2, <3>5, <4>1, OwnMessages
      <4>q. QED
        BY <3>5, <4>1, <4>2
    <3>7. context' = context \o r /\ context \in Seq(Message)
      BY <3>3, <3>4, <3>5 DEF IInv, TypeInv
    <3>8. context' /= <<>> /\ LastOf(context') = ToolResult(reply.turn, n)
      BY <3>6, <3>7 DEF LastOf
    <3>9. LastOf(context').role = "toolResult"
      BY <3>8 DEF ToolResult
    <3>q. QED
      BY <3>3, <3>8, <3>9 DEF HasMoreInv
  <2>q. QED
    BY <2>1, <2>2
<1>7. CASE EndTurn
  <2>1. \/ pc' \in {"failing", "agentEnd"}
        \/ /\ pc = "turnEnd" /\ pc' = "pollSteering"
           /\ context' = context /\ hasMore' = hasMore
    BY <1>7 DEF EndTurn, Throw, loop
  <2>q. QED
    BY <2>1 DEF HasMoreInv
<1>q. QED
  BY <1>1, <1>2, <1>3, <1>4, <1>5, <1>6, <1>7 DEF Next, Caller, RunLoop

------------------------------------------------------------------------------
(* The invariant, and what follows from it.                                 *)

(* An agent starts with no message at all.                                  *)
LEMMA InitMInv == Init => MInv
<1> SUFFICES ASSUME Init PROVE MInv
  OBVIOUS
<1>1. /\ messages = <<>> /\ pending = <<>> /\ steeringQueue = <<>> /\ followUpQueue = <<>>
      /\ discarded = {} /\ submitted = 0 /\ context = <<>> /\ pc = "idle"
      /\ detached = FALSE
  BY DEF Init
<1>2. Elements(<<>>) = {} /\ Sorted(<<>>) /\ Precedes(<<>>, <<>>)
  BY Unordered DEF Precedes
<1>3. OrderInv /\ PendingInv /\ HasMoreInv /\ SuffixInv
  BY <1>1, <1>2 DEF OrderInv, PendingInv, HasMoreInv, SuffixInv
<1>6. ShownInv
  BY <1>1 DEF ShownInv, Settled, Placed, Open
<1>4. Seen = {} /\ 1..submitted = {}
  BY <1>1, <1>2 DEF Seen, Held
<1>5. OnceInv
  BY <1>1, <1>4 DEF OnceInv
<1>q. QED
  BY <1>3, <1>5, <1>6 DEF MInv

(* Every step keeps the order, the places and the answers.                  *)
LEMMA NextMInv == IInv /\ IInv' /\ MInv /\ [Next]_vars => MInv'
<1> SUFFICES ASSUME IInv, IInv', MInv, [Next]_vars PROVE MInv'
  OBVIOUS
<1>1. OrderInv /\ OnceInv /\ PendingInv /\ HasMoreInv /\ ShownInv /\ SuffixInv
  BY DEF MInv
<1>2. PendingInv'
  BY <1>1, PendingSteps
<1>3. HasMoreInv' /\ ShownInv' /\ SuffixInv'
  BY <1>1, <1>2, HasMoreSteps, ShownSteps, SuffixSteps
<1>4. OrderInv' /\ OnceInv'
  <2>1. CASE Caller
    BY <1>1, <2>1, SubmitSteps, DropSteps, ContinueTakes, Polled, OwnSteps, Added DEF Caller
  <2>2. CASE RunLoop
    BY <1>1, <2>2, EmitSteps, PollTakes, Polled, OwnSteps, Added DEF RunLoop
  <2>3. CASE UNCHANGED vars
    BY <1>1, <2>3, OwnSteps, Added
  <2>q. QED
    BY <2>1, <2>2, <2>3 DEF Next
<1>q. QED
  BY <1>2, <1>3, <1>4 DEF MInv

(* The messages an agent was handed are sorted and each in one place, and   *)
(* the calls of its replies have their results or were cut short, in every  *)
(* reachable state.                                                         *)
THEOREM MessagesInvariance == Spec => []MInv
BY InitMInv, NextMInv, Invariance, PTL DEF Spec

(* Messages of one kind reach the transcript in the order they were queued  *)
(* (agent.ts: drain; agent-loop.ts: runLoop).                               *)
THEOREM QueuesKeepOrder == Spec => []QueueOrder
<1>1. ASSUME IInv, OrderInv PROVE QueueOrder
  <2>1. ASSUME NEW q \in Seq(Message), Sorted(q), Precedes(messages, q), Precedes(pending, q)
        PROVE  Sorted(messages \o pending \o q)
    <3>1. /\ messages \in Seq(Message) /\ pending \in Seq(Message)
          /\ messages \o pending \in Seq(Message)
      BY <1>1, Waiting
    <3>2. Sorted(messages \o pending)
      BY <1>1, <3>1, SortedConcat DEF OrderInv
    <3>3. Elements(messages \o pending) = Elements(messages) \union Elements(pending)
      BY <3>1, ElementsOfConcat
    <3>4. Precedes(messages \o pending, q)
      BY <2>1, <3>3 DEF Precedes
    <3>q. QED
      BY <2>1, <3>1, <3>2, <3>4, SortedConcat
  <2>2. /\ Sorted(messages \o pending \o steeringQueue)
        /\ Sorted(messages \o pending \o followUpQueue)
    BY <1>1, <2>1, Waiting DEF OrderInv
  <2>q. QED
    BY <2>2 DEF QueueOrder, Sorted, Older, IsUser
<1>2. IInv /\ MInv => QueueOrder
  BY <1>1 DEF MInv
<1>q. QED
  BY <1>2, Invariance, MessagesInvariance, PTL

(* In a sorted sequence a user message stands at most once.                 *)
LEMMA SortedOnce ==
  ASSUME NEW s \in Seq(Message), Sorted(s), NEW m, IsUser(m), m.id \in Nat
  PROVE  Copies(m, s) = IF m \in Elements(s) THEN 1 ELSE 0
<1> DEFINE places == {i \in DOMAIN s : s[i] = m}
<1>1. ASSUME m \notin Elements(s) PROVE Copies(m, s) = 0
  <2>1. places = {}
    BY <1>1 DEF Elements
  <2>q. QED
    BY <2>1, FS_EmptySet DEF Copies
<1>2. ASSUME m \in Elements(s) PROVE Copies(m, s) = 1
  <2>1. PICK i \in DOMAIN s : s[i] = m
    BY <1>2 DEF Elements
  <2>2. ASSUME NEW j \in DOMAIN s, s[j] = m, j # i PROVE FALSE
    <3>1. i \in Nat /\ j \in Nat
      OBVIOUS
    <3>2. i < j \/ j < i
      BY <2>2, <3>1
    <3>3. Older(m, m)
      BY <2>1, <2>2, <3>2 DEF Sorted
    <3>q. QED
      BY <3>3, Unordered
  <2>3. places = {i}
    BY <2>1, <2>2
  <2>q. QED
    BY <2>3, FS_Singleton DEF Copies
<1>q. QED
  BY <1>1, <1>2

(* As many messages are remembered as were handed over.                     *)
LEMMA SubmittedCounted ==
  ASSUME IInv, OnceInv,
         Elements(messages \o pending \o steeringQueue \o followUpQueue) = Held
  PROVE  Cardinality(Submitted) = submitted
<1>1. submitted \in Nat
  BY Waiting
<1>2. Submitted = {m \in [role : {"user"}, kind : Kinds, id : 1..submitted] : m \in Seen}
  BY DEF Submitted, Seen
<1>3. \A k \in Kinds, i \in 1..submitted :
        /\ User(k, i) \in [role : {"user"}, kind : Kinds, id : 1..submitted]
        /\ User(k, i).kind = k /\ User(k, i).id = i
  BY DEF User
<1>4. \A m \in Submitted : m.kind \in Kinds /\ m.id \in 1..submitted /\ m = User(m.kind, m.id)
  BY <1>2 DEF User
<1> DEFINE KindOf(i) == CHOOSE k \in Kinds : User(k, i) \in Seen
           f == [i \in 1..submitted |-> User(KindOf(i), i)]
<1>5. ASSUME NEW i \in 1..submitted
      PROVE  /\ KindOf(i) \in Kinds /\ User(KindOf(i), i) \in Seen
             /\ \A k \in Kinds : User(k, i) \in Seen => k = KindOf(i)
  <2>1. PICK k \in Kinds : \A j \in Kinds : User(j, i) \in Seen <=> j = k
    BY DEF OnceInv
  <2>q. QED
    BY <2>1
<1> HIDE DEF KindOf
<1>6. \A i \in 1..submitted : f[i] \in Submitted /\ f[i].id = i
  BY <1>2, <1>3, <1>5
<1>7. \A m \in Submitted : m.id \in 1..submitted /\ f[m.id] = m
  <2> SUFFICES ASSUME NEW m \in Submitted PROVE m.id \in 1..submitted /\ f[m.id] = m
    OBVIOUS
  <2>1. m.kind \in Kinds /\ m.id \in 1..submitted /\ m = User(m.kind, m.id) /\ m \in Seen
    BY <1>2, <1>4
  <2>2. m.kind = KindOf(m.id)
    BY <1>5, <2>1
  <2>q. QED
    BY <2>1, <2>2
<1>8. f \in Bijection(1..submitted, Submitted)
  <2>1. f \in [1..submitted -> Submitted]
    BY <1>6
  <2>2. \A i, j \in 1..submitted : f[i] = f[j] => i = j
    BY <1>6
  <2> HIDE DEF f
  <2>q. QED
    BY <1>7, <2>1, <2>2 DEF Bijection, Injection, Surjection, IsInjective
<1>9. ExistsBijection(1..submitted, Submitted)
  BY <1>8 DEF ExistsBijection
<1>q. QED
  BY <1>1, <1>9, FS_CountingElements

(* A message a caller handed over is in exactly one place, and only a       *)
(* clear, a reset or a failed run drops one (agent.ts: drain,               *)
(* runPromptMessages; agent-loop.ts: runLoop).                              *)
THEOREM EveryMessageOnce == Spec => []NoMessageLostOrDoubled
<1>1. ASSUME IInv, OrderInv, OnceInv PROVE NoMessageLostOrDoubled
  <2> DEFINE mp == messages \o pending
             mps == mp \o steeringQueue
             all == mps \o followUpQueue
  <2>1. /\ messages \in Seq(Message) /\ pending \in Seq(Message)
        /\ steeringQueue \in Seq(Message) /\ followUpQueue \in Seq(Message)
        /\ mp \in Seq(Message) /\ mps \in Seq(Message) /\ all \in Seq(Message)
    BY <1>1, Waiting
  <2>2. Sorted(mp) /\ Elements(mp) = Elements(messages) \union Elements(pending)
    BY <1>1, <2>1, SortedConcat, ElementsOfConcat DEF OrderInv
  <2>3. Precedes(mp, steeringQueue) /\ Precedes(mp, followUpQueue)
    BY <1>1, <2>2 DEF OrderInv, Precedes
  <2> HIDE DEF mp
  <2>4. Sorted(mps) /\ Elements(mps) = Elements(mp) \union Elements(steeringQueue)
    <3>1. Sorted(steeringQueue)
      BY <1>1 DEF OrderInv
    <3>q. QED
      BY <2>1, <2>2, <2>3, <3>1, SortedConcat, ElementsOfConcat
  <2> HIDE DEF mps
  <2>5. Precedes(steeringQueue, followUpQueue)
    BY <1>1, Waiting DEF Precedes, Older
  <2>6. Precedes(mps, followUpQueue)
    BY <2>3, <2>4, <2>5 DEF Precedes
  <2>7. Sorted(all) /\ Elements(all) = Elements(mps) \union Elements(followUpQueue)
    <3>1. Sorted(followUpQueue)
      BY <1>1 DEF OrderInv
    <3>q. QED
      BY <2>1, <2>4, <2>6, <3>1, SortedConcat, ElementsOfConcat
  <2>8. Elements(all) = Held
    BY <2>2, <2>4, <2>7 DEF Held
  <2>9. ASSUME NEW i \in 1..submitted
        PROVE  \E k \in Kinds :
                 (IF User(k, i) \in discarded THEN 1 ELSE 0) + Copies(User(k, i), all) = 1
    <3>1. PICK k \in Kinds : User(k, i) \in Seen
      BY <1>1 DEF OnceInv
    <3>2. IsUser(User(k, i)) /\ User(k, i).id \in Nat
      BY DEF IsUser, User
    <3>3. Copies(User(k, i), all) = IF User(k, i) \in Held THEN 1 ELSE 0
      BY <2>1, <2>7, <2>8, <3>2, SortedOnce
    <3>4. User(k, i) \in discarded => User(k, i) \notin Held
      BY <1>1, <3>2 DEF OnceInv
    <3>5. (IF User(k, i) \in discarded THEN 1 ELSE 0) + Copies(User(k, i), all) = 1
      BY <3>1, <3>3, <3>4 DEF Seen
    <3>q. QED
      BY <3>5
  <2>10. Cardinality(Submitted) = submitted
    BY <1>1, <2>8, SubmittedCounted DEF mp, mps
  <2>q. QED
    BY <2>9, <2>10 DEF NoMessageLostOrDoubled, mp, mps
<1>2. IInv /\ MInv => NoMessageLostOrDoubled
  BY <1>1 DEF MInv
<1>q. QED
  BY <1>2, Invariance, MessagesInvariance, PTL

(* The model is sent the transcript, or, after a reset under the run, what  *)
(* the transcript is the end of; agent_end reports exactly what the run     *)
(* added to it (agent-loop.ts: runLoop; agent.ts: processEvents, reset).    *)
THEOREM ContextIsTranscript == Spec => []TranscriptIsContext
<1>1. ASSUME IInv, SuffixInv, AtTurnBoundary, detached
      PROVE  \E k \in 0..Len(context) : messages = SubSeq(context, k + 1, Len(context))
  <2>1. PICK x \in Seq(Message) : context = (x \o messages) \o <<>>
    BY <1>1 DEF SuffixInv, Rest, AtTurnBoundary
  <2>2. messages \in Seq(Message)
    BY <1>1 DEF IInv, TypeInv
  <2>3. context = x \o messages
    BY <2>1, <2>2
  <2>4. Len(x) \in 0..Len(x \o messages)
    BY <2>2
  <2>5. SubSeq(x \o messages, Len(x) + 1, Len(x \o messages)) = messages
    BY <2>2
  <2>q. QED
    BY <2>3, <2>4, <2>5
<1>2. IInv /\ ~detached => TranscriptIsContext
  BY DEF IInv, TranscriptInv, TranscriptIsContext, AtTurnBoundary, Phases
<1>3. IInv /\ MInv => TranscriptIsContext
  BY <1>1, <1>2 DEF MInv, TranscriptIsContext
<1>q. QED
  BY <1>3, Invariance, MessagesInvariance, PTL

(* Whatever became of earlier runs, the model is shown a call without its   *)
(* result only if an abort or a throwing subscriber cut its batch short,    *)
(* and a result without its call only if the transcript was reset under a   *)
(* run (agent-loop.ts: runLoop; agent.ts: handleRunFailure,                 *)
(* createContextSnapshot, reset).                                           *)
THEOREM ModelSeesEveryResult == Spec => []RequestsAreAnswered
<1>1. ASSUME IInv, ShownInv PROVE RequestsAreAnswered
  <2> SUFFICES ASSUME pc = "stream" PROVE RequestsAreAnswered
    BY DEF RequestsAreAnswered
  <2>1. Settled(context, unanswered, 0) /\ (torn \/ Placed(context))
    BY <1>1 DEF ShownInv, Open
  <2>2. DOMAIN context = 1..Len(context) - 0
    BY <1>1 DEF IInv, TypeInv
  <2>q. QED
    BY <2>1, <2>2 DEF RequestsAreAnswered, Settled, Done, Placed
<1>2. IInv /\ MInv => RequestsAreAnswered
  BY <1>1 DEF MInv
<1>q. QED
  BY <1>2, Invariance, MessagesInvariance, PTL

(* A follow-up is taken only when the agent would stop (agent-loop.ts: the  *)
(* outer loop and the length branch of runLoop).                            *)
THEOREM FollowUpsAreLast == Spec => FollowUpsWait
<1> DEFINE Waits == /\ active
                    /\ followUpQueue' /= followUpQueue /\ pending' /= pending
                    => ~hasMore /\ Elements(steeringQueue) \subseteq unpolled
<1>1. ASSUME IInv, HasMoreInv, [Next]_vars PROVE Waits
  <2>1. CASE PollLength \/ PollFollowUp
    <3>1. pc \in {"pollLength", "pollFollowUp"}
      BY <2>1 DEF PollLength, PollFollowUp
    <3>q. QED
      BY <1>1, <3>1 DEF HasMoreInv, IInv, LookedInv
  <2>2. CASE Caller
    BY <2>2 DEF Caller, Steer, FollowUp, ClearSteeringQueue, ClearFollowUpQueue, Abort, Reset,
                Prompt, ContinueTranscript, ContinueWithSteering, ContinueWithFollowUp, BeginRun,
                loop
  <2>3. CASE EmitPrompt \/ Inject \/ StartThrows \/ PollSteering \/ StreamReply \/ RunTools \/ EndTurn
             \/ EndRun \/ HandleRunFailure
             \/ \E stop \in StopReasons, n \in 0..MaxCalls : EndReply(stop, n)
    <3>1. followUpQueue' = followUpQueue
      BY <2>3 DEF EmitPrompt, Inject, EmitPending, StartThrows, PollSteering, StreamReply, RunTools, EndTurn,
                  EndRun, HandleRunFailure, EndReply, queues
    <3>q. QED
      BY <3>1
  <2>4. CASE UNCHANGED vars
    BY <2>4 DEF vars, queues
  <2>q. QED
    BY <1>1, <2>1, <2>2, <2>3, <2>4 DEF Next, RunLoop
<1>2. IInv /\ MInv /\ [Next]_vars => [Waits]_vars
  BY <1>1 DEF MInv
<1>q. QED
  BY <1>2, Invariance, MessagesInvariance, PTL DEF Spec, FollowUpsWait

------------------------------------------------------------------------------
(* The agent implements MessageDelivery.                                    *)

(* What a step does to the messages of a kind that wait, and to those that  *)
(* are delivered, in the words of the abstract specification.               *)
Moved(w, w1, d, d1) ==
  \E n \in 0..1 : n <= Len(w) /\ d1 = d \o SubSeq(w, 1, n) /\ Delivery!RestOf(w1, w, n)

(* The messages of a kind that wait, and where all but the taken ones are.  *)
Wait(k) == OfKind(k, pending \o steeringQueue \o followUpQueue)
OfThe(k) == [role : {"user"}, kind : {k}, id : Nat]
QueueOf(k) ==
  IF k = "steer" THEN steeringQueue ELSE IF k = "followUp" THEN followUpQueue ELSE <<>>

(* What is delivered was waiting first, and a middle part is what stays.    *)
LEMMA Moves ==
  ASSUME NEW T, NEW a \in Seq(T), NEW b \in Seq(T), NEW c \in Seq(T), NEW e \in Seq(T),
         Len(a) <= 1, NEW w, w = (a \o b) \o (c \o e), NEW d \in Seq(T)
  PROVE  Moved(w, c, d, d \o a)
<1> DEFINE n == Len(a)
           lo == Len(a) + Len(b) + 1
           hi == Len(a) + Len(b) + Len(c)
<1>0. /\ a \o b \in Seq(T) /\ Len(a \o b) = Len(a) + Len(b)
      /\ c \o e \in Seq(T) /\ Len(c \o e) = Len(c) + Len(e)
      /\ Len(a) \in Nat /\ Len(b) \in Nat /\ Len(c) \in Nat /\ Len(e) \in Nat
  OBVIOUS
<1>1. /\ n \in 0..1 /\ Len(b) \in Nat /\ Len(c) \in Nat /\ Len(e) \in Nat
      /\ w \in Seq(T) /\ Len(w) = Len(a) + Len(b) + Len(c) + Len(e)
  <2>1. PICK x \in Seq(T), y \in Seq(T) : x = a \o b /\ y = c \o e
    BY <1>0
  <2>2. w = x \o y
    BY <2>1
  <2>3. w \in Seq(T) /\ Len(w) = Len(x) + Len(y)
    BY <2>2
  <2>4. Len(w) = Len(a) + Len(b) + Len(c) + Len(e)
    BY <1>0, <2>1, <2>3
  <2>5. n \in 0..1
    <3>1. PICK l \in Nat : l = Len(a)
      BY <1>0
    <3>q. QED
      BY <3>1
  <2>q. QED
    BY <1>0, <2>3, <2>4, <2>5
<1>2. SubSeq(w, 1, n) = a
  <2>1. SubSeq(w, 1, n) \in Seq(T) /\ Len(SubSeq(w, 1, n)) = n
    BY <1>1
  <2>2. \A i \in 1..n : SubSeq(w, 1, n)[i] = a[i]
    BY <1>1
  <2>q. QED
    BY <2>1, <2>2
<1>3. SubSeq(w, lo, hi) = c
  <2>1. SubSeq(w, lo, hi) \in Seq(T) /\ Len(SubSeq(w, lo, hi)) = Len(c)
    BY <1>1
  <2>2. \A i \in 1..Len(c) : SubSeq(w, lo, hi)[i] = c[i]
    BY <1>1
  <2>q. QED
    BY <2>1, <2>2
<1>4. lo \in n + 1..Len(w) + 1 /\ hi \in 0..Len(w) /\ n <= Len(w)
  BY <1>1
<1> HIDE DEF n, lo, hi
<1>5. Delivery!RestOf(c, w, n)
  BY <1>3, <1>4 DEF Delivery!RestOf
<1>6. d \o a = d \o SubSeq(w, 1, n)
  BY <1>2
<1>q. QED
  BY <1>1, <1>4, <1>5, <1>6 DEF Moved, n

(* The messages of a kind in two sequences, one after the other.            *)
LEMMA OfKindConcat ==
  ASSUME NEW s \in Seq(Message), NEW t \in Seq(Message), NEW k
  PROVE  OfKind(k, s \o t) = OfKind(k, s) \o OfKind(k, t)
<1>1. PICK S : S = OfThe(k)
  OBVIOUS
<1>2. /\ OfKind(k, s \o t) = Selected(s \o t, S)
      /\ OfKind(k, s) = Selected(s, S) /\ OfKind(k, t) = Selected(t, S)
  BY <1>1 DEF OfKind, OfThe
<1>3. Selected(s \o t, S) = Selected(s, S) \o Selected(t, S)
  BY SelectedConcat
<1>q. QED
  BY <1>2, <1>3

(* The messages of a kind that wait: those taken, then those in its queue.  *)
LEMMA WaitIs ==
  ASSUME IInv, NEW k \in Kinds
  PROVE  /\ Wait(k) = OfKind(k, pending) \o QueueOf(k)
         /\ OfKind(k, pending) \in Seq(Message) /\ QueueOf(k) \in Seq(Message)
         /\ OfKind(k, messages) \in Seq(Message)
<1>1. /\ messages \in Seq(Message) /\ pending \in Seq(Message)
      /\ steeringQueue \in Seq(Message) /\ followUpQueue \in Seq(Message)
      /\ pending \o steeringQueue \in Seq(Message)
  BY Waiting
<1>2. /\ OfKind(k, pending) \in Seq(Message) /\ OfKind(k, messages) \in Seq(Message)
      /\ QueueOf(k) \in Seq(Message)
  BY <1>1, SelectedType DEF OfKind, QueueOf
<1>3. OfKind(k, steeringQueue) = IF k = "steer" THEN steeringQueue ELSE <<>>
  <2>1. steeringQueue \in Seq(Queued("steer"))
    BY DEF IInv, TypeInv
  <2>2. /\ Queued("steer") \subseteq OfThe("steer")
        /\ k # "steer" => Queued("steer") \intersect OfThe(k) = {}
    BY Waiting DEF Queued, User, OfThe
  <2>3. CASE k = "steer"
    <3>1. steeringQueue \in Seq(OfThe(k))
      BY <2>1, <2>2, <2>3
    <3>q. QED
      BY <2>3, <3>1, SelectedAll DEF OfKind, OfThe
  <2>4. CASE k # "steer"
    BY <2>1, <2>2, <2>4, SelectedNone DEF OfKind, OfThe
  <2>q. QED
    BY <2>3, <2>4
<1>4. OfKind(k, followUpQueue) = IF k = "followUp" THEN followUpQueue ELSE <<>>
  <2>1. followUpQueue \in Seq(Queued("followUp"))
    BY DEF IInv, TypeInv
  <2>2. /\ Queued("followUp") \subseteq OfThe("followUp")
        /\ k # "followUp" => Queued("followUp") \intersect OfThe(k) = {}
    BY Waiting DEF Queued, User, OfThe
  <2>3. CASE k = "followUp"
    <3>1. followUpQueue \in Seq(OfThe(k))
      BY <2>1, <2>2, <2>3
    <3>q. QED
      BY <2>3, <3>1, SelectedAll DEF OfKind, OfThe
  <2>4. CASE k # "followUp"
    BY <2>1, <2>2, <2>4, SelectedNone DEF OfKind, OfThe
  <2>q. QED
    BY <2>3, <2>4
<1>5. Wait(k) = OfKind(k, pending \o steeringQueue) \o OfKind(k, followUpQueue)
  BY <1>1, OfKindConcat DEF Wait
<1>6. OfKind(k, pending \o steeringQueue) = OfKind(k, pending) \o OfKind(k, steeringQueue)
  BY <1>1, OfKindConcat, SMTT(20)
<1>7. \A s \in Seq(Message) : s \o <<>> = s /\ <<>> \o s = s
  OBVIOUS
<1>8. OfKind(k, steeringQueue) \o OfKind(k, followUpQueue) = QueueOf(k)
  <2>1. CASE k = "steer"
    BY <1>1, <1>3, <1>4, <1>7, <2>1 DEF QueueOf
  <2>2. CASE k = "followUp"
    BY <1>1, <1>3, <1>4, <1>7, <2>2 DEF QueueOf
  <2>3. CASE k # "steer" /\ k # "followUp"
    BY <1>3, <1>4, <2>3 DEF QueueOf
  <2>q. QED
    BY <2>1, <2>2, <2>3
<1>9. OfKind(k, steeringQueue) \in Seq(Message) /\ OfKind(k, followUpQueue) \in Seq(Message)
  BY <1>1, SelectedType DEF OfKind
<1>10. Wait(k) = OfKind(k, pending) \o (OfKind(k, steeringQueue) \o OfKind(k, followUpQueue))
  BY <1>2, <1>5, <1>6, <1>9, SMTT(20)
<1>q. QED
  BY <1>2, <1>8, <1>10

(* A sequence of one, and what is added at the end of one.                  *)
LEMMA OfKindOne ==
  ASSUME NEW s \in Seq(Message), NEW m \in Message, NEW k
  PROVE  /\ OfKind(k, <<>>) = <<>>
         /\ OfKind(k, <<m>>) = IF m \in OfThe(k) THEN <<m>> ELSE <<>>
         /\ OfKind(k, Append(s, m)) = OfKind(k, s) \o OfKind(k, <<m>>)
         /\ s # <<>> => OfKind(k, s) = OfKind(k, <<Head(s)>>) \o OfKind(k, Tail(s))
<1>1. OfKind(k, <<>>) = <<>>
  BY SelectedEmpty DEF OfKind
<1>2. <<m>> = Append(<<>>, m) /\ <<>> \in Seq(Message) /\ <<m>> \in Seq(Message)
  OBVIOUS
<1>3. OfKind(k, <<m>>) = IF m \in OfThe(k) THEN <<m>> ELSE <<>>
  <2>1. PICK S : S = OfThe(k)
    OBVIOUS
  <2>2. \A r : OfKind(k, r) = Selected(r, S)
    BY <2>1 DEF OfKind, OfThe
  <2>3. PICK none \in Seq(Message) : none = <<>>
    BY <1>2
  <2>4. Selected(Append(none, m), S) = IF m \in S THEN Append(Selected(none, S),
       m) ELSE Selected(none, S)
    BY SelectedAppend
  <2>q. QED
    BY <1>1, <1>2, <2>1, <2>2, <2>3, <2>4
<1>4. Append(s, m) = s \o <<m>>
  OBVIOUS
<1>5. OfKind(k, Append(s, m)) = OfKind(k, s) \o OfKind(k, <<m>>)
  <2>1. PICK one \in Seq(Message) : one = <<m>>
    BY <1>2
  <2>2. OfKind(k, s \o one) = OfKind(k, s) \o OfKind(k, one)
    BY OfKindConcat
  <2>q. QED
    BY <1>4, <2>1, <2>2
<1>6. ASSUME s # <<>> PROVE OfKind(k, s) = OfKind(k, <<Head(s)>>) \o OfKind(k, Tail(s))
  <2>1. s = <<Head(s)>> \o Tail(s) /\ <<Head(s)>> \in Seq(Message) /\ Tail(s) \in Seq(Message)
    BY <1>6
  <2>2. OfKind(k, <<Head(s)>> \o Tail(s)) = OfKind(k, <<Head(s)>>) \o OfKind(k, Tail(s))
    BY <2>1, OfKindConcat
  <2>q. QED
    BY <2>1, <2>2
<1>q. QED
  BY <1>1, <1>3, <1>5, <1>6

------------------------------------------------------------------------------
(* A step of the agent, seen in every kind of message.                      *)
Delivers ==
  \A k \in Kinds : Moved(Wait(k), Wait(k)', OfKind(k, messages), OfKind(k, messages)')

(* The messages of a kind, in every state.                                  *)
LEMMA WaitIsNow ==
  IInv => \A k \in Kinds :
            /\ Wait(k) = OfKind(k, pending) \o QueueOf(k)
            /\ OfKind(k, pending) \in Seq(Message) /\ QueueOf(k) \in Seq(Message)
            /\ OfKind(k, messages) \in Seq(Message)
BY WaitIs

(* And after a step.                                                        *)
LEMMA WaitIsNext ==
  IInv' => \A k \in Kinds :
            /\ Wait(k)' = OfKind(k, pending') \o QueueOf(k)'
            /\ OfKind(k, pending') \in Seq(Message) /\ QueueOf(k)' \in Seq(Message)
            /\ OfKind(k, messages') \in Seq(Message)
<1>1. (IInv => \A k \in Kinds :
                 /\ Wait(k) = OfKind(k, pending) \o QueueOf(k)
                 /\ OfKind(k, pending) \in Seq(Message) /\ QueueOf(k) \in Seq(Message)
                 /\ OfKind(k, messages) \in Seq(Message))'
  BY WaitIsNow, PTL
<1>q. QED
  BY <1>1

(* Nothing of a kind is moved.                                              *)
LEMMA Stays ==
  ASSUME NEW w \in Seq(Message), NEW d \in Seq(Message) PROVE Moved(w, w, d, d)
<1>1. <<>> \in Seq(Message) /\ Len(<<>>) <= 1 /\ d = d \o <<>> /\ w = (<<>> \o <<>>) \o (w \o <<>>)
  OBVIOUS
<1>2. Moved(w, w, d, d \o <<>>)
  BY <1>1, Moves
<1>q. QED
  BY <1>1, <1>2

(* What is drained and what remains are the queue.                          *)
LEMMA DrainRest ==
  ASSUME NEW q \in Seq(Message), NEW mode
  PROVE  Drained(mode, q) \o Remaining(mode, q) = q
BY DEF Drained, Remaining

(* A step that takes from a queue, or makes a message up.                   *)
LEMMA TakesDelivers == ASSUME IInv, IInv', Takes PROVE Delivers
<1> SUFFICES ASSUME NEW k \in Kinds
             PROVE  Moved(Wait(k), Wait(k)', OfKind(k, messages), OfKind(k, messages)')
  BY DEF Delivers
<1>1. /\ Wait(k) = OfKind(k, pending) \o QueueOf(k)
      /\ Wait(k)' = OfKind(k, pending') \o QueueOf(k)'
      /\ OfKind(k, messages) \in Seq(Message)
      /\ QueueOf(k) \in Seq(Message) /\ QueueOf(k)' \in Seq(Message)
  BY WaitIsNow, WaitIsNext
<1>2. OfKind(k, messages)' = OfKind(k, messages) /\ pending = <<>>
  BY DEF Takes, OfKind
<1>3. OfKind(k, <<>>) = <<>> /\ \A s \in Seq(Message) : <<>> \o s = s
  BY SelectedEmpty DEF OfKind
<1>4. Wait(k) = QueueOf(k)
  BY <1>1, <1>2, <1>3
<1>5. Wait(k)' = QueueOf(k)
  <2>1. ASSUME NEW q \in Seq(Queued(k)), NEW mode, QueueOf(k) = q, pending' = Drained(mode, q),
               QueueOf(k)' = Remaining(mode, q)
        PROVE  Wait(k)' = QueueOf(k)
    <3>1. Drained(mode, q) \in Seq(Queued(k)) 
      BY DrainType
    <3>2. Queued(k) \subseteq OfThe(k)
      BY Waiting DEF Queued, User, OfThe
    <3>3. PICK S : S = OfThe(k)
      OBVIOUS
    <3>6. PICK got \in Seq(S) : got = pending'
      BY <2>1, <3>1, <3>2, <3>3
    <3>4. Selected(got, S) = got
      BY SelectedAll
    <3>5. OfKind(k, pending') = pending'
      BY <3>3, <3>4, <3>6 DEF OfKind, OfThe
    <3>q. QED
      BY <1>1, <2>1, <3>5, DrainRest
  <2>2. ASSUME NEW j, j # k, pending' \in Seq(Queued(j)), QueueOf(k)' = QueueOf(k)
        PROVE  Wait(k)' = QueueOf(k)
    <3>1. Queued(j) \intersect OfThe(k) = {}
      BY <2>2 DEF Queued, User, OfThe
    <3>2. OfKind(k, pending') = <<>>
      BY <2>2, <3>1, SelectedNone DEF OfKind, OfThe
    <3>q. QED
      BY <1>1, <1>3, <2>2, <3>2
  <2>3. steeringQueue \in Seq(Queued("steer")) /\ followUpQueue \in Seq(Queued("followUp"))
    BY DEF IInv, TypeInv
  <2>4. CASE /\ pending' = Drained(SteeringMode, steeringQueue)
             /\ steeringQueue' = Remaining(SteeringMode, steeringQueue)
             /\ followUpQueue' = followUpQueue
    <3>1. pending' \in Seq(Queued("steer"))
      BY <2>3, <2>4, DrainType
    <3>2. CASE k = "steer"
      <4>1. QueueOf(k) = steeringQueue /\ QueueOf(k)' = Remaining(SteeringMode, steeringQueue)
        BY <2>4, <3>2 DEF QueueOf
      <4>q. QED
        BY <2>1, <2>3, <2>4, <3>2, <4>1
    <3>3. CASE k # "steer"
      <4>1. QueueOf(k)' = QueueOf(k)
        BY <2>4, <3>3 DEF QueueOf
      <4>q. QED
        BY <2>2, <3>1, <3>3, <4>1
    <3>q. QED
      BY <3>2, <3>3
  <2>5. CASE /\ pending' = Drained(FollowUpMode, followUpQueue)
             /\ followUpQueue' = Remaining(FollowUpMode, followUpQueue)
             /\ steeringQueue' = steeringQueue
    <3>1. pending' \in Seq(Queued("followUp"))
      BY <2>3, <2>5, DrainType
    <3>2. CASE k = "followUp"
      <4>1. QueueOf(k) = followUpQueue /\ QueueOf(k)' = Remaining(FollowUpMode, followUpQueue)
        BY <2>5, <3>2 DEF QueueOf
      <4>q. QED
        BY <2>1, <2>3, <2>5, <3>2, <4>1
    <3>3. CASE k # "followUp"
      <4>1. QueueOf(k)' = QueueOf(k)
        BY <2>5, <3>3 DEF QueueOf
      <4>q. QED
        BY <2>2, <3>1, <3>3, <4>1
    <3>q. QED
      BY <3>2, <3>3
  <2>6. CASE /\ pending' \in {<<>>, <<ContinueMessage>>}
             /\ steeringQueue' = steeringQueue /\ followUpQueue' = followUpQueue
    <3>1. QueueOf(k)' = QueueOf(k)
      BY <2>6 DEF QueueOf
    <3>2. ContinueMessage \notin OfThe(k) /\ ContinueMessage \in Message /\ <<>> \in Seq(Message)
      BY MessagesAreMessages DEF ContinueMessage, User, OfThe, Kinds
    <3>4. OfKind(k, <<ContinueMessage>>) = <<>>
      <4>1. PICK m \in Message : m = ContinueMessage
        BY <3>2
      <4>2. OfKind(k, <<m>>) = IF m \in OfThe(k) THEN <<m>> ELSE <<>>
        BY <3>2, OfKindOne
      <4>q. QED
        BY <3>2, <4>1, <4>2
    <3>3. OfKind(k, pending') = <<>>
      BY <1>3, <2>6, <3>4
    <3>q. QED
      BY <1>1, <1>3, <3>1, <3>3
  <2>q. QED
    BY <2>4, <2>5, <2>6 DEF Takes
<1>6. Moved(QueueOf(k), QueueOf(k), OfKind(k, messages), OfKind(k, messages))
  BY <1>1, Stays
<1>q. QED
  BY <1>2, <1>4, <1>5, <1>6

(* What the loop adds of its own is of no kind.                             *)
LEMMA OwnDelivers == ASSUME IInv, IInv', Own PROVE Delivers
<1> SUFFICES ASSUME NEW k \in Kinds
             PROVE  Moved(Wait(k), Wait(k)', OfKind(k, messages), OfKind(k, messages)')
  BY DEF Delivers
<1>1. PICK r \in Seq(Message) :
        /\ \A x \in Elements(r) : ~IsUser(x)
        /\ messages' = messages \o r /\ pending' = pending /\ steeringQueue' = steeringQueue
        /\ followUpQueue' = followUpQueue
  BY DEF Own, Adds
<1>2. Wait(k)' = Wait(k)
  BY <1>1 DEF Wait, OfKind
<1>3. OfKind(k, r) = <<>>
  <2>1. PICK T : T = {m \in Message : ~IsUser(m)}
    OBVIOUS
  <2>2. r \in Seq(T)
    <3>1. \A i \in DOMAIN r : r[i] \in T
      BY <1>1, <2>1 DEF Elements
    <3>q. QED
      BY <3>1
  <2>3. T \intersect OfThe(k) = {}
    BY <2>1 DEF IsUser, OfThe
  <2>q. QED
    BY <2>2, <2>3, SelectedNone DEF OfKind, OfThe
<1>4. messages \in Seq(Message) /\ OfKind(k,
       messages) \in Seq(Message) /\ Wait(k) \in Seq(Message)
  <2>1. messages \in Seq(Message)
    BY Waiting
  <2>2. /\ Wait(k) = OfKind(k, pending) \o QueueOf(k) /\ OfKind(k, pending) \in Seq(Message)
        /\ QueueOf(k) \in Seq(Message) /\ OfKind(k, messages) \in Seq(Message)
    BY WaitIsNow
  <2>q. QED
    BY <2>1, <2>2
<1>5. OfKind(k, messages') = OfKind(k, messages) \o <<>>
  <2>1. OfKind(k, messages \o r) = OfKind(k, messages) \o OfKind(k, r)
    BY <1>4, OfKindConcat
  <2>q. QED
    BY <1>1, <1>3, <2>1
<1>6. OfKind(k, messages') = OfKind(k, messages)
  BY <1>4, <1>5
<1>7. Moved(Wait(k), Wait(k), OfKind(k, messages), OfKind(k, messages))
  BY <1>4, Stays
<1>q. QED
  BY <1>2, <1>6, <1>7

(* A queue is cleared.                                                      *)
LEMMA ClearDelivers ==
  ASSUME IInv, IInv', ClearSteeringQueue \/ ClearFollowUpQueue
  PROVE  Delivers
<1> SUFFICES ASSUME NEW k \in Kinds
             PROVE  Moved(Wait(k), Wait(k)', OfKind(k, messages), OfKind(k, messages)')
  BY DEF Delivers
<1>1. /\ Wait(k) = OfKind(k, pending) \o QueueOf(k)
      /\ Wait(k)' = OfKind(k, pending') \o QueueOf(k)'
      /\ OfKind(k, messages) \in Seq(Message) /\ OfKind(k, pending) \in Seq(Message)
      /\ QueueOf(k) \in Seq(Message) /\ QueueOf(k)' \in Seq(Message)
  BY WaitIsNow, WaitIsNext
<1>2. pending' = pending /\ messages' = messages
  BY DEF ClearSteeringQueue, ClearFollowUpQueue, loop, state
<1>3. QueueOf(k)' \in {QueueOf(k), <<>>}
  BY DEF ClearSteeringQueue, ClearFollowUpQueue, QueueOf
<1>4. OfKind(k, pending') = OfKind(k, pending) /\ OfKind(k, messages)' = OfKind(k, messages)
  BY <1>2 DEF OfKind
<1>5. CASE QueueOf(k)' = QueueOf(k)
  <2>1. Wait(k) \in Seq(Message) /\ Wait(k)' = Wait(k)
    BY <1>1, <1>4, <1>5
  <2>q. QED
    BY <1>1, <1>4, <2>1, Stays
<1>6. CASE QueueOf(k)' = <<>>
  <2>1. PICK p \in Seq(Message), q \in Seq(Message), d \in Seq(Message) :
          p = OfKind(k, pending) /\ q = QueueOf(k) /\ d = OfKind(k, messages)
    BY <1>1
  <2>2. p \o q = (<<>> \o <<>>) \o (p \o q) /\ p \o <<>> = p /\ d \o <<>> = d
        /\ <<>> \in Seq(Message) /\ Len(<<>>) <= 1
    OBVIOUS
  <2>3. Moved(p \o q, p, d, d \o <<>>)
    BY <2>2, Moves
  <2>q. QED
    BY <1>1, <1>4, <1>6, <2>1, <2>2, <2>3
<1>q. QED
  BY <1>3, <1>5, <1>6

(* The next message of a run is delivered, or what was taken is dropped.    *)
LEMMA EmitDelivers == ASSUME IInv, IInv', EmitPrompt \/ Inject PROVE Delivers
<1> SUFFICES ASSUME NEW k \in Kinds
             PROVE  Moved(Wait(k), Wait(k)', OfKind(k, messages), OfKind(k, messages)')
  BY DEF Delivers
<1>1. /\ Wait(k) = OfKind(k, pending) \o QueueOf(k)
      /\ Wait(k)' = OfKind(k, pending') \o QueueOf(k)'
      /\ OfKind(k, messages) \in Seq(Message) /\ OfKind(k, pending) \in Seq(Message)
      /\ QueueOf(k) \in Seq(Message)
  BY WaitIsNow, WaitIsNext
<1>2. /\ steeringQueue' = steeringQueue /\ followUpQueue' = followUpQueue /\ pending /= <<>>
      /\ \/ messages' = Append(messages, Head(pending)) /\ pending' \in {Tail(pending), <<>>}
         \/ messages' = messages /\ pending' = <<>>
  BY DEF EmitPrompt, Inject, EmitPending, Throw, queues
<1>3. messages \in Seq(Message) /\ pending \in Seq(Message)
  BY Waiting
<1>4. Head(pending) \in Message /\ Tail(pending) \in Seq(Message)
  BY <1>2, <1>3
<1>5. PICK m \in Message, rest \in Seq(Message) : m = Head(pending) /\ rest = Tail(pending)
  BY <1>4
<1>6. QueueOf(k)' = QueueOf(k)
  BY <1>2 DEF QueueOf
<1>7. /\ OfKind(k, <<>>) = <<>> /\ OfKind(k, <<m>>) \in {<<m>>, <<>>}
      /\ OfKind(k, Append(messages, m)) = OfKind(k, messages) \o OfKind(k, <<m>>)
      /\ OfKind(k, pending) = OfKind(k, <<m>>) \o OfKind(k, rest)
  BY <1>2, <1>3, <1>5, OfKindOne
<1>8. OfKind(k, rest) \in Seq(Message)
  BY SelectedType DEF OfKind
<1>9. PICK a \in Seq(Message), b \in Seq(Message), q \in Seq(Message), d \in Seq(Message) :
        /\ a = OfKind(k, <<m>>) /\ b = OfKind(k, rest) /\ q = QueueOf(k) /\ d = OfKind(k, messages)
  BY <1>1, <1>7, <1>8
<1>10. Len(a) <= 1 /\ <<>> \in Seq(Message) /\ Len(<<>>) <= 1
  <2>1. Len(<<>>) <= 1 /\ Len(<<m>>) <= 1 /\ <<>> \in Seq(Message)
    OBVIOUS
  <2>q. QED
    BY <1>7, <1>9, <2>1
<1>11. Wait(k) = (a \o b) \o q
  BY <1>1, <1>7, <1>9
<1>12. CASE messages' = Append(messages, m) /\ pending' = rest
  <2>1. OfKind(k, messages)' = d \o a /\ Wait(k)' = b \o q
    BY <1>1, <1>6, <1>7, <1>9, <1>12
  <2>2. (a \o b) \o q = (a \o <<>>) \o ((b \o q) \o <<>>) /\ b \o q \in Seq(Message)
    OBVIOUS
  <2>3. Moved((a \o b) \o q, b \o q, d, d \o a)
    BY <1>10, <2>2, Moves
  <2>q. QED
    BY <1>9, <1>11, <2>1, <2>3
<1>13. CASE messages' = Append(messages, m) /\ pending' = <<>>
  <2>1. OfKind(k, messages)' = d \o a /\ Wait(k)' = q
    <3>1. <<>> \o q = q
      OBVIOUS
    <3>2. OfKind(k, messages') = d \o a /\ OfKind(k, pending') = <<>>
      BY <1>7, <1>9, <1>13
    <3>q. QED
      BY <1>1, <1>6, <1>9, <3>1, <3>2
  <2>2. (a \o b) \o q = (a \o b) \o (q \o <<>>)
    OBVIOUS
  <2>3. Moved((a \o b) \o q, q, d, d \o a)
    BY <1>10, <2>2, Moves
  <2>q. QED
    BY <1>9, <1>11, <2>1, <2>3
<1>14. CASE messages' = messages /\ pending' = <<>>
  <2>1. OfKind(k, messages)' = d \o <<>> /\ Wait(k)' = q
    <3>1. <<>> \o q = q /\ d \o <<>> = d
      OBVIOUS
    <3>2. OfKind(k, messages') = d /\ OfKind(k, pending') = <<>>
      BY <1>7, <1>9, <1>14
    <3>q. QED
      BY <1>1, <1>6, <1>9, <3>1, <3>2
  <2>2. (a \o b) \o q = (<<>> \o (a \o b)) \o (q \o <<>>) /\ a \o b \in Seq(Message)
    OBVIOUS
  <2>3. Moved((a \o b) \o q, q, d, d \o <<>>)
    BY <1>10, <2>2, Moves
  <2>q. QED
    BY <1>9, <1>11, <2>1, <2>3
<1>q. QED
  BY <1>2, <1>5, <1>12, <1>13, <1>14

------------------------------------------------------------------------------
(* The refinement: an agent starts with nothing.                            *)
LEMMA InitDelivers == Init => Delivery!Init
<1> SUFFICES ASSUME Init PROVE Delivery!Init
  OBVIOUS
<1>1. messages = <<>> /\ pending \o steeringQueue \o followUpQueue = <<>>
  BY DEF Init
<1>2. \A k : OfKind(k, <<>>) = <<>>
  BY SelectedEmpty DEF OfKind
<1>q. QED
  BY <1>1, <1>2 DEF Delivery!Init

(* A step that delivers is one of the abstract specification.               *)
LEMMA DeliversIsNext == ASSUME Delivers PROVE Delivery!Next
<1>1. \A k \in Kinds :
        \E n \in 0..1 :
          /\ n <= Len(Wait(k))
          /\ OfKind(k, messages)' = OfKind(k, messages) \o SubSeq(Wait(k), 1, n)
          /\ Delivery!RestOf(Wait(k)', Wait(k), n)
  BY DEF Delivers, Moved
<1>2. Delivery!DeliverOrDrop
  BY <1>1 DEF Delivery!DeliverOrDrop, Wait
<1>q. QED
  BY <1>2 DEF Delivery!Next

(* A caller hands a message over.                                           *)
LEMMA HandsOver ==
  ASSUME IInv, IInv', Steer \/ FollowUp \/ Prompt
  PROVE  \E k \in Kinds : Delivery!HandOver(k)
<1>1. /\ messages' = messages /\ submitted \in Nat /\ submitted' \in 1..MaxMessages
      /\ submitted' = submitted + 1
  BY Waiting, BoundAssumption DEF Steer, FollowUp, Prompt, BeginRun, state
<1>2. PICK j \in Kinds :
        \/ (j = "steer" /\ Steer)
        \/ (j = "followUp" /\ FollowUp)
        \/ (j = "prompt" /\ Prompt)
  BY DEF Kinds
<1>3. PICK m : m = User(j, submitted')
  OBVIOUS
<1>4. m \in [role : {"user"}, kind : Kinds, id : 1..MaxMessages]
  BY <1>1, <1>3 DEF User
<1>5. \A k \in Kinds : Wait(k)' = IF k = j THEN Append(Wait(k), m) ELSE Wait(k)
  <2> SUFFICES ASSUME NEW k \in Kinds
               PROVE  Wait(k)' = IF k = j THEN Append(Wait(k), m) ELSE Wait(k)
    OBVIOUS
  <2>1. /\ Wait(k) = OfKind(k, pending) \o QueueOf(k)
        /\ Wait(k)' = OfKind(k, pending') \o QueueOf(k)'
        /\ OfKind(k, pending) \in Seq(Message) /\ QueueOf(k) \in Seq(Message)
    BY WaitIsNow, WaitIsNext
  <2>2. CASE j \in {"steer", "followUp"}
    <3>1. pending' = pending /\ QueueOf(k)' = IF k = j THEN Append(QueueOf(k), m) ELSE QueueOf(k)
      BY <1>2, <1>3, <2>2 DEF Steer, FollowUp, QueueOf, loop
    <3>2. m \in Message
      BY <1>1, <1>3, MessagesAreMessages
    <3>3. OfKind(k, pending') = OfKind(k, pending)
      BY <3>1
    <3>4. PICK p \in Seq(Message), q \in Seq(Message) : p = OfKind(k, pending) /\ q = QueueOf(k)
      BY <2>1
    <3>5. p \o Append(q, m) = Append(p \o q, m)
      BY <3>2
    <3>6. Wait(k) = p \o q
      BY <2>1, <3>4
    <3>7. CASE k = j
      BY <2>1, <3>1, <3>3, <3>4, <3>5, <3>6, <3>7
    <3>8. CASE k # j
      BY <2>1, <3>1, <3>3, <3>4, <3>6, <3>8
    <3>q. QED
      BY <3>7, <3>8
  <2>3. CASE j = "prompt"
    <3>1. /\ pending = <<>> /\ pending' = <<m>>
          /\ steeringQueue' = steeringQueue /\ followUpQueue' = followUpQueue
      BY <1>2, <1>3, <2>3 DEF Prompt, BeginRun, queues, IInv, PhaseInv
    <3>2. m \in Message /\ <<>> \in Seq(Message)
      BY <1>1, <1>3, MessagesAreMessages
    <3>3. OfKind(k, <<>>) = <<>> /\ OfKind(k, <<m>>) = IF m \in OfThe(k) THEN <<m>> ELSE <<>>
      BY <3>2, OfKindOne
    <3>4. m \in OfThe(k) <=> k = j
      BY <1>1, <1>3 DEF User, OfThe
    <3>5. QueueOf(k)' = QueueOf(k) /\ (k = j => QueueOf(k) = <<>>)
      BY <2>3, <3>1 DEF QueueOf
    <3>6. /\ <<m>> \o <<>> = <<m>> /\ <<>> \o <<>> = <<>> /\ Append(<<>>, m) = <<m>>
      BY <3>2
    <3>7. CASE k = j
      <4>1. Wait(k)' = <<m>> /\ Wait(k) = <<>>
        BY <2>1, <3>1, <3>3, <3>4, <3>5, <3>6, <3>7
      <4>q. QED
        BY <3>6, <3>7, <4>1
    <3>8. CASE k # j
      BY <2>1, <3>1, <3>3, <3>4, <3>5, <3>8
    <3>q. QED
      BY <3>7, <3>8
  <2>q. QED
    BY <1>2, <2>2, <2>3
<1>6. [k \in Kinds |-> Wait(k)'] = [[k \in Kinds |-> Wait(k)] EXCEPT ![j] = Append(@, m)]
  BY <1>5
<1>7. [k \in Kinds |-> OfKind(k, messages)]' = [k \in Kinds |-> OfKind(k, messages)]
  BY <1>1
<1>8. Delivery!HandOver(j)
  BY <1>4, <1>6, <1>7 DEF Delivery!HandOver, Wait
<1>q. QED
  BY <1>8

(* The transcript is emptied.                                               *)
LEMMA ResetForgets == ASSUME IInv, IInv', Reset PROVE Delivery!Forget
<1>1. messages' = <<>> /\ pending' = pending /\ steeringQueue' = <<>> /\ followUpQueue' = <<>>
  BY DEF Reset, loop
<1>2. \A k : OfKind(k, messages)' = <<>>
  BY <1>1, SelectedEmpty DEF OfKind
<1>3. ASSUME NEW k \in Kinds PROVE Delivery!RestOf(Wait(k)', Wait(k), 0)
  <2>1. /\ Wait(k) = OfKind(k, pending) \o QueueOf(k)
        /\ Wait(k)' = OfKind(k, pending') \o QueueOf(k)'
        /\ OfKind(k, pending) \in Seq(Message) /\ QueueOf(k) \in Seq(Message)
    BY WaitIsNow, WaitIsNext
  <2>2. QueueOf(k)' = <<>> /\ OfKind(k, pending') = OfKind(k, pending)
    BY <1>1 DEF QueueOf
  <2>3. PICK p \in Seq(Message), q \in Seq(Message) : p = OfKind(k, pending) /\ q = QueueOf(k)
    BY <2>1
  <2>4. /\ SubSeq(p \o q, 1, Len(p)) = p /\ p \o <<>> = p
        /\ Len(p) \in 0..Len(p \o q) /\ 1 \in 0 + 1..Len(p \o q) + 1
    OBVIOUS
  <2>5. Delivery!RestOf(p, p \o q, 0)
    BY <2>4 DEF Delivery!RestOf
  <2>q. QED
    BY <2>1, <2>2, <2>3, <2>4, <2>5
<1>q. QED
  BY <1>2, <1>3 DEF Delivery!Forget, Wait

(* Every step is a step of the abstract specification.                      *)
LEMMA NextDelivers == IInv /\ IInv' /\ [Next]_vars => Delivery!Next
<1> SUFFICES ASSUME IInv, IInv', [Next]_vars PROVE Delivery!Next
  OBVIOUS
<1>1. CASE Steer \/ FollowUp \/ Prompt
  BY <1>1, HandsOver DEF Delivery!Next
<1>2. CASE Reset
  BY <1>2, ResetForgets DEF Delivery!Next
<1>3. CASE ClearSteeringQueue \/ ClearFollowUpQueue
  BY <1>3, ClearDelivers, DeliversIsNext
<1>4. CASE ContinueTranscript \/ ContinueWithSteering \/ ContinueWithFollowUp
  BY <1>4, ContinueTakes, TakesDelivers, DeliversIsNext
<1>5. CASE PollSteering \/ PollLength \/ PollFollowUp
  BY <1>5, PollTakes, TakesDelivers, DeliversIsNext
<1>6. CASE EmitPrompt \/ Inject
  BY <1>6, EmitDelivers, DeliversIsNext
<1>7. CASE \/ Abort \/ StartThrows \/ StreamReply \/ RunTools \/ EndTurn \/ EndRun \/ HandleRunFailure
           \/ \E stop \in StopReasons, n \in 0..MaxCalls : EndReply(stop, n)
           \/ UNCHANGED vars
  BY <1>7, OwnSteps, OwnDelivers, DeliversIsNext
<1>q. QED
  BY <1>1, <1>2, <1>3, <1>4, <1>5, <1>6, <1>7 DEF Next, Caller, RunLoop

(* The agent implements the delivery specification: messages of a kind are  *)
(* delivered in order and at most once (agent.ts, PendingMessageQueue;      *)
(* agent-loop.ts, runLoop).                                                 *)
THEOREM AgentDelivers == Spec => DeliversInOrder
<1>1. IInv /\ IInv' /\ [Next]_vars => [Delivery!Next]_(Delivery!vars)
  BY NextDelivers
<1>q. QED
  BY <1>1, InitDelivers, Invariance, PTL DEF Spec, DeliversInOrder, Delivery!Spec
==============================================================================
