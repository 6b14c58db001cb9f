-------------------------- MODULE AgentSessionProofs --------------------------
(***************************************************************************)
(* Proofs about AgentSession, for any number of callers, retries, lower    *)
(* output token limits and inputs.                                         *)
(***************************************************************************)
EXTENDS AgentSession, FiniteSetTheorems, TLAPS

(* The bounds are numbers; so is the largest of the limits, which bounds    *)
(* the others.                                                              *)
LEMMA Bounds == MaxLimit \in Nat /\ MaxCaps \in Nat /\ MaxThrows \in Nat /\ MaxInputs \in Nat
  BY LimitAssumption, BoundAssumption DEF MaxLimit, Larger

LEMMA LimitsBounded ==
  ASSUME NEW reply, retryAttempt \in Nat, WillRetry(reply)
  PROVE  retryAttempt < MaxLimit
  BY LimitAssumption DEF WillRetry, resolveAssistantRetryLimit, MaxLimit, Larger, Smaller

(* What the bounds leave: a retry beyond MaxLimit has used up a lower       *)
(* limit, and a task has used up an input.                                  *)
BoundsInv ==
  /\ retryAttempt + caps <= MaxLimit + MaxCaps
  /\ tasks + inputs <= MaxInputs

(* The callers that may run the agent again without a message, and those    *)
(* that will once their compaction ends.                                    *)
Live == {c \in Callers : pc[c] \in {"running", "post", "retry", "continue", "recover"}}
Recovering == {c \in Callers : pc[c] = "recover"}

(* The recovery from an overflow that is still allowed.                     *)
Open == IF overflowRecoveryAttempted THEN 0 ELSE 1

(* The retries n rounds have left when the present one has had k.           *)
Left(n, k) ==
  IF n = 0 THEN 0 ELSE n * MaxLimit - (IF k < MaxLimit THEN k ELSE MaxLimit)

(* The retries so far and all that can still follow without a message:      *)
(* every live caller has a round, an open recovery adds one, and each       *)
(* recovery and each lower limit is a retry itself.                         *)
RetryBudget ==
  retries + caps + Cardinality(Recovering) + Open
    + Left(Cardinality(Live) + Open, retryAttempt)

RetriesFit == RetryBudget <= RetryBound

IInv == TypeOK /\ BoundsInv /\ BusyHasDriver /\ RetriesFit

(* The parts of TypeOK: where the callers are, and what is counted and       *)
(* remembered.                                                              *)
CallersOK ==
  /\ pc \in [Callers -> Places] /\ msg \in [Callers -> {"none", "overflow", "aborted", "text"}]
  /\ runner \in Callers \union {None}
  /\ \A c \in Callers : pc[c] = "running" <=> runner = c
  /\ retryAbortController # None =>
       retryAbortController \in Callers /\ pc[retryAbortController] = "retry"
FlagsOK ==
  /\ signalled \in BOOLEAN /\ isAgentRunActive \in BOOLEAN /\ abortRequested \in BOOLEAN
  /\ overflowRecoveryAttempted \in BOOLEAN /\ connected \in BOOLEAN /\ savedError \in BOOLEAN
  /\ lastAssistantMessage \in Replies \union {"none"}
  /\ compaction \in {"none", "aborting", "summarising"}
  /\ connected <=> compaction = "none"
CountsOK ==
  /\ textToolRecoveryAttempts \in 0..2 /\ tail \in 0..2 /\ savedTail \in 0..2
  /\ queued \in [Kinds -> Nat] /\ retries \in Nat /\ retryAttempt \in Nat
  /\ caps \in 0..MaxCaps /\ tasks \in 0..MaxInputs /\ inputs \in 0..MaxInputs
  /\ throws \in 0..MaxThrows /\ BoundsInv

(* The parts make the whole.                                                *)
LEMMA TypeParts == TypeOK /\ BoundsInv <=> CallersOK /\ FlagsOK /\ CountsOK
  BY CallerAssumption, Bounds DEF TypeOK, BoundsInv, CallersOK, FlagsOK, CountsOK,
     Places, Driving

(* Every step leaves the callers where they can be.                          *)
LEMMA CallersStep ==
  ASSUME CallersOK, FlagsOK, CountsOK, [Next]_vars
  PROVE  CallersOK'
<1> USE CallerAssumption, Bounds DEF CallersOK, FlagsOK, CountsOK, Places, Driving,
       Concern, vars, drivers, agent, flags,
       recovery, context, outside
<1>1. ASSUME NEW c \in Callers, Prompt(c) PROVE CallersOK'
  BY <1>1 DEF Prompt, Goto
<1>2. ASSUME NEW c \in Callers, PreflightFails(c) PROVE CallersOK'
  BY <1>2 DEF PreflightFails, Goto
<1>3. ASSUME NEW c \in Callers, Precompact(c) PROVE CallersOK'
  BY <1>3 DEF Precompact, Goto
<1>4. ASSUME NEW c \in Callers, EndPrecompact(c) PROVE CallersOK'
  BY <1>4 DEF EndPrecompact, Goto
<1>5. ASSUME NEW c \in Callers, Submit(c) PROVE CallersOK'
  BY <1>5 DEF Submit, Goto, RunAgentPrompt, Settle, Runs
<1>6. ASSUME NEW c \in Callers, ToolTurn(c) PROVE CallersOK'
  BY <1>6 DEF ToolTurn
<1>7. ASSUME NEW c \in Callers, ContinueCutOff(c) PROVE CallersOK'
  BY <1>7 DEF ContinueCutOff
<1>8. ASSUME NEW c \in Callers, Deliver(c) PROVE CallersOK'
  BY <1>8 DEF Deliver
<1>9. ASSUME NEW c \in Callers, EndRun(c) PROVE CallersOK'
  BY <1>9 DEF EndRun, Goto
<1>10. ASSUME NEW c \in Callers, HandlePostAgentRun(c) PROVE CallersOK'
  BY <1>10 DEF HandlePostAgentRun, Goto, RetryWithLowerLimit, RetryError, Retry, GiveUp,
     NothingToHandle, Concern, Throws, Settle
<1>11. ASSUME NEW c \in Callers, EndRetryDelay(c) PROVE CallersOK'
  BY <1>11 DEF EndRetryDelay, Goto
<1>12. ASSUME NEW c \in Callers, CheckCompaction(c) PROVE CallersOK'
  BY <1>12 DEF CheckCompaction, Goto
<1>13. ASSUME NEW c \in Callers, EndAutoCompaction(c) PROVE CallersOK'
  BY <1>13 DEF EndAutoCompaction, Goto, ContinueForQueued
<1>14. ASSUME NEW c \in Callers, Rest(c) PROVE CallersOK'
  BY <1>14 DEF Rest, Goto, ContinueForQueued
<1>15. ASSUME NEW c \in Callers, EndWait(c) PROVE CallersOK'
  BY <1>15 DEF EndWait, Goto, ContinueForQueued, Settle
<1>16. ASSUME NEW c \in Callers, Continue(c) PROVE CallersOK'
  BY <1>16 DEF Continue, Goto, Runs, Settle
<1>17. CASE Queue
  BY <1>17 DEF Queue
<1>18. CASE ClearQueue
  BY <1>18 DEF ClearQueue
<1>19. CASE StartTask
  BY <1>19 DEF StartTask
<1>20. CASE EndTask
  BY <1>20 DEF EndTask, Goto, RunAgentPrompt, Settle, Runs
<1>21. CASE AbortRetry
  BY <1>21 DEF AbortRetry, Goto, CancelRetry
<1>22. CASE Abort
  BY <1>22 DEF Abort, Goto, Interrupt, CancelRetry
<1>23. CASE Compact
  BY <1>23 DEF Compact, Goto, Interrupt, CancelRetry
<1>24. CASE EndCompact
  BY <1>24 DEF EndCompact
<1>25. CASE UNCHANGED vars
  BY <1>25
<1>26. ASSUME NEW c \in Callers, RejectRun(c) PROVE CallersOK'
  BY <1>26 DEF RejectRun, Settle, Goto
<1>27. ASSUME NEW c \in Callers, CompactionThrows(c) PROVE CallersOK'
  BY <1>27 DEF CompactionThrows, Settle, Goto
<1>q. QED
  BY <1>1, <1>2, <1>3, <1>4, <1>5, <1>6, <1>7, <1>8, <1>9, <1>10, <1>11, <1>12, <1>13, <1>14,
     <1>15, <1>16, <1>17, <1>18, <1>19, <1>20, <1>21, <1>22, <1>23, <1>24, <1>25, <1>26, <1>27 DEF Next, Drive

(* A reply that is renamed stays a reply, and an error an error.            *)
LEMMA Renames ==
  ASSUME NEW reply \in Replies
  PROVE  Renamed(reply) \in Replies /\ (Renamed(reply) \in Errors <=> reply \in Errors)
  BY DEF Renamed, Replies, Errors, Retryable

LEMMA ReportedFlags ==
  ASSUME FlagsOK, NEW reply \in Replies, Reported(reply)
  PROVE  /\ lastAssistantMessage' \in Replies \union {"none"}
         /\ overflowRecoveryAttempted' \in BOOLEAN /\ savedError' \in BOOLEAN
<1>1. savedError' = (reply \in Errors) \/ savedError' = savedError
  BY DEF Reported
<1>2. (reply \in Errors) \in BOOLEAN
  OBVIOUS
<1>3. savedError' \in BOOLEAN
  BY <1>1, <1>2 DEF FlagsOK
<1>q. QED
  BY <1>3 DEF Reported, FlagsOK

(* Every step keeps the types of the flags.                                  *)
LEMMA FlagsStep ==
  ASSUME CallersOK, FlagsOK, CountsOK, [Next]_vars
  PROVE  FlagsOK'
<1> USE CallerAssumption, Bounds DEF CallersOK, FlagsOK, CountsOK, Errors, Replies,
       vars, drivers, agent, flags,
       recovery, context, outside
<1>1. ASSUME NEW c \in Callers, Prompt(c) PROVE FlagsOK'
  BY <1>1 DEF Prompt
<1>2. ASSUME NEW c \in Callers, PreflightFails(c) PROVE FlagsOK'
  BY <1>2 DEF PreflightFails
<1>3. ASSUME NEW c \in Callers, Precompact(c) PROVE FlagsOK'
  BY <1>3 DEF Precompact
<1>4. ASSUME NEW c \in Callers, EndPrecompact(c) PROVE FlagsOK'
  BY <1>4 DEF EndPrecompact
<1>5. ASSUME NEW c \in Callers, Submit(c) PROVE FlagsOK'
  BY <1>5 DEF Submit, RunAgentPrompt, Settle, Runs, Enters, UserSpeaks, Released
<1>6. ASSUME NEW c \in Callers, ToolTurn(c) PROVE FlagsOK'
  BY <1>6 DEF ToolTurn, Replied, AttemptsAfterReply, Enters, UserSpeaks
<1>7. ASSUME NEW c \in Callers, ContinueCutOff(c) PROVE FlagsOK'
  BY <1>7 DEF ContinueCutOff, Replied, AttemptsAfterReply, Enters, UserSpeaks
<1>8. ASSUME NEW c \in Callers, Deliver(c) PROVE FlagsOK'
  BY <1>8 DEF Deliver, Replied, AttemptsAfterReply, TakesQueued, Enters, UserSpeaks
<1>9. ASSUME NEW c \in Callers, EndRun(c) PROVE FlagsOK'
  <2>1. \E reply \in Replies : Reported(reply)
    BY <1>9, Renames DEF EndRun
  <2>2. /\ lastAssistantMessage' \in Replies \union {"none"}
        /\ overflowRecoveryAttempted' \in BOOLEAN /\ savedError' \in BOOLEAN
    BY <2>1, ReportedFlags
  <2>q. QED
    BY <1>9, <2>2 DEF EndRun
<1>10. ASSUME NEW c \in Callers, HandlePostAgentRun(c) PROVE FlagsOK'
  BY <1>10 DEF HandlePostAgentRun, RetryWithLowerLimit, RetryError, Retry, GiveUp,
     NothingToHandle, Concern, Throws, Stays, Settle, Released
<1>11. ASSUME NEW c \in Callers, EndRetryDelay(c) PROVE FlagsOK'
  BY <1>11 DEF EndRetryDelay
<1>12. ASSUME NEW c \in Callers, CheckCompaction(c) PROVE FlagsOK'
  BY <1>12 DEF CheckCompaction
<1>13. ASSUME NEW c \in Callers, EndAutoCompaction(c) PROVE FlagsOK'
  BY <1>13 DEF EndAutoCompaction, ContinueForQueued
<1>14. ASSUME NEW c \in Callers, Rest(c) PROVE FlagsOK'
  BY <1>14 DEF Rest, ContinueForQueued
<1>15. ASSUME NEW c \in Callers, EndWait(c) PROVE FlagsOK'
  BY <1>15 DEF EndWait, ContinueForQueued, Settle, Released
<1>16. ASSUME NEW c \in Callers, Continue(c) PROVE FlagsOK'
  BY <1>16 DEF Continue, Runs, TakesQueued, Enters, UserSpeaks, Settle, Released
<1>17. CASE Queue
  BY <1>17 DEF Queue
<1>18. CASE ClearQueue
  BY <1>18 DEF ClearQueue
<1>19. CASE StartTask
  BY <1>19 DEF StartTask
<1>20. CASE EndTask
  <2>1. CASE UNCHANGED <<drivers, agent, flags, recovery, connected, compaction, context>>
    BY <2>1
  <2>2. ASSUME NEW c \in Callers, RunAgentPrompt(c, "custom") PROVE FlagsOK'
    BY <2>2 DEF RunAgentPrompt, Settle, Runs, Enters, UserSpeaks, Released
  <2>q. QED
    BY <1>20, <2>1, <2>2 DEF EndTask
<1>21. CASE AbortRetry
  BY <1>21 DEF AbortRetry, CancelRetry
<1>22. CASE Abort
  BY <1>22 DEF Abort, Interrupt, CancelRetry
<1>23. CASE Compact
  BY <1>23 DEF Compact, Interrupt, CancelRetry
<1>24. CASE EndCompact
  BY <1>24 DEF EndCompact
<1>25. CASE UNCHANGED vars
  BY <1>25
<1>26. ASSUME NEW c \in Callers, RejectRun(c) PROVE FlagsOK'
  <2>1. \/ UNCHANGED <<savedError, lastAssistantMessage, overflowRecoveryAttempted>>
        \/ \E reply \in Replies : Reported(reply)
    BY <1>26, Renames DEF RejectRun, Failures
  <2>2. /\ lastAssistantMessage' \in Replies \union {"none"}
        /\ overflowRecoveryAttempted' \in BOOLEAN /\ savedError' \in BOOLEAN
    BY <2>1, ReportedFlags
  <2>q. QED
    BY <1>26, <2>2 DEF RejectRun, Settle, Released
<1>27. ASSUME NEW c \in Callers, CompactionThrows(c) PROVE FlagsOK'
  BY <1>27 DEF CompactionThrows, Settle, Released
<1>q. QED
  BY <1>1, <1>2, <1>3, <1>4, <1>5, <1>6, <1>7, <1>8, <1>9, <1>10, <1>11, <1>12, <1>13, <1>14,
     <1>15, <1>16, <1>17, <1>18, <1>19, <1>20, <1>21, <1>22, <1>23, <1>24, <1>25, <1>26, <1>27 DEF Next, Drive

(* Every step keeps the counts within their bounds.                          *)
LEMMA CountsStep ==
  ASSUME CallersOK, FlagsOK, CountsOK, [Next]_vars
  PROVE  CountsOK'
<1> USE CallerAssumption, Bounds DEF CallersOK, FlagsOK, CountsOK, BoundsInv, Kinds,
       vars, drivers, agent, flags,
       recovery, context, outside
<1>1. ASSUME NEW c \in Callers, Prompt(c) PROVE CountsOK'
  BY <1>1 DEF Prompt, Input
<1>2. ASSUME NEW c \in Callers, PreflightFails(c) PROVE CountsOK'
  BY <1>2 DEF PreflightFails, Throw, Rebuilt
<1>3. ASSUME NEW c \in Callers, Precompact(c) PROVE CountsOK'
  BY <1>3 DEF Precompact, Less
<1>4. ASSUME NEW c \in Callers, EndPrecompact(c) PROVE CountsOK'
  BY <1>4 DEF EndPrecompact, Less, Rebuilt
<1>5. ASSUME NEW c \in Callers, Submit(c) PROVE CountsOK'
  BY <1>5 DEF Submit, RunAgentPrompt, Enters
<1>6. ASSUME NEW c \in Callers, ToolTurn(c) PROVE CountsOK'
  BY <1>6 DEF ToolTurn, Input, Replied, AttemptsAfterReply, Enters
<1>7. ASSUME NEW c \in Callers, ContinueCutOff(c) PROVE CountsOK'
  BY <1>7 DEF ContinueCutOff, Input, Replied, AttemptsAfterReply, Enters
<1>8. ASSUME NEW c \in Callers, Deliver(c) PROVE CountsOK'
  BY <1>8 DEF Deliver, Replied, AttemptsAfterReply, TakesQueued, Enters
<1>9. ASSUME NEW c \in Callers, EndRun(c) PROVE CountsOK'
  BY <1>9 DEF EndRun, Throw, Reported, AttemptsAfterReply, More
<1>10. ASSUME NEW c \in Callers, HandlePostAgentRun(c) PROVE CountsOK'
  <2>1. CASE RetryWithLowerLimit(c)
    BY <1>10, <2>1 DEF HandlePostAgentRun, RetryWithLowerLimit, Retry, Granted, Less, Throws,
       Throw, Stays
  <2>2. CASE RetryError(c)
    BY <1>10, <2>2, LimitsBounded DEF HandlePostAgentRun, RetryError, Retry, Granted, Less,
       Throws, Throw, Stays
  <2>3. CASE GiveUp(c) \/ NothingToHandle(c)
    BY <1>10, <2>3 DEF HandlePostAgentRun, GiveUp, NothingToHandle, Throws, Throw, Stays
  <2>q. QED
    BY <1>10, <2>1, <2>2, <2>3 DEF HandlePostAgentRun
<1>11. ASSUME NEW c \in Callers, EndRetryDelay(c) PROVE CountsOK'
  BY <1>11 DEF EndRetryDelay
<1>12. ASSUME NEW c \in Callers, CheckCompaction(c) PROVE CountsOK'
  BY <1>12 DEF CheckCompaction, Less
<1>13. ASSUME NEW c \in Callers, EndAutoCompaction(c) PROVE CountsOK'
  BY <1>13 DEF EndAutoCompaction, Rebuilt, Less, ContinueForQueued, Granted
<1>14. ASSUME NEW c \in Callers, Rest(c) PROVE CountsOK'
  BY <1>14 DEF Rest, MayAnswer, Enqueue, ContinueForQueued
<1>15. ASSUME NEW c \in Callers, EndWait(c) PROVE CountsOK'
  BY <1>15 DEF EndWait, ContinueForQueued
<1>16. ASSUME NEW c \in Callers, Continue(c) PROVE CountsOK'
  BY <1>16 DEF Continue, TakesQueued, Enters
<1>17. CASE Queue
  BY <1>17 DEF Queue, Input, Enqueue
<1>18. CASE ClearQueue
  BY <1>18 DEF ClearQueue
<1>19. CASE StartTask
  BY <1>19 DEF StartTask, Input
<1>20. CASE EndTask
  BY <1>20 DEF EndTask, Enqueue, RunAgentPrompt, Enters
<1>21. CASE AbortRetry
  BY <1>21 DEF AbortRetry, Input, CancelRetry
<1>22. CASE Abort
  BY <1>22 DEF Abort, Input, Interrupt, CancelRetry
<1>23. CASE Compact
  BY <1>23 DEF Compact, Input, Interrupt, CancelRetry
<1>24. CASE EndCompact
  BY <1>24 DEF EndCompact, Rebuilt
<1>25. CASE UNCHANGED vars
  BY <1>25
<1>26. ASSUME NEW c \in Callers, RejectRun(c) PROVE CountsOK'
  BY <1>26 DEF RejectRun, Throw, Reported, AttemptsAfterReply, More
<1>27. ASSUME NEW c \in Callers, CompactionThrows(c) PROVE CountsOK'
  BY <1>27 DEF CompactionThrows, Throw, Rebuilt
<1>q. QED
  BY <1>1, <1>2, <1>3, <1>4, <1>5, <1>6, <1>7, <1>8, <1>9, <1>10, <1>11, <1>12, <1>13, <1>14,
     <1>15, <1>16, <1>17, <1>18, <1>19, <1>20, <1>21, <1>22, <1>23, <1>24, <1>25, <1>26, <1>27 DEF Next, Drive

------------------------------------------------------------------------------
(* The session and its drivers.                                             *)

(* A driver keeps the session busy until its own end, which clears the flag *)
(* for all of them.                                                         *)
LEMMA BusyStep ==
  ASSUME CallersOK, BusyHasDriver, [Next]_vars
  PROVE  BusyHasDriver'
<1> DEFINE Kept == isAgentRunActive /\ \A d \in Callers : pc[d] \in Driving => pc'[d] \in Driving
           Starts == \E d \in Callers : pc'[d] = "running"
<1> USE DEF CallersOK
<1>1. SUFFICES isAgentRunActive' => Kept \/ Starts
  BY DEF BusyHasDriver, Driving
<1>2. ASSUME NEW c \in Callers, Goto(c, pc'[c]), UNCHANGED isAgentRunActive,
             pc[c] \in Driving => pc'[c] \in Driving
      PROVE  isAgentRunActive' => Kept
  BY <1>2 DEF Goto
<1>3. ASSUME NEW c \in Callers,
             Prompt(c) \/ PreflightFails(c) \/ Precompact(c) \/ EndPrecompact(c)
      PROVE  isAgentRunActive' => Kept
  BY <1>2, <1>3 DEF Prompt, PreflightFails, Precompact, EndPrecompact, Goto, flags, Driving
<1>4. ASSUME UNCHANGED pc, UNCHANGED isAgentRunActive PROVE isAgentRunActive' => Kept
  BY <1>4
<1>5. ASSUME NEW c \in Callers, NEW kind, RunAgentPrompt(c, kind)
      PROVE  isAgentRunActive' => Starts
  BY <1>5 DEF RunAgentPrompt, Runs, Settle, Goto
<1>6. ASSUME NEW c \in Callers, ToolTurn(c) \/ ContinueCutOff(c) \/ Deliver(c)
      PROVE  isAgentRunActive' => Kept
  BY <1>4, <1>6 DEF ToolTurn, ContinueCutOff, Deliver, drivers, flags
<1>7. ASSUME NEW c \in Callers, EndRun(c) \/ EndRetryDelay(c) \/ CheckCompaction(c)
      PROVE  isAgentRunActive' => Kept
  BY <1>2, <1>7 DEF EndRun, EndRetryDelay, CheckCompaction, Goto, flags, Driving
<1>8. ASSUME NEW c \in Callers, HandlePostAgentRun(c) PROVE isAgentRunActive' => Kept
  BY <1>2, <1>8 DEF HandlePostAgentRun, RetryWithLowerLimit, RetryError, Retry, GiveUp,
     NothingToHandle, Throws, Stays, Settle, Goto, Driving
<1>16. ASSUME NEW c \in Callers, EndAutoCompaction(c) \/ Rest(c) PROVE isAgentRunActive' => Kept
  BY <1>2, <1>16 DEF EndAutoCompaction, Rest, ContinueForQueued, Goto, flags, Driving
<1>17. ASSUME NEW c \in Callers, RejectRun(c) \/ CompactionThrows(c) PROVE ~isAgentRunActive'
  BY <1>17 DEF RejectRun, CompactionThrows, Settle
<1>9. ASSUME NEW c \in Callers, EndWait(c) PROVE isAgentRunActive' => Kept
  BY <1>2, <1>9 DEF EndWait, Settle, ContinueForQueued, Goto, Driving
<1>10. ASSUME NEW c \in Callers, Continue(c) PROVE isAgentRunActive' => Starts
  BY <1>10 DEF Continue, Runs, Settle, Goto
<1>11. ASSUME CancelRetry, UNCHANGED isAgentRunActive PROVE isAgentRunActive' => Kept
  BY <1>2, <1>4, <1>11 DEF CancelRetry, Goto, Driving
<1>12. CASE AbortRetry \/ Abort \/ Compact
  BY <1>11, <1>12 DEF AbortRetry, Abort, Compact, Interrupt, flags
<1>13. CASE Queue \/ ClearQueue \/ StartTask \/ EndCompact \/ UNCHANGED vars
  BY <1>4, <1>13 DEF Queue, ClearQueue, StartTask, EndCompact, vars, drivers, flags
<1>14. CASE EndTask
  BY <1>4, <1>5, <1>14 DEF EndTask, drivers, flags
<1>15. ASSUME NEW c \in Callers, Submit(c) PROVE isAgentRunActive' => Starts
  BY <1>5, <1>15 DEF Submit
<1> HIDE DEF Kept, Starts
<1>q. QED
  BY <1>3, <1>6, <1>7, <1>8, <1>9, <1>10, <1>12, <1>13, <1>14, <1>15, <1>16, <1>17
  DEF Next, Drive

------------------------------------------------------------------------------
(* The retries.                                                             *)

LivePlaces == {"running", "post", "retry", "continue", "recover"}

(* A number of callers is a number, and at most that of all of them; one    *)
(* caller fewer when one is left out.                                       *)
LEMMA CallersCounted ==
  /\ Cardinality(Callers) \in Nat \ {0}
  /\ \A S \in SUBSET Callers :
       /\ IsFiniteSet(S) /\ Cardinality(S) \in 0..Cardinality(Callers)
       /\ \A c \in Callers : c \notin S => Cardinality(S) <= Cardinality(Callers) - 1
<1>1. Cardinality(Callers) \in Nat /\ Cardinality(Callers) # 0
  BY CallerAssumption, FS_CardinalityType, FS_EmptySet
<1>2. ASSUME NEW S \in SUBSET Callers
      PROVE  IsFiniteSet(S) /\ Cardinality(S) \in Nat /\ Cardinality(S) <= Cardinality(Callers)
  BY CallerAssumption, FS_Subset, FS_CardinalityType
<1>3. ASSUME NEW S \in SUBSET Callers, NEW c \in Callers, c \notin S
      PROVE  Cardinality(S) <= Cardinality(Callers) - 1
  <2>1. IsFiniteSet(Callers \ {c}) /\ Cardinality(Callers \ {c}) = Cardinality(Callers) - 1
    BY CallerAssumption, FS_RemoveElement
  <2>2. S \subseteq Callers \ {c}
    BY <1>3
  <2>q. QED
    BY <2>1, <2>2, FS_Subset
<1>q. QED
  BY <1>1, <1>2, <1>3

(* One caller more, one caller fewer, or no more of them.                   *)
LEMMA CountMore ==
  ASSUME NEW S \in SUBSET Callers, NEW c \in Callers, c \notin S
  PROVE  Cardinality(S \union {c}) = Cardinality(S) + 1
  BY CallersCounted, FS_AddElement

LEMMA CountLess ==
  ASSUME NEW S \in SUBSET Callers, NEW c \in S
  PROVE  Cardinality(S \ {c}) = Cardinality(S) - 1
  BY CallersCounted, FS_RemoveElement

LEMMA CountNoMore ==
  ASSUME NEW S \in SUBSET Callers, NEW T \in SUBSET S
  PROVE  Cardinality(T) <= Cardinality(S)
  BY CallersCounted, FS_Subset

(* What the retries of n rounds amount to.                                  *)
LEMMA LeftBounded ==
  ASSUME NEW n \in Nat, NEW k \in Nat
  PROVE  Left(n, k) \in Nat /\ Left(n, k) <= n * MaxLimit
<1>1. CASE n = 0
  BY <1>1, Bounds DEF Left
<1>2. CASE n > 0
  <2>1. n * MaxLimit \in Nat /\ n * MaxLimit >= MaxLimit
    <3>1. n * MaxLimit = (n - 1) * MaxLimit + MaxLimit /\ (n - 1) * MaxLimit \in Nat
      BY <1>2, Bounds
    <3>q. QED
      BY <3>1, Bounds
  <2>q. QED
    BY <1>2, <2>1, Bounds DEF Left
<1>q. QED
  BY <1>1, <1>2

(* A round of one's own is worth a whole one of another.                    *)
LEMMA LeftNextRound ==
  ASSUME NEW n \in Nat, NEW k \in Nat, NEW m \in Nat
  PROVE  Left(n, m) <= Left(n + 1, k)
<1>1. Left(n, m) \in Nat /\ Left(n, m) <= n * MaxLimit /\ n * MaxLimit \in Nat
  BY LeftBounded, Bounds
<1>2. (n + 1) * MaxLimit = n * MaxLimit + MaxLimit
  BY Bounds
<1>3. Left(n + 1, k) = (n + 1) * MaxLimit - (IF k < MaxLimit THEN k ELSE MaxLimit)
  BY DEF Left
<1>q. QED
  BY <1>1, <1>2, <1>3, Bounds

(* Fewer rounds, or more retries in the present one, leave no more.         *)
LEMMA LeftNoMore ==
  ASSUME NEW n \in Nat, NEW m \in Nat, m <= n, NEW k \in Nat, NEW j \in Nat, k <= j
  PROVE  Left(m, j) <= Left(n, k)
<1>1. CASE m = n
  BY <1>1, Bounds DEF Left
<1>2. CASE m < n
  <2>1. m + 1 <= n /\ n - 1 \in Nat
    BY <1>2
  <2>2. Left(m, j) <= m * MaxLimit /\ m * MaxLimit \in Nat /\ Left(m, j) \in Nat
    BY LeftBounded, Bounds
  <2>3. m * MaxLimit <= (n - 1) * MaxLimit
    <3>1. (n - 1) * MaxLimit = m * MaxLimit + (n - 1 - m) * MaxLimit
          /\ (n - 1 - m) * MaxLimit \in Nat
      BY <2>1, Bounds
    <3>q. QED
      BY <2>2, <3>1
  <2>4. n * MaxLimit = (n - 1) * MaxLimit + MaxLimit /\ (n - 1) * MaxLimit \in Nat
    BY <2>1, Bounds
  <2>5. Left(n, k) = n * MaxLimit - (IF k < MaxLimit THEN k ELSE MaxLimit)
    BY <1>2 DEF Left
  <2>q. QED
    BY <2>2, <2>3, <2>4, <2>5, Bounds
<1>q. QED
  BY <1>1, <1>2

(* A retry within the round takes one from what is left.                    *)
LEMMA LeftRetry ==
  ASSUME NEW n \in Nat, n > 0, NEW k \in Nat, k < MaxLimit
  PROVE  Left(n, k + 1) + 1 = Left(n, k)
<1>1. n * MaxLimit \in Nat
  BY Bounds
<1>q. QED
  BY <1>1, Bounds DEF Left

(* The parts of the budget are numbers, now and after a step.               *)
LEMMA BudgetParts ==
  ASSUME FlagsOK, CountsOK
  PROVE  /\ Live \in SUBSET Callers /\ Recovering \in SUBSET Callers
         /\ Cardinality(Live) \in Nat /\ Cardinality(Recovering) \in Nat /\ Open \in 0..1
         /\ retries \in Nat /\ caps \in Nat /\ retryAttempt \in Nat
         /\ Left(Cardinality(Live) + Open, retryAttempt) \in Nat
         /\ RetryBudget \in Nat
<1>1. /\ Live \in SUBSET Callers /\ Recovering \in SUBSET Callers
      /\ Cardinality(Live) \in Nat /\ Cardinality(Recovering) \in Nat
  BY CallersCounted DEF Live, Recovering
<1>2. Open \in 0..1 /\ retries \in Nat /\ caps \in Nat /\ retryAttempt \in Nat
  BY Bounds DEF FlagsOK, CountsOK, Open
<1>3. Left(Cardinality(Live) + Open, retryAttempt) \in Nat
  <2>1. Cardinality(Live) + Open \in Nat
    BY <1>1, <1>2
  <2>q. QED
    BY <1>2, <2>1, LeftBounded
<1>q. QED
  BY <1>1, <1>2, <1>3 DEF RetryBudget

(* A message, a good reply or a cancelled delay starts the count anew: at   *)
(* most every caller but the one at hand is recovering.                     *)
LEMMA CountStartsAnew ==
  ASSUME (FlagsOK /\ CountsOK)', retries' = 0, NEW c \in Callers, pc'[c] # "recover"
  PROVE  RetriesFit'
<1> DEFINE N == Cardinality(Callers)
<1>1. N \in Nat /\ N > 0
  BY CallersCounted
<1>2. (/\ Live \in SUBSET Callers /\ Recovering \in SUBSET Callers
       /\ Cardinality(Live) \in Nat /\ Cardinality(Recovering) \in Nat /\ Open \in 0..1
       /\ retryAttempt \in Nat)'
  BY BudgetParts, PTL
<1>3. Cardinality(Recovering') <= N - 1 /\ Cardinality(Live') <= N
  <2>1. c \notin Recovering'
    BY DEF Recovering
  <2>q. QED
    BY <1>2, <2>1, CallersCounted
<1>4. caps' \in Nat /\ caps' <= MaxCaps
  BY Bounds DEF CountsOK
<1>5. Left(Cardinality(Live') + Open', retryAttempt') <= (N + 1) * MaxLimit
  <2>1. Cardinality(Live') + Open' \in Nat /\ Cardinality(Live') + Open' <= N + 1
    BY <1>1, <1>2, <1>3
  <2>2. Left(N + 1, retryAttempt') <= (N + 1) * MaxLimit
    BY <1>1, <1>2, LeftBounded
  <2>3. Left(Cardinality(Live') + Open', retryAttempt') <= Left(N + 1, retryAttempt')
    BY <1>1, <1>2, <2>1, LeftNoMore
  <2>4. Left(Cardinality(Live') + Open', retryAttempt') \in Nat /\ Left(N + 1,
       retryAttempt') \in Nat
    BY <1>1, <1>2, <2>1, LeftBounded
  <2>q. QED
    BY <1>1, <2>2, <2>3, <2>4, Bounds
<1>6. Left(Cardinality(Live') + Open', retryAttempt') \in Nat /\ (N + 1) * MaxLimit \in Nat
  <2>1. Cardinality(Live') + Open' \in Nat
    BY <1>2
  <2>2. (N + 1) * MaxLimit \in Nat
    BY <1>1, Bounds
  <2>q. QED
    BY <1>2, <2>1, <2>2, LeftBounded
<1>7. RetryBudget' = 0 + caps' + Cardinality(Recovering') + Open'
                       + Left(Cardinality(Live') + Open', retryAttempt')
  BY DEF RetryBudget
<1>8. RetryBound' = (N + 1) * MaxLimit + N + MaxCaps
  BY DEF RetryBound
<1> HIDE DEF N
<1>q. QED
  BY <1>1, <1>2, <1>3, <1>4, <1>5, <1>6, <1>7, <1>8, Bounds DEF RetriesFit

(* A step that takes nobody among the live and the recovering, and grants   *)
(* nothing.                                                                 *)
LEMMA NothingGranted ==
  ASSUME FlagsOK, CountsOK, (FlagsOK /\ CountsOK)', RetriesFit,
         \A d \in Callers : /\ pc'[d] \in LivePlaces => pc[d] \in LivePlaces
                            /\ pc'[d] = "recover" => pc[d] = "recover",
         retries' = retries, caps' <= caps, Open' <= Open, retryAttempt' >= retryAttempt
  PROVE  RetriesFit'
<1>1. Live' \subseteq Live /\ Recovering' \subseteq Recovering
  BY DEF Live, Recovering, LivePlaces
<1>2. /\ Live \in SUBSET Callers /\ Recovering \in SUBSET Callers
      /\ Cardinality(Live) \in Nat /\ Cardinality(Recovering) \in Nat /\ Open \in 0..1
      /\ retries \in Nat /\ caps \in Nat /\ retryAttempt \in Nat
      /\ Left(Cardinality(Live) + Open, retryAttempt) \in Nat
  BY BudgetParts
<1>3. (/\ Cardinality(Live) \in Nat /\ Cardinality(Recovering) \in Nat /\ Open \in 0..1
       /\ caps \in Nat /\ retryAttempt \in Nat /\ Left(Cardinality(Live) + Open, retryAttempt) \in Nat)'
  BY BudgetParts, PTL
<1>4. Cardinality(Live') <= Cardinality(Live) /\ Cardinality(Recovering') <= Cardinality(Recovering)
  BY <1>1, <1>2, CountNoMore
<1>5. Left(Cardinality(Live') + Open', retryAttempt') <= Left(Cardinality(Live) + Open,
       retryAttempt)
  BY <1>2, <1>3, <1>4, LeftNoMore
<1>6. RetryBudget' <= RetryBudget
  BY <1>2, <1>3, <1>4, <1>5 DEF RetryBudget
<1>7. RetryBudget \in Nat /\ RetryBudget' \in Nat /\ RetryBound' = RetryBound /\ RetryBound \in Nat
  BY <1>2, <1>3, BudgetParts, CallersCounted, Bounds DEF RetryBudget, RetryBound
<1>q. QED
  BY <1>6, <1>7 DEF RetriesFit

(* A retry after a failed reply, or with a lower limit, is paid for by the  *)
(* round or by the limit.                                                   *)
LEMMA RetryGranted ==
  ASSUME CallersOK, FlagsOK, CountsOK, RetriesFit, NEW c \in Callers, pc[c] = "post",
         pc' = [pc EXCEPT ![c] = "retry"], overflowRecoveryAttempted' = overflowRecoveryAttempted,
         retryAttempt' = retryAttempt + 1, retries' <= retries + 1, retries' \in Nat,
         \/ retryAttempt < MaxLimit /\ caps' = caps
         \/ caps > 0 /\ caps' = caps - 1
  PROVE  RetriesFit'
<1>1. Live' = Live /\ Recovering' = Recovering /\ Open' = Open
  BY DEF Live, Recovering, Open, CallersOK
<1>2. /\ Live \in SUBSET Callers /\ Cardinality(Live) \in Nat /\ Cardinality(Recovering) \in Nat
      /\ Open \in 0..1 /\ retries \in Nat /\ caps \in Nat /\ retryAttempt \in Nat
      /\ Left(Cardinality(Live) + Open, retryAttempt) \in Nat
  BY BudgetParts
<1> DEFINE n == Cardinality(Live) + Open
<1>3. n \in Nat /\ n > 0
  <2>1. c \in Live
    BY DEF Live
  <2>2. Live \ {c} \in SUBSET Callers /\ Cardinality(Live \ {c}) \in Nat
    BY <1>2, CallersCounted
  <2>3. Cardinality(Live \ {c}) = Cardinality(Live) - 1
    BY <1>2, <2>1, CountLess
  <2>q. QED
    BY <1>2, <2>2, <2>3
<1>4. /\ RetryBudget = retries + caps + Cardinality(Recovering) + Open + Left(n, retryAttempt)
      /\ RetryBudget' = retries' + caps' + Cardinality(Recovering) + Open + Left(n, retryAttempt + 1)
      /\ RetryBound' = RetryBound
  BY <1>1 DEF RetryBudget, RetryBound
<1>5. RetryBudget' <= RetryBudget
  <2>0. retryAttempt \in Nat /\ retryAttempt + 1 \in Nat
    BY <1>2
  <2>1. Left(n, retryAttempt + 1) \in Nat /\ Left(n, retryAttempt) \in Nat
    BY <1>3, <2>0, LeftBounded
  <2>2. CASE retryAttempt < MaxLimit /\ caps' = caps
    <3>1. Left(n, retryAttempt + 1) + 1 = Left(n, retryAttempt)
      BY <1>2, <1>3, <2>2, LeftRetry
    <3> HIDE DEF n
    <3>q. QED
      BY <1>2, <1>4, <2>1, <2>2, <3>1
  <2>3. CASE caps > 0 /\ caps' = caps - 1
    <3>1. Left(n, retryAttempt + 1) <= Left(n, retryAttempt)
      BY <1>2, <1>3, LeftNoMore
    <3> HIDE DEF n
    <3>q. QED
      BY <1>2, <1>4, <2>1, <2>3, <3>1
  <2>q. QED
    BY <2>2, <2>3
<1>6. RetryBudget \in Nat /\ RetryBudget' \in Nat /\ RetryBound \in Nat
  <2>0. retryAttempt + 1 \in Nat /\ caps' \in Nat
    BY <1>2
  <2>1. Left(n, retryAttempt + 1) \in Nat
    BY <1>3, <2>0, LeftBounded
  <2> HIDE DEF n
  <2>q. QED
    BY <1>2, <1>4, <2>0, <2>1, BudgetParts, CallersCounted, Bounds DEF RetryBound
<1>q. QED
  BY <1>4, <1>5, <1>6 DEF RetriesFit

(* A caller that gives up leaves the next round to the others.              *)
LEMMA RoundGivenUp ==
  ASSUME CallersOK, FlagsOK, CountsOK, (FlagsOK /\ CountsOK)', RetriesFit,
         NEW c \in Callers, pc[c] = "post", pc' = [pc EXCEPT ![c] = "check"],
         UNCHANGED <<retries, caps, overflowRecoveryAttempted>>
  PROVE  RetriesFit'
<1>1. Live' = Live \ {c} /\ Recovering' = Recovering /\ Open' = Open /\ c \in Live
  BY DEF Live, Recovering, Open, CallersOK
<1>2. /\ Live \in SUBSET Callers /\ Cardinality(Live) \in Nat /\ Cardinality(Recovering) \in Nat
      /\ Open \in 0..1 /\ retries \in Nat /\ caps \in Nat /\ retryAttempt \in Nat
      /\ Left(Cardinality(Live) + Open, retryAttempt) \in Nat
  BY BudgetParts
<1>3. (Cardinality(Live) \in Nat /\ retryAttempt \in Nat)'
  BY BudgetParts, PTL
<1>4. Cardinality(Live) = Cardinality(Live') + 1
  BY <1>1, <1>2, <1>3, CountLess
<1> DEFINE n == Cardinality(Live') + Open
<1>5. n \in Nat /\ Cardinality(Live) + Open = n + 1
  BY <1>2, <1>3, <1>4
<1>6. Left(n, retryAttempt') <= Left(n + 1, retryAttempt) /\ Left(n, retryAttempt') \in Nat
  BY <1>2, <1>3, <1>5, LeftNextRound, LeftBounded
<1>7. /\ RetryBudget = retries + caps + Cardinality(Recovering) + Open + Left(n + 1, retryAttempt)
      /\ RetryBudget' = retries + caps + Cardinality(Recovering) + Open + Left(n, retryAttempt')
      /\ RetryBound' = RetryBound
  BY <1>1, <1>5 DEF RetryBudget, RetryBound
<1>8. Left(n + 1, retryAttempt) \in Nat /\ RetryBound \in Nat
  <2>1. n + 1 \in Nat
    BY <1>5
  <2>2. RetryBound \in Nat
    BY CallersCounted, Bounds DEF RetryBound
  <2>q. QED
    BY <1>2, <2>1, <2>2, LeftBounded
<1> HIDE DEF n
<1>q. QED
  BY <1>2, <1>6, <1>7, <1>8 DEF RetriesFit

(* A recovery begins: the one that was open is now the caller's.            *)
LEMMA RecoveryBegins ==
  ASSUME CallersOK, FlagsOK, CountsOK, RetriesFit,
         NEW c \in Callers, pc[c] = "check", pc' = [pc EXCEPT ![c] = "recover"],
         ~overflowRecoveryAttempted, overflowRecoveryAttempted' = TRUE,
         UNCHANGED <<retries, caps, retryAttempt>>
  PROVE  RetriesFit'
<1>1. /\ Live' = Live \union {c} /\ c \notin Live /\ Open = 1 /\ Open' = 0
      /\ Recovering' = Recovering \union {c} /\ c \notin Recovering
  BY DEF Live, Recovering, Open, CallersOK
<1>2. /\ Live \in SUBSET Callers /\ Cardinality(Live) \in Nat
      /\ Recovering \in SUBSET Callers /\ Cardinality(Recovering) \in Nat
      /\ retries \in Nat /\ caps \in Nat
      /\ Left(Cardinality(Live) + Open, retryAttempt) \in Nat
  BY BudgetParts
<1>3. /\ Cardinality(Live') = Cardinality(Live) + 1
      /\ Cardinality(Recovering') = Cardinality(Recovering) + 1
  BY <1>1, <1>2, CountMore
<1>4. Cardinality(Live') + Open' = Cardinality(Live) + Open
  BY <1>1, <1>2, <1>3
<1>5. RetryBudget' = RetryBudget
  BY <1>1, <1>2, <1>3, <1>4 DEF RetryBudget
<1>q. QED
  BY <1>5 DEF RetriesFit, RetryBound

(* A recovery ends with the retry it was.                                   *)
LEMMA RecoveryEnds ==
  ASSUME CallersOK, FlagsOK, CountsOK, RetriesFit,
         NEW c \in Callers, pc[c] = "recover", pc' = [pc EXCEPT ![c] = "continue"],
         UNCHANGED <<caps, retryAttempt, overflowRecoveryAttempted>>,
         retries' \in Nat, retries' <= retries + 1
  PROVE  RetriesFit'
<1>1. Live' = Live /\ Open' = Open /\ Recovering' = Recovering \ {c} /\ c \in Recovering
  BY DEF Live, Recovering, Open, CallersOK
<1>2. /\ Live \in SUBSET Callers /\ Cardinality(Live) \in Nat /\ Open \in Nat
      /\ Recovering \in SUBSET Callers /\ Cardinality(Recovering) \in Nat
      /\ retries \in Nat /\ caps \in Nat
      /\ Left(Cardinality(Live) + Open, retryAttempt) \in Nat
  BY BudgetParts
<1>3. Cardinality(Recovering') = Cardinality(Recovering) - 1
  BY <1>1, <1>2, CountLess
<1> DEFINE left == Left(Cardinality(Live) + Open, retryAttempt)
<1>4. /\ RetryBudget = retries + caps + Cardinality(Recovering) + Open + left
      /\ RetryBudget' = retries' + caps + (Cardinality(Recovering) - 1) + Open + left
      /\ RetryBound' = RetryBound /\ RetryBound \in Nat
  BY <1>1, <1>3, CallersCounted, Bounds DEF RetryBudget, RetryBound
<1> HIDE DEF left
<1>q. QED
  BY <1>2, <1>4 DEF RetriesFit, left

(* Every step keeps the budget.                                             *)
LEMMA RetriesStep ==
  ASSUME CallersOK, FlagsOK, CountsOK, (CallersOK /\ FlagsOK /\ CountsOK)', RetriesFit,
  [Next]_vars
  PROVE  RetriesFit'
<1> USE DEF CallersOK
<1>1. ASSUME NEW c \in Callers, pc'[c] # "recover", retries' = 0 PROVE RetriesFit'
  BY <1>1, CountStartsAnew
<1>2. ASSUME \A d \in Callers : /\ pc'[d] \in LivePlaces => pc[d] \in LivePlaces
                                /\ pc'[d] = "recover" => pc[d] = "recover",
             retries' = retries, caps' <= caps, retryAttempt' >= retryAttempt,
             overflowRecoveryAttempted => overflowRecoveryAttempted'
      PROVE  RetriesFit'
  <2>1. Open' <= Open
    BY <1>2 DEF Open
  <2>q. QED
    BY <1>2, <2>1, NothingGranted
<1>3. ASSUME UNCHANGED <<pc, retries, caps, retryAttempt, overflowRecoveryAttempted>>
      PROVE  RetriesFit'
  BY <1>2, <1>3 DEF CountsOK
<1>4. ASSUME NEW c \in Callers, pc' = [pc EXCEPT ![c] = pc'[c]],
             UNCHANGED <<retries, caps, retryAttempt>>,
             overflowRecoveryAttempted => overflowRecoveryAttempted',
             pc'[c] # "recover", pc'[c] \in LivePlaces => pc[c] \in LivePlaces
      PROVE  RetriesFit'
  BY <1>2, <1>4 DEF CountsOK
<1>21. ASSUME NEW c \in Callers, pc' = [pc EXCEPT ![c] = "idle"], retries' = retries,
              caps' <= caps, retryAttempt' >= retryAttempt,
              overflowRecoveryAttempted => overflowRecoveryAttempted'
      PROVE  RetriesFit'
  BY <1>2, <1>21 DEF LivePlaces
<1>5. ASSUME NEW c \in Callers,
             Prompt(c) \/ PreflightFails(c) \/ Precompact(c) \/ EndPrecompact(c)
      PROVE  RetriesFit'
  BY <1>4, <1>5 DEF Prompt, PreflightFails, Precompact, EndPrecompact, Goto, recovery, LivePlaces
<1>6. ASSUME NEW c \in Callers, NEW kind, RunAgentPrompt(c, kind) PROVE RetriesFit'
  BY <1>1, <1>4, <1>6 DEF RunAgentPrompt, Runs, Enters, Settle, Goto, LivePlaces
<1>7. ASSUME NEW c \in Callers, ToolTurn(c) \/ ContinueCutOff(c) \/ Deliver(c)
      PROVE  RetriesFit'
  <2>1. pc'[c] # "recover" /\ retries' = 0
    BY <1>7 DEF ToolTurn, ContinueCutOff, Deliver, TakesQueued, Enters, drivers
  <2>q. QED
    BY <1>1, <2>1
<1>8. ASSUME NEW c \in Callers, EndRun(c) PROVE RetriesFit'
  <2>1. pc[c] = "running" /\ pc' = [pc EXCEPT ![c] = "post"] /\ pc'[c] = "post" /\ caps' = caps
    BY <1>8 DEF EndRun, Goto
  <2>2. \/ retries' = 0
        \/ /\ retries' = retries /\ retryAttempt' = retryAttempt
           /\ overflowRecoveryAttempted => overflowRecoveryAttempted'
    BY <1>8 DEF EndRun, Reported
  <2>q. QED
    BY <1>1, <1>4, <2>1, <2>2 DEF LivePlaces
<1>9. ASSUME NEW c \in Callers, HandlePostAgentRun(c) PROVE RetriesFit'
  <2>1. pc[c] = "post" /\ UNCHANGED overflowRecoveryAttempted
    BY <1>9 DEF HandlePostAgentRun
  <2>2. ASSUME Throws(c), caps' <= caps, retryAttempt' >= retryAttempt PROVE RetriesFit'
    BY <1>21, <2>1, <2>2 DEF Throws, Settle, Goto
  <2>3. CASE RetryWithLowerLimit(c) \/ RetryError(c)
    <3>1. /\ retryAttempt' = retryAttempt + 1
          /\ \/ retryAttempt < MaxLimit /\ caps' = caps
             \/ caps > 0 /\ caps' = caps - 1
      BY <2>3, LimitsBounded DEF RetryWithLowerLimit, RetryError, Retry, CountsOK
    <3>2. Throws(c) \/ (retries' = Granted /\ pc' = [pc EXCEPT ![c] = "retry"])
      BY <2>3 DEF RetryWithLowerLimit, RetryError, Retry, Goto
    <3>3. retries' = Granted => retries' \in Nat /\ retries' <= retries + 1
      BY DEF Granted, CountsOK
    <3>4. caps' <= caps /\ retryAttempt' >= retryAttempt
      BY <3>1 DEF CountsOK
    <3>q. QED
      BY <2>1, <2>2, <3>1, <3>2, <3>3, <3>4, RetryGranted
  <2>4. CASE GiveUp(c)
    <3>1. caps' = caps /\ caps' <= caps
      BY <2>4 DEF GiveUp, CountsOK
    <3>2. CASE Throws(c) /\ UNCHANGED retryAttempt
      BY <2>2, <3>1, <3>2 DEF CountsOK
    <3>3. CASE Goto(c, "check") /\ UNCHANGED retries
      BY <2>1, <3>1, <3>3, RoundGivenUp DEF Goto
    <3>q. QED
      BY <2>4, <3>2, <3>3 DEF GiveUp
  <2>5. CASE NothingToHandle(c)
    BY <1>4, <2>1, <2>5 DEF NothingToHandle, Goto, LivePlaces
  <2>q. QED
    BY <1>9, <2>3, <2>4, <2>5 DEF HandlePostAgentRun
<1>10. ASSUME NEW c \in Callers, EndRetryDelay(c) PROVE RetriesFit'
  BY <1>4, <1>10 DEF EndRetryDelay, Goto, LivePlaces
<1>11. ASSUME NEW c \in Callers, CheckCompaction(c) PROVE RetriesFit'
  <2>1. pc[c] = "check" /\ UNCHANGED <<retries, caps, retryAttempt>>
    BY <1>11 DEF CheckCompaction
  <2>2. CASE pc'[c] = "recover"
    <3>1. /\ ~overflowRecoveryAttempted /\ overflowRecoveryAttempted' = TRUE
          /\ pc' = [pc EXCEPT ![c] = "recover"]
      BY <1>11, <2>2 DEF CheckCompaction, MayRecover, Goto
    <3>q. QED
      BY <2>1, <3>1, RecoveryBegins
  <2>3. CASE pc'[c] # "recover"
    <3>1. /\ pc' = [pc EXCEPT ![c] = pc'[c]] /\ pc'[c] \in {"compact", "rest"}
          /\ UNCHANGED overflowRecoveryAttempted
      BY <1>11, <2>3 DEF CheckCompaction, Goto
    <3>q. QED
      BY <1>4, <2>1, <3>1 DEF LivePlaces
  <2>q. QED
    BY <2>2, <2>3
<1>12. ASSUME NEW c \in Callers, EndAutoCompaction(c) PROVE RetriesFit'
  <2>1. UNCHANGED <<caps, retryAttempt, overflowRecoveryAttempted>>
    BY <1>12 DEF EndAutoCompaction, recovery
  <2>2. CASE pc[c] = "recover" /\ Goto(c, "continue") /\ retries' = Granted
    <3>1. retries' \in Nat /\ retries' <= retries + 1
      BY <2>2 DEF Granted, CountsOK
    <3>q. QED
      BY <2>1, <2>2, <3>1, RecoveryEnds DEF Goto
  <2>3. CASE ContinueForQueued(c)
    BY <1>1, <2>3 DEF ContinueForQueued, Goto
  <2>4. CASE Goto(c, "rest") /\ UNCHANGED retries
    BY <1>4, <2>1, <2>4 DEF Goto, LivePlaces
  <2>q. QED
    BY <1>12, <2>2, <2>3, <2>4 DEF EndAutoCompaction
<1>13. ASSUME NEW c \in Callers, Rest(c) PROVE RetriesFit'
  BY <1>1, <1>4, <1>13 DEF Rest, ContinueForQueued, Goto, LivePlaces
<1>14. ASSUME NEW c \in Callers, EndWait(c) PROVE RetriesFit'
  BY <1>1, <1>4, <1>14 DEF EndWait, ContinueForQueued, Settle, Goto, recovery, LivePlaces
<1>15. ASSUME NEW c \in Callers, Continue(c) PROVE RetriesFit'
  BY <1>1, <1>4, <1>15 DEF Continue, Runs, TakesQueued, Enters, Settle, Goto, LivePlaces
<1>16. ASSUME CancelRetry, UNCHANGED <<caps, overflowRecoveryAttempted>> PROVE RetriesFit'
  BY <1>1, <1>3, <1>16 DEF CancelRetry, Goto
<1>17. CASE AbortRetry \/ Abort \/ Compact
  BY <1>16, <1>17 DEF AbortRetry, Abort, Compact, Interrupt
<1>18. CASE Queue \/ ClearQueue \/ StartTask \/ EndCompact \/ UNCHANGED vars
  BY <1>3, <1>18 DEF Queue, ClearQueue, StartTask, EndCompact, vars, drivers, recovery
<1>19. CASE EndTask
  BY <1>3, <1>6, <1>19 DEF EndTask, drivers, recovery
<1>20. ASSUME NEW c \in Callers, Submit(c) PROVE RetriesFit'
  BY <1>6, <1>20 DEF Submit
<1>22. ASSUME NEW c \in Callers, RejectRun(c) PROVE RetriesFit'
  <2>1. pc' = [pc EXCEPT ![c] = "idle"] /\ caps' = caps
    BY <1>22 DEF RejectRun, Settle, Goto
  <2>2. \/ retries' = 0
        \/ /\ retries' = retries /\ retryAttempt' = retryAttempt
           /\ overflowRecoveryAttempted => overflowRecoveryAttempted'
    BY <1>22 DEF RejectRun, Reported
  <2>3. pc'[c] = "idle" /\ caps' <= caps /\ retryAttempt >= retryAttempt
    BY <2>1, Bounds DEF CountsOK
  <2>4. CASE retries' = 0
    BY <1>1, <2>3, <2>4
  <2>5. CASE /\ retries' = retries /\ retryAttempt' = retryAttempt
             /\ overflowRecoveryAttempted => overflowRecoveryAttempted'
    BY <1>21, <2>1, <2>3, <2>5
  <2>q. QED
    BY <2>2, <2>4, <2>5
<1>23. ASSUME NEW c \in Callers, CompactionThrows(c) PROVE RetriesFit'
  <2>1. /\ pc' = [pc EXCEPT ![c] = "idle"]
        /\ UNCHANGED <<caps, retryAttempt, overflowRecoveryAttempted, retries>>
    BY <1>23 DEF CompactionThrows, Settle, Goto, recovery
  <2>2. caps' <= caps /\ retryAttempt' >= retryAttempt
    BY <2>1, Bounds DEF CountsOK
  <2>q. QED
    BY <1>21, <2>1, <2>2
<1>q. QED
  BY <1>5, <1>7, <1>8, <1>9, <1>10, <1>11, <1>12, <1>13, <1>14, <1>15, <1>17, <1>18, <1>19,
     <1>20, <1>22, <1>23 DEF Next, Drive

------------------------------------------------------------------------------
(* The theorems.                                                            *)

(* The invariant holds at the start: one round, one recovery and all the    *)
(* lower limits are left.                                                   *)
LEMMA InitIInv == Init => CallersOK /\ FlagsOK /\ CountsOK /\ BusyHasDriver /\ RetriesFit
<1> SUFFICES ASSUME Init PROVE CallersOK /\ FlagsOK /\ CountsOK /\ BusyHasDriver /\ RetriesFit
  OBVIOUS
<1> USE CallerAssumption, Bounds DEF Init
<1>1. CallersOK
  BY DEF CallersOK, Places
<1>2. FlagsOK /\ CountsOK
  <2>1. FlagsOK
    BY DEF FlagsOK
  <2>2. CountsOK
    BY DEF CountsOK, BoundsInv
  <2>q. QED
    BY <2>1, <2>2
<1>3. BusyHasDriver
  BY DEF BusyHasDriver
<1>4. RetriesFit
  <2>1. Live = {} /\ Recovering = {} /\ Open = 1
    BY DEF Live, Recovering, Open
  <2>2. Cardinality(Live) = 0 /\ Cardinality(Recovering) = 0
    BY <2>1, FS_EmptySet
  <2>3. RetryBudget = MaxCaps + 1 + Left(1, 0)
    BY <2>1, <2>2 DEF RetryBudget
  <2>4. Left(1, 0) = MaxLimit
    BY DEF Left
  <2> DEFINE N == Cardinality(Callers)
  <2>5. N \in Nat /\ N >= 1
    BY CallersCounted
  <2>6. (N + 1) * MaxLimit = N * MaxLimit + MaxLimit /\ N * MaxLimit \in Nat
    BY <2>5
  <2>7. RetryBound = (N + 1) * MaxLimit + N + MaxCaps
    BY DEF RetryBound
  <2> HIDE DEF N
  <2>q. QED
    BY <2>3, <2>4, <2>5, <2>6, <2>7 DEF RetriesFit
<1>q. QED
  BY <1>1, <1>2, <1>3, <1>4

(* The invariant holds in every reachable state.                            *)
THEOREM Invariance == Spec => []IInv
<1> DEFINE Inv == CallersOK /\ FlagsOK /\ CountsOK /\ BusyHasDriver /\ RetriesFit
<1>1. Init => Inv
  BY InitIInv
<1>2. Inv /\ [Next]_vars => Inv'
  <2> SUFFICES ASSUME Inv, [Next]_vars PROVE Inv'
    OBVIOUS
  <2>1. (CallersOK /\ FlagsOK /\ CountsOK)'
    BY CallersStep, FlagsStep, CountsStep
  <2>2. BusyHasDriver' /\ RetriesFit'
    BY <2>1, BusyStep, RetriesStep
  <2>q. QED
    BY <2>1, <2>2
<1>3. Inv => IInv
  BY TypeParts DEF IInv
<1>q. QED
  BY <1>1, <1>2, <1>3, PTL DEF Spec

(* The driver's state keeps its types: in particular a retry delay that can *)
(* be cancelled belongs to a driver that waits for it (_prepareRetry).      *)
THEOREM TypeCorrect == Spec => []TypeOK
<1>1. IInv => TypeOK
  BY DEF IInv
<1>q. QED
  BY <1>1, Invariance, PTL

(* However many prompts are under way, the session is never left marked     *)
(* busy without a driver to end it (_runAgentPrompt's finally).             *)
THEOREM BusySessionEnds == Spec => []BusyHasDriver
<1>1. IInv => BusyHasDriver
  BY DEF IInv
<1>q. QED
  BY <1>1, Invariance, PTL

(* However errors, overflows and output limits follow each other, a session *)
(* retries only so often between two messages, good replies or cancelled    *)
(* delays (_handlePostAgentRun, _prepareRetry, _checkCompaction).           *)
THEOREM RetriesAreBounded == Spec => []RetriesBounded
<1>1. IInv => RetriesBounded
  <2> SUFFICES ASSUME IInv PROVE RetriesBounded
    OBVIOUS
  <2>1. FlagsOK /\ CountsOK /\ RetriesFit
    BY TypeParts DEF IInv
  <2>2. /\ retries \in Nat /\ caps \in Nat /\ Cardinality(Recovering) \in Nat /\ Open \in 0..1
        /\ Left(Cardinality(Live) + Open, retryAttempt) \in Nat
    BY <2>1, BudgetParts
  <2>3. RetryBound \in Nat
    BY CallersCounted, Bounds DEF RetryBound
  <2>q. QED
    BY <2>1, <2>2, <2>3 DEF RetriesFit, RetryBudget, RetriesBounded
<1>q. QED
  BY <1>1, Invariance, PTL

(* A driver that ends the session's activity by itself leaves no queued     *)
(* message behind, unless it was aborted or a listener threw out of it: a   *)
(* refused caller settles the session only beside another that drives it    *)
(* (_handlePostAgentRun's last line, _waitForBackgroundTasks).              *)
THEOREM SettledIsEmpty == Spec => SettlesEmpty
<1> DEFINE Settles == /\ isAgentRunActive /\ ~isAgentRunActive'
                      /\ \A c \in Callers : pc'[c] \notin Driving
           Thrown == \E c \in Callers : pc[c] \in Throwing /\ pc'[c] = "idle"
           Empty == ~HasQueuedMessages' \/ abortRequested \/ Thrown
<1>1. CallersOK /\ [Next]_vars => (Settles => Empty)
  <2> SUFFICES ASSUME CallersOK, [Next]_vars, Settles PROVE Empty
    OBVIOUS
  <2> USE DEF CallersOK
  <2>1. ASSUME NEW c \in Callers, NEW kind, RunAgentPrompt(c, kind), pc[c] # "running"
        PROVE  FALSE
    BY <2>1 DEF RunAgentPrompt, Settle, Runs, Goto, Driving
  <2>2. ASSUME NEW c \in Callers, Submit(c) PROVE FALSE
    BY <2>1, <2>2 DEF Submit
  <2>3. CASE EndTask
    BY <2>1, <2>3 DEF EndTask, flags
  <2>4. ASSUME NEW c \in Callers, EndWait(c) PROVE Empty
    BY <2>4 DEF EndWait, MaySettle, HasQueuedMessages, outside
  <2>5. ASSUME NEW c \in Callers, Continue(c) PROVE Empty
    BY <2>5 DEF Continue, Settle, Goto, HasQueuedMessages, Driving
  <2>6. ASSUME NEW c \in Callers,
               \/ Prompt(c) \/ PreflightFails(c) \/ Precompact(c) \/ EndPrecompact(c)
               \/ ToolTurn(c) \/ ContinueCutOff(c) \/ Deliver(c)
               \/ EndRun(c) \/ EndRetryDelay(c) \/ CheckCompaction(c)
               \/ EndAutoCompaction(c) \/ Rest(c)
        PROVE  UNCHANGED isAgentRunActive
    BY <2>6 DEF Prompt, PreflightFails, Precompact, EndPrecompact, ToolTurn, ContinueCutOff,
       Deliver, EndRun, EndRetryDelay, CheckCompaction, EndAutoCompaction, Rest, flags
  <2>8. ASSUME NEW c \in Callers, HandlePostAgentRun(c) PROVE Thrown
    BY <2>8 DEF HandlePostAgentRun, RetryWithLowerLimit, RetryError, Retry, GiveUp,
       NothingToHandle, Throws, Stays, Settle, Goto, Throwing
  <2>9. ASSUME NEW c \in Callers, RejectRun(c) \/ CompactionThrows(c) PROVE Thrown
    BY <2>9 DEF RejectRun, CompactionThrows, Settle, Goto, Throwing
  <2>7. CASE \/ Queue \/ ClearQueue \/ StartTask \/ EndCompact \/ AbortRetry \/ Abort \/ Compact
             \/ UNCHANGED vars
    BY <2>7 DEF Queue, ClearQueue, StartTask, EndCompact, AbortRetry, Abort, Compact, Interrupt,
       vars, flags
  <2>q. QED
    BY <2>2, <2>3, <2>4, <2>5, <2>6, <2>7, <2>8, <2>9 DEF Next, Drive
<1>2. IInv => CallersOK
  BY TypeParts DEF IInv
<1>q. QED
  BY <1>1, <1>2, Invariance, PTL DEF Spec, SettlesEmpty

===============================================================================
