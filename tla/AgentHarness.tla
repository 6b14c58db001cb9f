---------------------------- MODULE AgentHarness ----------------------------
(***************************************************************************)
(* AgentHarness: a session, a model loop and an API that may be called at  *)
(* any time.  A caller is whoever has a call in progress: the application, *)
(* or a subscriber that does not await what it calls.  Entries are         *)
(* numbered as the session gets them, log[n].path is the branch that ends  *)
(* in entry n; an append reads the leaf before it awaits the storage, so   *)
(* that two appends at once may get the same parent.                       *)
(*                                                                         *)
(* The loop is that of AgentRun; only what it asks of the harness is kept: *)
(* messages to save, the end of a turn, the next turn's context, the       *)
(* queues, and agent_end.  Writes stands for appendMessage, setModel,      *)
(* setThinkingLevel, setTools and setActiveTools, which differ in what     *)
(* they write.                                                             *)
(***************************************************************************)
EXTENDS Naturals, FiniteSets, Sequences, SequencesExt

CONSTANTS
  Callers,
  None,           \* no caller
  MaxInputs,      \* bound: calls, queued messages and turns with tools
  MaxFaults       \* bound: subscribers, hooks and appends that fail

ASSUME CallerAssumption == None \notin Callers
ASSUME BoundAssumption == MaxInputs \in Nat /\ MaxFaults \in Nat

VARIABLES
  phase,
  runPromise,           \* the caller whose end it stands for
  runAbortController,   \* the caller whose run it aborts
  queue,                \* per kind, how many messages wait
  pendingSessionWrites,
  pc,                   \* per caller, where its call is
  call,                 \* per caller, the local state of its call
  log, branch,          \* the session: its entries, and those up to its leaf
  inputs, faults,
  written,              \* writes the harness accepted
  held,                 \* those it accepted and left pending without a run to end
  broken,               \* an append has failed
  overlapped            \* a call found the harness idle though another was under way

session == <<log, branch>>
control == <<phase, runPromise, runAbortController>>
history == <<written, held, broken, overlapped>>
bounds == <<inputs, faults>>
vars == <<control, queue, pendingSessionWrites, pc, call, session, bounds, history>>

Kinds == {"steer", "followUp", "nextTurn"}
NoCall ==
  [todo |-> 0,            \* messages to emit and save
   then |-> "none",       \* where the loop goes after that, or after a flush
   reply |-> "none",      \* the last reply
   from |-> "none",       \* the queue its messages were taken from
   failing |-> "no",      \* the run's failure: "no", "reporting", "rejected"
   hurt |-> FALSE,        \* a subscriber of turn_end threw
   aborted |-> FALSE,
   at |-> <<>>,           \* the branch an append in progress continues
   write |-> 0,           \* the write it appends
   context |-> <<>>,      \* the entries the model is shown
   awaits |-> None]       \* the caller whose end abort() waits for

Init ==
  /\ phase = "idle" /\ runPromise = None /\ runAbortController = None
  /\ queue = [k \in Kinds |-> 0] /\ pendingSessionWrites = <<>>
  /\ pc = [c \in Callers |-> "idle"] /\ call = [c \in Callers |-> NoCall]
  /\ log = <<>> /\ branch = <<>>
  /\ inputs = MaxInputs /\ faults = MaxFaults
  /\ written = {} /\ held = {} /\ broken = FALSE /\ overlapped = FALSE

Input == inputs > 0 /\ inputs' = inputs - 1
Fault == faults > 0 /\ faults' = faults - 1
Goto(c, place) == pc' = [pc EXCEPT ![c] = place]

(* A call that works on the session, and not only waits for others.         *)
Working(c) == pc[c] \notin {"idle", "abort", "awaiting"}

(* A call that needs an idle harness is accepted.                           *)
Accepted(c) ==
  /\ pc[c] = "idle" /\ phase = "idle" /\ Input
  /\ overlapped' = (overlapped \/ \E d \in Callers \ {c} : Working(d))

------------------------------------------------------------------------------
(* Session.append*: read the leaf, then append to the storage.              *)
Begin(c, write) == call' = [call EXCEPT ![c].at = branch, ![c].write = write]

Commit(c) ==
  LET entry == Len(log) + 1
      path == Append(call[c].at, entry)
  IN /\ log' = Append(log, [path |-> path, write |-> call[c].write])
     /\ branch' = path

(* The storage refuses.                                                     *)
Breaks == Fault /\ broken' = TRUE /\ UNCHANGED session

------------------------------------------------------------------------------
(* The end of a call.                                                       *)

(* Callers whose abort() waits for c.                                       *)
Waiting(c) == {d \in Callers : pc[d] = "awaiting" /\ call[d].awaits = c}

(* finishRunPromise: whichever promise is set is forgotten, this call's own *)
(* is resolved.                                                             *)
Finish(c) ==
  /\ runPromise' = None
  /\ pc' = [d \in Callers |-> IF d = c \/ d \in Waiting(c) THEN "idle" ELSE pc[d]]
  /\ call' = [d \in Callers |-> IF d = c \/ d \in Waiting(c) THEN NoCall ELSE call[d]]

(* Mutant: a prompt that fails to start leaves its promise behind.          *)
FailsUnfinished(c) ==
  /\ phase' = "idle"
  /\ Goto(c, "idle") /\ call' = [call EXCEPT ![c] = NoCall]
  /\ held' = held \union Range(pendingSessionWrites)
  /\ UNCHANGED <<runPromise, runAbortController, pendingSessionWrites, session, written, broken,
                 overlapped>>

(* A prompt that fails before its run has begun; nothing is flushed.        *)
FailsToStart(c) ==
  /\ phase' = "idle"
  /\ Finish(c)
  /\ held' = held \union Range(pendingSessionWrites)
  /\ UNCHANGED <<runAbortController, pendingSessionWrites, session, written, broken, overlapped>>

------------------------------------------------------------------------------
(* prompt(), skill() and promptFromTemplate(), up to the run.               *)
Prompt(c) ==
  /\ Accepted(c)
  /\ phase' = "turn" /\ runPromise' = c
  /\ Goto(c, "prepare")
  /\ UNCHANGED <<runAbortController, queue, pendingSessionWrites, call, session, faults, written,
                 held, broken>>

(* createTurnState: the session's context first, then a callback.           *)
Prepare(c) ==
  /\ pc[c] = "prepare"
  /\ call' = [call EXCEPT ![c].context = branch]
  /\ Goto(c, "prepared")
  /\ UNCHANGED <<control, queue, pendingSessionWrites, session, bounds, history>>

(* executeTurn: the messages for the next turn come before the prompt.      *)
TakeNextTurn(c) ==
  /\ pc[c] = "prepared"
  /\ call' = [call EXCEPT ![c].todo = queue["nextTurn"] + 1, ![c].then = "steer"]
  /\ queue' = [queue EXCEPT !["nextTurn"] = 0]
  /\ Goto(c, IF queue["nextTurn"] > 0 THEN "announce" ELSE "hook")
  /\ UNCHANGED <<control, pendingSessionWrites, session, bounds, history>>

Announce(c) ==
  /\ pc[c] = "announce"
  /\ Goto(c, "hook")
  /\ UNCHANGED <<control, queue, pendingSessionWrites, call, session, bounds, history>>

(* The system prompt's callback, a subscriber of queue_update or the hook   *)
(* before_agent_start throws; the second one puts the messages back.        *)
StartFails(c) ==
  /\ pc[c] \in {"prepared", "announce", "hook"}
  /\ Fault
  /\ queue' = [queue EXCEPT !["nextTurn"] = @ + IF pc[c] = "announce" THEN call[c].todo - 1 ELSE 0]
  /\ FailsToStart(c)
  /\ UNCHANGED inputs

StartRun(c) ==
  /\ pc[c] = "hook"
  /\ runAbortController' = c
  /\ Goto(c, "emit")
  /\ UNCHANGED <<phase, runPromise, queue, pendingSessionWrites, call, session, bounds, history>>

------------------------------------------------------------------------------
(* The run.                                                                 *)

(* A run that fails reports it as a message and ends; if that fails too,    *)
(* the prompt is rejected.                                                  *)
Throws(c) ==
  IF call[c].failing = "no"
  THEN /\ call' = [call EXCEPT ![c] = [NoCall EXCEPT !.failing = "reporting", !.todo = 1,
                                                     !.then = "turnEnd", !.reply = "failed"]]
       /\ Goto(c, "emit")
  ELSE /\ call' = [call EXCEPT ![c] = [NoCall EXCEPT !.failing = "rejected", !.then = "closed"]]
       /\ Goto(c, "flush")

(* A subscriber, a hook or a callback the run awaits throws.                *)
SubscriberThrows(c) ==
  /\ pc[c] \in {"emit", "steer", "request", "turnEnd", "savePoint", "refreshed", "ending"}
  /\ Fault /\ Throws(c)
  /\ UNCHANGED <<control, queue, pendingSessionWrites, session, inputs, history>>

Emit(c) ==
  /\ pc[c] = "emit"
  /\ Begin(c, 0) /\ Goto(c, "appending")
  /\ UNCHANGED <<control, queue, pendingSessionWrites, session, bounds, history>>

(* message_end: the message is saved, and the next one is due.              *)
Save(c) ==
  /\ pc[c] = "appending"
  /\ Commit(c)
  /\ call' = [call EXCEPT ![c].todo = @ - 1, ![c].at = <<>>,
                          ![c].context = IF call[c].then = "turnEnd" THEN <<>>
                                         ELSE Append(@, Len(log) + 1)]
  /\ Goto(c, IF call[c].todo = 1 THEN call[c].then ELSE "emit")
  /\ UNCHANGED <<control, queue, pendingSessionWrites, bounds, history>>

SaveBreaks(c) ==
  /\ pc[c] = "appending"
  /\ Breaks /\ Throws(c)
  /\ UNCHANGED <<control, queue, pendingSessionWrites, inputs, written, held, overlapped>>

(* drainQueuedMessages, one message or all, of the queue a poll asks for.   *)
Take(c, kind) ==
  /\ queue[kind] > 0
  /\ \E n \in {1, queue[kind]} :
       /\ queue' = [queue EXCEPT ![kind] = @ - n]
       /\ call' = [call EXCEPT ![c].todo = n, ![c].then = "request", ![c].from = kind]
  /\ Goto(c, "drained")

(* The loop polls for steering messages, and for follow-ups when it would   *)
(* stop otherwise.                                                          *)
Poll(c) ==
  /\ pc[c] = "steer"
  /\ \/ Take(c, "steer")
     \/ /\ queue["steer"] = 0 /\ call[c].reply # "stop"
        /\ Goto(c, "request") /\ UNCHANGED <<queue, call>>
     \/ /\ queue["steer"] = 0 /\ call[c].reply = "stop"
        /\ \/ Take(c, "followUp")
           \/ /\ queue["followUp"] = 0
              /\ call' = [call EXCEPT ![c].then = "ended"]
              /\ Goto(c, "flush") /\ UNCHANGED queue
  /\ UNCHANGED <<control, pendingSessionWrites, session, bounds, history>>

Drained(c) ==
  /\ pc[c] = "drained"
  /\ call' = [call EXCEPT ![c].from = "none"]
  /\ Goto(c, "emit")
  /\ UNCHANGED <<control, queue, pendingSessionWrites, session, bounds, history>>

(* A subscriber of queue_update throws: the messages go back to the queue   *)
(* they came from, which an abort may have replaced.                        *)
DrainFails(c) ==
  /\ pc[c] = "drained"
  /\ Fault
  /\ queue' = [k \in Kinds |-> queue[k] + IF k = call[c].from THEN call[c].todo ELSE 0]
  /\ Throws(c)
  /\ UNCHANGED <<control, pendingSessionWrites, session, inputs, history>>

(* The model's reply, with the result of a tool if it calls one; it fails   *)
(* by itself or when aborted.                                               *)
Reply(c) ==
  /\ pc[c] = "request"
  /\ \E reply \in {"stop", "tools", "failed"} :
       /\ \/ reply = "stop" /\ UNCHANGED bounds
          \/ reply = "tools" /\ Input /\ UNCHANGED faults
          \/ reply = "failed" /\ call[c].aborted /\ UNCHANGED bounds
          \/ reply = "failed" /\ Fault /\ UNCHANGED inputs
       /\ call' = [call EXCEPT ![c].reply = reply, ![c].then = "turnEnd",
                               ![c].todo = IF reply = "tools" THEN 2 ELSE 1,
                               ![c].context = <<>>]
  /\ Goto(c, "emit")
  /\ UNCHANGED <<control, queue, pendingSessionWrites, session, history>>

(* turn_end: its subscribers first, then the pending writes.                *)
TurnEnd(c) ==
  /\ pc[c] = "turnEnd"
  /\ \/ call' = [call EXCEPT ![c].then = "saved"] /\ UNCHANGED faults
     \/ call' = [call EXCEPT ![c].then = "saved", ![c].hurt = TRUE] /\ Fault
  /\ Goto(c, "flush")
  /\ UNCHANGED <<control, queue, pendingSessionWrites, session, inputs, history>>

------------------------------------------------------------------------------
(* Mutant: the write leaves the list before it is known to be saved.        *)
FlushFirst(c) ==
  /\ pc[c] = "flush" /\ pendingSessionWrites # <<>>
  /\ Begin(c, Head(pendingSessionWrites)) /\ Goto(c, "flushing")
  /\ pendingSessionWrites' = Tail(pendingSessionWrites)
  /\ UNCHANGED <<control, queue, session, bounds, history>>

(* flushPendingSessionWrites                                                *)
Flush(c) ==
  /\ pc[c] = "flush" /\ pendingSessionWrites # <<>>
  /\ Begin(c, Head(pendingSessionWrites)) /\ Goto(c, "flushing")
  /\ UNCHANGED <<control, queue, pendingSessionWrites, session, bounds, history>>

(* The write is in the session; whichever is first now leaves the list.     *)
Flushed(c) ==
  /\ pc[c] = "flushing"
  /\ Commit(c)
  /\ pendingSessionWrites' =
       IF pendingSessionWrites = <<>> THEN <<>> ELSE Tail(pendingSessionWrites)
  /\ call' = [call EXCEPT ![c].at = <<>>, ![c].write = 0]
  /\ Goto(c, "flush")
  /\ UNCHANGED <<control, queue, bounds, history>>

(* After an append that failed in the last flush the prompt is rejected.    *)
Closes(c) ==
  /\ runAbortController' = None
  /\ Finish(c)

FlushBreaks(c) ==
  /\ pc[c] = "flushing"
  /\ Breaks
  /\ IF call[c].then = "closed"
     THEN Closes(c) /\ phase' = "idle"
     ELSE Throws(c) /\ UNCHANGED control
  /\ UNCHANGED <<queue, pendingSessionWrites, inputs, written, held, overlapped>>

FlushedAll(c, then) == pc[c] = "flush" /\ pendingSessionWrites = <<>> /\ call[c].then = then

(* The end of turn_end: what its subscribers threw, or the save point.      *)
Saved(c) ==
  /\ FlushedAll(c, "saved")
  /\ IF call[c].hurt THEN Throws(c) ELSE Goto(c, "savePoint") /\ UNCHANGED call
  /\ UNCHANGED <<control, queue, pendingSessionWrites, session, bounds, history>>

(* A failed reply ends the run; after any other prepareNextTurn flushes.    *)
SavePoint(c) ==
  /\ pc[c] = "savePoint"
  /\ call' = [call EXCEPT ![c].then = IF call[c].reply = "failed" THEN "ended" ELSE "refresh"]
  /\ Goto(c, "flush")
  /\ UNCHANGED <<control, queue, pendingSessionWrites, session, bounds, history>>

(* Mutant: the next turn goes on with the context of the last one.          *)
KeepContext(c) ==
  /\ FlushedAll(c, "refresh")
  /\ Goto(c, "refreshed")
  /\ UNCHANGED <<control, queue, pendingSessionWrites, call, session, bounds, history>>

(* prepareNextTurn builds the context from the session.                     *)
Refresh(c) ==
  /\ FlushedAll(c, "refresh")
  /\ call' = [call EXCEPT ![c].context = branch]
  /\ Goto(c, "refreshed")
  /\ UNCHANGED <<control, queue, pendingSessionWrites, session, bounds, history>>

Refreshed(c) ==
  /\ pc[c] = "refreshed"
  /\ Goto(c, "steer")
  /\ UNCHANGED <<control, queue, pendingSessionWrites, call, session, bounds, history>>

(* agent_end: the harness is idle before the subscribers hear of it.        *)
AgentEnd(c) ==
  /\ FlushedAll(c, "ended")
  /\ phase' = "idle"
  /\ Goto(c, "ending")
  /\ UNCHANGED <<runPromise, runAbortController, queue, pendingSessionWrites, call, session,
                 bounds, history>>

Settled(c) ==
  /\ pc[c] = "ending"
  /\ call' = [call EXCEPT ![c] = [NoCall EXCEPT !.then = "closed"]]
  /\ Goto(c, "flush")
  /\ UNCHANGED <<control, queue, pendingSessionWrites, session, bounds, history>>

(* Mutant: the prompt ends without a last flush.                            *)
CloseUnflushed(c) ==
  /\ pc[c] = "flush" /\ call[c].then = "closed"
  /\ Closes(c)
  /\ phase' = (IF call[c].failing = "rejected" THEN "idle" ELSE phase)
  /\ UNCHANGED <<queue, pendingSessionWrites, session, bounds, history>>

(* The finally blocks of executeTurn and prompt.                            *)
Close(c) ==
  /\ FlushedAll(c, "closed")
  /\ Closes(c)
  /\ phase' = (IF call[c].failing = "rejected" THEN "idle" ELSE phase)
  /\ UNCHANGED <<queue, pendingSessionWrites, session, bounds, history>>

------------------------------------------------------------------------------
(* Writes: at once when idle, else left to the next flush.                  *)
Number == MaxInputs - inputs + 1

Write(c) ==
  /\ Accepted(c)
  /\ written' = written \union {Number}
  /\ Begin(c, Number) /\ Goto(c, "writing")
  /\ UNCHANGED <<control, queue, pendingSessionWrites, session, faults, held, broken>>

EndWrite(c) ==
  /\ pc[c] = "writing"
  /\ Goto(c, "idle")
  /\ call' = [call EXCEPT ![c] = NoCall]
  /\ \/ Commit(c) /\ UNCHANGED <<bounds, history>>
     \/ /\ Breaks
        /\ written' = written \ {call[c].write}
        /\ UNCHANGED <<inputs, held, overlapped>>
  /\ UNCHANGED <<control, queue, pendingSessionWrites>>

Defer ==
  /\ phase # "idle" /\ Input
  /\ pendingSessionWrites' = Append(pendingSessionWrites, Number)
  /\ written' = written \union {Number}
  /\ held' = (IF phase = "turn" THEN held ELSE held \union {Number})
  /\ UNCHANGED <<control, queue, pc, call, session, faults, broken, overlapped>>

------------------------------------------------------------------------------
(* compact() and navigateTree(): neither flushes when it is over.           *)
Reorganise(c, p, place) ==
  /\ Accepted(c)
  /\ phase' = p
  /\ Goto(c, place)
  /\ UNCHANGED <<runPromise, runAbortController, queue, pendingSessionWrites, call, session,
                 faults, written, held, broken>>

Compact(c) == Reorganise(c, "compaction", "compacting")
NavigateTree(c) == Reorganise(c, "branch_summary", "navigating")

(* The summary is there.                                                    *)
Summarised(c) ==
  /\ pc[c] = "compacting"
  /\ Begin(c, 0) /\ Goto(c, "summarised")
  /\ UNCHANGED <<control, queue, pendingSessionWrites, session, bounds, history>>

(* moveTo: the leaf is set, to any entry or before the first one, and a     *)
(* summary of the branch left may follow it.                                *)
Move(c) ==
  /\ pc[c] = "navigating"
  /\ \E path \in {<<>>} \union {log[n].path : n \in 1..Len(log)} :
       /\ branch' = path
       /\ call' = [call EXCEPT ![c].at = path, ![c].write = 0]
  /\ \E place \in {"summarised", "reorganised"} : Goto(c, place)
  /\ UNCHANGED <<control, queue, pendingSessionWrites, log, bounds, history>>

Summary(c) ==
  /\ pc[c] = "summarised"
  /\ Commit(c) /\ Goto(c, "reorganised")
  /\ UNCHANGED <<control, queue, pendingSessionWrites, call, bounds, history>>

(* Done, cancelled, or failed.                                              *)
EndReorganise(c) ==
  /\ pc[c] \in {"compacting", "navigating", "summarised", "reorganised"}
  /\ phase' = "idle"
  /\ Goto(c, "idle")
  /\ call' = [call EXCEPT ![c] = NoCall]
  /\ UNCHANGED <<runPromise, runAbortController, queue, pendingSessionWrites, session, bounds,
                 history>>

------------------------------------------------------------------------------
(* steer() and followUp() need a busy harness, nextTurn() does not.         *)
Queue(kind) ==
  /\ kind = "nextTurn" \/ phase # "idle"
  /\ Input
  /\ queue' = [queue EXCEPT ![kind] = @ + 1]
  /\ UNCHANGED <<control, pendingSessionWrites, pc, call, session, faults, history>>

(* abort(): new queues, the signal of the run it knows of, and the wait.    *)
Abort(c) ==
  /\ pc[c] = "idle" /\ Input
  /\ queue' = [queue EXCEPT !["steer"] = 0, !["followUp"] = 0]
  /\ call' = [d \in Callers |->
                [call[d] EXCEPT !.from = "none", !.aborted = @ \/ d = runAbortController]]
  /\ Goto(c, "abort")
  /\ UNCHANGED <<control, pendingSessionWrites, session, faults, history>>

AwaitIdle(c) ==
  /\ pc[c] = "abort"
  /\ IF runPromise = None
     THEN Goto(c, "idle") /\ UNCHANGED call
     ELSE Goto(c, "awaiting") /\ call' = [call EXCEPT ![c].awaits = runPromise]
  /\ UNCHANGED <<control, queue, pendingSessionWrites, session, bounds, history>>

------------------------------------------------------------------------------
Step(c) ==
  \/ Prepare(c) \/ TakeNextTurn(c) \/ Announce(c) \/ StartRun(c)
  \/ Emit(c) \/ Save(c) \/ Poll(c) \/ Drained(c) \/ Reply(c) \/ TurnEnd(c)
  \/ Flush(c) \/ Flushed(c) \/ Saved(c) \/ SavePoint(c) \/ Refresh(c) \/ Refreshed(c)
  \/ AgentEnd(c) \/ Settled(c) \/ Close(c)
  \/ EndWrite(c) \/ Summarised(c) \/ Move(c) \/ Summary(c) \/ EndReorganise(c)
  \/ AwaitIdle(c)

Next ==
  \/ \E c \in Callers :
       \/ Prompt(c) \/ Write(c) \/ Compact(c) \/ NavigateTree(c) \/ Abort(c) \/ Step(c)
       \/ StartFails(c) \/ SubscriberThrows(c) \/ SaveBreaks(c) \/ DrainFails(c) \/ FlushBreaks(c)
  \/ Defer \/ \E kind \in Kinds : Queue(kind)

Spec == Init /\ [][Next]_vars

(* Whatever a call awaits comes back.                                       *)
FairSpec == Spec /\ \A c \in Callers : WF_vars(Step(c))

------------------------------------------------------------------------------
(* How often a write is in the session, on its way there, or pending.       *)
Times(w) ==
  Cardinality({n \in 1..Len(log) : log[n].write = w})
    + Cardinality({n \in 1..Len(pendingSessionWrites) : pendingSessionWrites[n] = w})
    + Cardinality({c \in Callers : pc[c] = "writing" /\ call[c].write = w})

(* As long as no call finds the harness idle during another one, every      *)
(* write it accepts is saved once, whatever fails in between                *)
(* (flushPendingSessionWrites).                                             *)
WritesSavedOnce == overlapped \/ \A w \in written : Times(w) = 1

(* A run leaves no write behind: what is pending when nothing is under way  *)
(* was accepted during a compaction or a navigation, or by a prompt whose   *)
(* run never began (executeTurn's finally, agent_end).                      *)
NothingHeldBack ==
  (\A c \in Callers : ~Working(c)) =>
    overlapped \/ broken \/ Range(pendingSessionWrites) \subseteq held

(* The model is asked with what the session holds, though subscribers write *)
(* to it and messages are queued meanwhile (prepareNextTurn).               *)
ContextIsSaved ==
  \A c \in Callers : pc[c] = "request" => overlapped \/ call[c].context = branch

(* Every call ends, also an abort that waits for another call's run, however *)
(* that run fails (finishRunPromise, abort).                                *)
CallsEnd == \A c \in Callers : pc[c] # "idle" ~> pc[c] = "idle"
==============================================================================
