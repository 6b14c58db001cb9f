---------------------------- MODULE ToolBatchProofs ----------------------------
(***************************************************************************)
(* The inductive invariant of ToolBatch and what follows from it, for any  *)
(* number of batches, of calls in each and of subscribers that throw.      *)
(***************************************************************************)
EXTENDS ToolBatch, TLAPS, FiniteSetTheorems

(* A batch is under way, and no subscriber has thrown.                      *)
Live == pc \notin {"idle", "failing"}

TypeInv ==
  /\ run \in 0..MaxRuns /\ active \in BOOLEAN /\ aborted \in BOOLEAN
  /\ size \in 0..MaxCalls /\ mustRunAlone \subseteq 1..size /\ truncated \in BOOLEAN
  /\ pc \in Places /\ next \in 0..MaxCalls
  /\ DOMAIN phase = 1..size /\ \A i \in 1..size : phase[i] \in PhaseNames
  /\ terminate \subseteq 1..size /\ results \in Seq(Nat)
  /\ pendingToolCalls \subseteq Calls /\ executing \subseteq Calls
  /\ throws \in 0..MaxThrows

(* Nothing of a batch is left when none is under way.                       *)
IdleInv ==
  /\ active <=> pc /= "idle"
  /\ active => run /= 0
  /\ ~active => /\ size = 0 /\ mustRunAlone = {} /\ ~truncated /\ results = <<>>
                /\ pendingToolCalls = {}

(* How far the calls got: those before the one at hand, that one, and those *)
(* after it.                                                                *)
ProgressInv ==
  Live =>
    /\ next \in 1..size
    /\ \A j \in 1..size :
         /\ j > next => phase[j] = "todo"
         /\ j < next =>
              /\ pc \in {"next", "prepare", "cutOff", "check"} => phase[j] \in {"prepared", "ended"}
              /\ pc = "await" => phase[j] \in {"running", "ended"}
              /\ OneByOne \/ pc \in {"results", "done"} => phase[j] = "ended"
    /\ pc = "next" => phase[next] = "todo"
    /\ pc \in {"prepare", "cutOff"} => phase[next] = "started"
    /\ pc = "check" => phase[next] \in {"prepared", "ended"}
    /\ pc = "await" => phase[next] \in {"running", "ended"}
    /\ pc \in {"results", "done"} => phase[next] = "ended"

(* How many results there are.                                              *)
ResultsInv ==
  /\ \A k \in DOMAIN results : results[k] = k
  /\ Live =>
       /\ OneByOne /\ pc /= "done" => Len(results) = next - 1
       /\ ~OneByOne /\ pc \notin {"results", "done"} => Len(results) = 0
       /\ pc = "results" => Len(results) < next
       /\ pc = "done" => Len(results) = next

(* Only an abort makes a batch end before its last call.                    *)
CutShortInv ==
  /\ pc \in {"await", "results"} /\ ~OneByOne /\ next < size => aborted
  /\ pc = "done" /\ next < size => aborted /\ ~truncated

(* The tools at work are those of the calls at work, or of runs that are    *)
(* over or failing.                                                         *)
ExecutingInv ==
  /\ \A c \in executing : c[1] <= run
  /\ Live => \A c \in executing :
       c[1] = run => pc = "await" /\ c[2] \in 1..size /\ phase[c[2]] = "running"

TruncatedInv ==
  truncated =>
    /\ terminate = {} /\ pc /= "prepare"
    /\ \A i \in 1..size : phase[i] \notin {"prepared", "running"}
    /\ \A c \in executing : c[1] /= run

IInv ==
  /\ TypeInv /\ IdleInv /\ ProgressInv /\ ResultsInv /\ CutShortInv /\ ExecutingInv
  /\ TruncatedInv /\ PendingIsExact

-------------------------------------------------------------------------------

(* The invariant holds at the start: there is no batch.                      *)
LEMMA InitIInv == Init => IInv
<1> SUFFICES ASSUME Init PROVE IInv
  OBVIOUS
<1> USE BoundAssumption DEF Init
<1>1. TypeInv
  <2>1. 0 \in 0..MaxRuns /\ 0 \in 0..MaxCalls /\ 0 \in 0..MaxThrows
    OBVIOUS
  <2>2. <<>> \in Seq(Nat) /\ DOMAIN phase = 1..size /\ 1..size = {}
    OBVIOUS
  <2>q. QED
    BY <2>1, <2>2 DEF TypeInv, Places
<1>2. IdleInv /\ ProgressInv /\ ResultsInv /\ CutShortInv /\ ExecutingInv /\ TruncatedInv
  BY DEF IdleInv, Live, ProgressInv, ResultsInv, CutShortInv, ExecutingInv, TruncatedInv
<1>3. PendingIsExact
  BY DEF PendingIsExact
<1>q. QED
  BY <1>1, <1>2, <1>3 DEF IInv

(* A step that leaves alone what the invariant is about keeps it.            *)
LEMMA Unchanged == IInv /\ UNCHANGED vars => IInv'
BY DEF IInv, vars, batch, TypeInv, IdleInv, ProgressInv, ResultsInv, CutShortInv,
       ExecutingInv, TruncatedInv, PendingIsExact, Live, OneByOne, Sequential

(* After a throw only the tools at work and the results so far matter.       *)
LEMMA ThrowStep ==
  ASSUME IInv, Live, Throw, TypeInv',
         UNCHANGED batch,
         executing' \subseteq executing,
         terminate' = {} \/ ~truncated,
         \A i \in 1..size : truncated => phase'[i] \notin {"prepared", "running"},
         \A k \in DOMAIN results' : results'[k] = k
  PROVE  IInv'
<1> USE DEF IInv, batch
<1>1. active /\ pc' = "failing"
  BY DEF IdleInv, Live, Throw
<1>2. IdleInv'
  BY <1>1 DEF IdleInv
<1>3. ~Live'
  BY <1>1 DEF Live
<1>4. ProgressInv' /\ ResultsInv'
  BY <1>3 DEF ProgressInv, ResultsInv
<1>5. CutShortInv' /\ PendingIsExact'
  BY <1>1 DEF CutShortInv, PendingIsExact
<1>6. ExecutingInv'
  BY <1>3 DEF ExecutingInv
<1>7. TruncatedInv'
  BY <1>1 DEF TruncatedInv
<1>q. QED
  BY <1>2, <1>4, <1>5, <1>6, <1>7

-------------------------------------------------------------------------------
(* One lemma per action.                                                     *)

(* A run starts with its calls untouched; tools of earlier runs may go on.    *)
LEMMA StartRunStep == ASSUME IInv, StartRun PROVE IInv'
<1> USE DEF IInv, StartRun
<1>1. /\ run \in Nat /\ run' = run + 1 /\ run' \in 0..MaxRuns /\ size' \in 1..MaxCalls
      /\ phase' = [i \in 1..size' |-> "todo"]
  BY BoundAssumption DEF TypeInv
<1>2. \A c \in executing' : c[1] \in Nat /\ c[1] < run'
  <2>1. \A c \in executing : c[1] \in Nat
    BY DEF TypeInv, Calls
  <2>q. QED
    BY <1>1, <2>1 DEF ExecutingInv
<1>3. TypeInv'
  <2>1. 1 \in 0..MaxCalls /\ size' \in 0..MaxCalls
    BY <1>1, BoundAssumption
  <2>2. <<>> \in Seq(Nat)
    OBVIOUS
  <2>q. QED
    BY <1>1, <2>1, <2>2 DEF TypeInv, Places, PhaseNames
<1>4. IdleInv' /\ CutShortInv'
  BY <1>1 DEF IdleInv, CutShortInv
<1>5. ProgressInv'
  BY <1>1 DEF ProgressInv
<1>6. ResultsInv'
  BY DEF ResultsInv
<1>7. ExecutingInv'
  BY <1>1, <1>2 DEF ExecutingInv
<1>8. TruncatedInv'
  BY <1>1, <1>2 DEF TruncatedInv
<1>9. PendingIsExact'
  BY <1>1 DEF PendingIsExact, IdleInv
<1>q. QED
  BY <1>3, <1>4, <1>5, <1>6, <1>7, <1>8, <1>9

(* An abort only sets the signal.                                            *)
LEMMA AbortStep == ASSUME IInv, Abort PROVE IInv'
BY DEF IInv, Abort, TypeInv, IdleInv, ProgressInv, ResultsInv, CutShortInv, ExecutingInv,
       TruncatedInv, PendingIsExact, Live, OneByOne, Sequential

(* The call at hand becomes pending when it starts.                          *)
LEMMA StartCallStep == ASSUME IInv, StartCall PROVE IInv'
<1> USE DEF IInv
<1>1. /\ Live /\ ~(pc \in {"idle", "failing", "await", "results", "done"})
      /\ next \in 1..size /\ next \in Nat /\ phase[next] = "todo"
      /\ UNCHANGED <<batch, next, terminate, results, executing>>
      /\ <<run, next>> \in Calls
  <2>1. Live /\ next \in 1..size
    BY DEF StartCall, Live, ProgressInv
  <2>2. run \in 1..MaxRuns
    BY BoundAssumption DEF StartCall, IdleInv, TypeInv
  <2>q. QED
    BY <2>1, <2>2, BoundAssumption DEF StartCall, TypeInv, ProgressInv, Calls
<1>2. /\ DOMAIN phase' = 1..size /\ phase'[next] = "started"
      /\ \A j \in 1..size : j /= next => phase'[j] = phase[j]
      /\ pendingToolCalls' = pendingToolCalls \union {<<run, next>>}
  BY <1>1 DEF StartCall, TypeInv
<1>3. TypeInv'
  <2>1. pc' \in Places /\ throws' \in 0..MaxThrows
    BY BoundAssumption DEF StartCall, AfterStart, Throw, TypeInv, Places
  <2>q. QED
    BY <1>1, <1>2, <2>1 DEF TypeInv, batch, PhaseNames
<1>4. CASE Throw
  BY <1>1, <1>2, <1>3, <1>4, ThrowStep DEF TruncatedInv, ResultsInv
<1>5. CASE pc' = AfterStart
  <2> USE DEF batch, OneByOne, Sequential
  <2>1. Live' /\ IdleInv' /\ CutShortInv'
    BY <1>1, <1>5 DEF Live, IdleInv, CutShortInv, AfterStart
  <2>2. ProgressInv'
    BY <1>1, <1>2, <1>5 DEF ProgressInv, StartCall, AfterStart
  <2>3. ResultsInv'
    BY <1>1, <1>5 DEF ResultsInv, StartCall, AfterStart
  <2>4. ExecutingInv'
    BY <1>1, <1>5 DEF ExecutingInv, StartCall, AfterStart
  <2>5. TruncatedInv'
    BY <1>1, <1>2, <1>5 DEF TruncatedInv, AfterStart
  <2>6. PendingIsExact'
    BY <1>1, <1>2 DEF PendingIsExact, Live
  <2>q. QED
    BY <1>3, <2>1, <2>2, <2>3, <2>4, <2>5, <2>6
<1>q. QED
  BY <1>4, <1>5 DEF StartCall

(* Where the batch is while it prepares the call at hand.                    *)
LEMMA AtHand ==
  ASSUME IInv, pc \in {"prepare", "cutOff"}
  PROVE  /\ Live /\ next \in 1..size /\ next \in Nat /\ <<run, next>> \in Calls
         /\ DOMAIN phase = 1..size /\ phase[next] = "started"
         /\ \A c \in executing : c[1] /= run
<1> USE DEF IInv
<1>1. Live /\ next \in 1..size /\ DOMAIN phase = 1..size /\ phase[next] = "started"
  BY DEF Live, ProgressInv, TypeInv
<1>2. run \in 1..MaxRuns
  BY BoundAssumption DEF IdleInv, TypeInv
<1>3. next \in 1..MaxCalls
  BY <1>1, BoundAssumption DEF TypeInv
<1>4. \A c \in executing : c[1] /= run
  BY <1>1 DEF ExecutingInv
<1>q. QED
  BY <1>1, <1>2, <1>3, <1>4 DEF Calls

(* The call at hand ends without its tool: it is pending no longer.          *)
LEMMA FailCallStep == ASSUME IInv, FailCall PROVE IInv'
<1> USE DEF IInv
<1>1. /\ pc \in {"prepare", "cutOff"}
      /\ UNCHANGED <<batch, next, terminate, results, executing>>
      /\ phase' = [phase EXCEPT ![next] = "ended"]
      /\ pendingToolCalls' = pendingToolCalls \ {<<run, next>>}
  BY DEF FailCall, Ended
<1>2. /\ Live /\ next \in 1..size /\ next \in Nat
      /\ DOMAIN phase' = 1..size /\ phase'[next] = "ended"
      /\ \A j \in 1..size : j /= next => phase'[j] = phase[j]
  BY <1>1, AtHand
<1>3. TypeInv'
  <2>1. pc' \in Places /\ throws' \in 0..MaxThrows
    BY BoundAssumption DEF FailCall, Throw, TypeInv, Places
  <2>q. QED
    BY <1>1, <1>2, <2>1 DEF TypeInv, batch, PhaseNames
<1>4. CASE Throw
  BY <1>1, <1>2, <1>3, <1>4, ThrowStep DEF TruncatedInv, ResultsInv
<1>5. CASE pc' = IF OneByOne THEN "results" ELSE "check"
  <2> USE DEF batch
  <2>0. OneByOne' = OneByOne
    BY <1>1 DEF OneByOne, Sequential
  <2>1. Live' /\ IdleInv' /\ CutShortInv'
    BY <1>1, <1>5, <2>0 DEF Live, IdleInv, CutShortInv
  <2>2. ProgressInv'
    BY <1>1, <1>2, <1>5, <2>0 DEF ProgressInv
  <2>3. ResultsInv'
    <3>1. Len(results) \in Nat
      BY DEF TypeInv
    <3>q. QED
      BY <1>1, <1>2, <1>5, <2>0, <3>1 DEF ResultsInv
  <2>4. ExecutingInv'
    BY <1>1, AtHand DEF ExecutingInv
  <2>5. TruncatedInv'
    BY <1>1, <1>2, <1>5 DEF TruncatedInv
  <2>6. PendingIsExact'
    BY <1>1, <1>2 DEF PendingIsExact, Live
  <2>q. QED
    BY <1>3, <2>1, <2>2, <2>3, <2>4, <2>5, <2>6
<1>q. QED
  BY <1>4, <1>5 DEF FailCall

(* The call at hand is let through, which needs a reply that was not cut off. *)
LEMMA PrepareCallStep == ASSUME IInv, PrepareCall PROVE IInv'
<1> USE DEF IInv
<1>1. /\ pc = "prepare" /\ pc' = "check" /\ ~truncated
      /\ UNCHANGED <<batch, next, terminate, results, pendingToolCalls, executing, throws>>
      /\ phase' = [phase EXCEPT ![next] = "prepared"]
  BY DEF PrepareCall, TruncatedInv
<1>2. /\ Live /\ next \in 1..size /\ next \in Nat
      /\ DOMAIN phase' = 1..size /\ phase'[next] = "prepared" /\ phase[next] = "started"
      /\ \A j \in 1..size : j /= next => phase'[j] = phase[j]
  BY <1>1, AtHand
<1> USE DEF batch
<1>3. TypeInv'
  BY <1>1, <1>2 DEF TypeInv, PhaseNames, Places
<1>4. OneByOne' = OneByOne /\ Live' /\ IdleInv' /\ CutShortInv'
  BY <1>1 DEF Live, OneByOne, Sequential, IdleInv, CutShortInv
<1>5. ProgressInv'
  BY <1>1, <1>2, <1>4 DEF ProgressInv
<1>6. ResultsInv'
  BY <1>1, <1>2, <1>4 DEF ResultsInv
<1>7. ExecutingInv'
  BY <1>1, AtHand DEF ExecutingInv
<1>8. TruncatedInv'
  BY <1>1 DEF TruncatedInv
<1>9. PendingIsExact'
  BY <1>1, <1>2 DEF PendingIsExact
<1>q. QED
  BY <1>3, <1>4, <1>5, <1>6, <1>7, <1>8, <1>9

(* A parallel batch turns to its next call while the prepared ones wait.     *)
LEMMA NextParallelStep == ASSUME IInv, NextParallel PROVE IInv'
<1> USE DEF IInv, batch
<1>1. /\ pc = "check" /\ ~OneByOne /\ next < size /\ next' = next + 1 /\ pc' = "next"
      /\ UNCHANGED <<batch, phase, terminate, results, pendingToolCalls, executing, throws>>
  BY DEF NextParallel
<1>2. OneByOne' = OneByOne /\ Live /\ Live'
  BY <1>1 DEF Live, OneByOne, Sequential, Sequential
<1>3. size \in Nat /\ next \in Nat /\ next' \in 1..size /\ next' \in 0..MaxCalls
  BY <1>1, BoundAssumption DEF TypeInv
<1>4. TypeInv'
  BY <1>1, <1>3 DEF TypeInv, Places
<1>5. IdleInv' /\ CutShortInv'
  BY <1>1 DEF IdleInv, CutShortInv
<1>6. ProgressInv'
  BY <1>1, <1>2, <1>3 DEF ProgressInv
<1>7. ResultsInv'
  BY <1>1, <1>2, <1>3 DEF ResultsInv
<1>8. ExecutingInv'
  BY <1>1, <1>2 DEF ExecutingInv
<1>9. TruncatedInv' /\ PendingIsExact'
  BY <1>1 DEF TruncatedInv, PendingIsExact
<1>q. QED
  BY <1>4, <1>5, <1>6, <1>7, <1>8, <1>9

(* The prepared tools start; a call is prepared only if the reply was whole. *)
LEMMA LaunchStep == ASSUME IInv, Launch PROVE IInv'
<1> USE DEF IInv, batch
<1> DEFINE launched == {<<run, i>> : i \in {j \in 1..size : phase[j] = "prepared"}}
<1>1. /\ pc = "check" /\ pc' = "await" /\ (OneByOne \/ next = size \/ aborted)
      /\ UNCHANGED <<batch, next, terminate, results, pendingToolCalls, throws>>
      /\ phase' = [i \in 1..size |-> IF phase[i] = "prepared" THEN "running" ELSE phase[i]]
      /\ executing' = executing \union launched
  BY DEF Launch, LaunchNow
<1>2. /\ OneByOne' = OneByOne /\ Live /\ Live' /\ next \in 1..size /\ size \in 0..MaxCalls
      /\ run \in 1..MaxRuns
      /\ \A j \in 1..size : phase'[j] = IF phase[j] = "prepared" THEN "running" ELSE phase[j]
  BY <1>1, BoundAssumption DEF Live, OneByOne, Sequential, TypeInv, IdleInv, ProgressInv
<1>3. /\ launched \subseteq Calls
      /\ \A c \in launched : c[1] = run /\ c[2] \in 1..size /\ phase[c[2]] = "prepared"
  BY <1>2, BoundAssumption DEF Calls
<1>4. \A c \in executing : c[1] /= run
  BY <1>1, <1>2 DEF ExecutingInv
<1> HIDE DEF launched
<1>6. TypeInv'
  BY <1>1, <1>2, <1>3 DEF TypeInv, PhaseNames, Places
<1>7. IdleInv' /\ CutShortInv'
  BY <1>1, <1>2 DEF IdleInv, CutShortInv
<1>8. ProgressInv'
  BY <1>1, <1>2 DEF ProgressInv
<1>9. ResultsInv'
  BY <1>1, <1>2 DEF ResultsInv
<1>10. ExecutingInv'
  <2>1. \A c \in executing' : c[1] <= run
    BY <1>1, <1>2, <1>3 DEF ExecutingInv
  <2>2. \A c \in executing' : c[1] = run => c \in launched
    BY <1>1, <1>4
  <2>3. \A c \in launched : phase'[c[2]] = "running"
    BY <1>2, <1>3
  <2>q. QED
    BY <1>1, <1>3, <2>1, <2>2, <2>3 DEF ExecutingInv
<1>11. TruncatedInv'
  BY <1>1, <1>2, <1>3, <1>4 DEF TruncatedInv
<1>12. PendingIsExact'
  BY <1>1, <1>2 DEF PendingIsExact
<1>q. QED
  BY <1>6, <1>7, <1>8, <1>9, <1>10, <1>11, <1>12

(* A tool of the batch returns.                                              *)
LEMMA FinishCallStep ==
  ASSUME IInv, NEW i \in 1..MaxCalls, i <= size, FinishCall(i)
  PROVE  IInv'
<1> USE DEF IInv, batch
<1>1. /\ pc = "await" /\ phase[i] = "running" /\ UNCHANGED <<batch, next, results>>
      /\ phase' = [phase EXCEPT ![i] = "ended"]
      /\ executing' = executing \ {<<run, i>>}
      /\ pendingToolCalls' = pendingToolCalls \ {<<run, i>>}
      /\ terminate' \subseteq terminate \union {i}
  BY DEF FinishCall, Ended
<1>2. /\ Live /\ OneByOne' = OneByOne /\ size \in 0..MaxCalls /\ i \in 1..size
      /\ DOMAIN phase' = 1..size /\ phase'[i] = "ended" /\ ~truncated
      /\ \A j \in 1..size : j /= i => phase'[j] = phase[j]
  BY <1>1, BoundAssumption DEF Live, OneByOne, Sequential, TypeInv, TruncatedInv
<1>3. TypeInv'
  <2>1. pc' \in Places /\ throws' \in 0..MaxThrows
    BY <1>1, BoundAssumption DEF FinishCall, Throw, TypeInv, Places
  <2>q. QED
    BY <1>1, <1>2, <2>1 DEF TypeInv, PhaseNames
<1>4. CASE Throw
  BY <1>1, <1>2, <1>3, <1>4, ThrowStep DEF ResultsInv
<1>5. CASE UNCHANGED pc
  <2>1. IdleInv' /\ CutShortInv' /\ Live'
    BY <1>1, <1>2, <1>5 DEF IdleInv, CutShortInv, Live
  <2>2. ProgressInv'
    BY <1>1, <1>2, <1>5, <2>1 DEF ProgressInv
  <2>3. ResultsInv'
    BY <1>1, <1>2, <1>5, <2>1 DEF ResultsInv
  <2>4. ExecutingInv'
    <3>1. \A c \in executing' : c \in executing /\ (c[1] = run => c[2] /= i)
      BY <1>1 DEF TypeInv, Calls
    <3>q. QED
      BY <1>1, <1>2, <1>5, <2>1, <3>1 DEF ExecutingInv
  <2>5. TruncatedInv'
    BY <1>1, <1>2 DEF TruncatedInv
  <2>6. PendingIsExact'
    BY <1>1, <1>2, <1>5 DEF PendingIsExact
  <2>q. QED
    BY <1>3, <2>1, <2>2, <2>3, <2>4, <2>5, <2>6
<1>q. QED
  BY <1>4, <1>5 DEF FinishCall

(* A tool that outlived its run returns: its call is not one the live run    *)
(* shows as pending.                                                         *)
LEMMA FinishStragglerStep ==
  ASSUME IInv, NEW c \in executing, FinishStraggler(c)
  PROVE  IInv'
<1> USE DEF IInv, batch
<1>1. /\ c[1] < run \/ pc /= "await"
      /\ UNCHANGED <<batch, pc, next, phase, terminate, results, throws>>
      /\ executing' = executing \ {c} /\ pendingToolCalls' = pendingToolCalls \ {c}
  BY DEF FinishStraggler, Ended
<1>2. OneByOne' = OneByOne /\ Live' = Live
  BY <1>1 DEF OneByOne, Sequential, Live
<1>3. TypeInv'
  BY <1>1 DEF TypeInv
<1>4. IdleInv' /\ CutShortInv' /\ TruncatedInv'
  BY <1>1, <1>2 DEF IdleInv, CutShortInv, TruncatedInv
<1>5. ProgressInv' /\ ResultsInv'
  BY <1>1, <1>2 DEF ProgressInv, ResultsInv
<1>6. ExecutingInv'
  BY <1>1, <1>2 DEF ExecutingInv
<1>7. PendingIsExact'
  <2>1. c[1] \in Nat /\ run \in Nat
    BY DEF TypeInv, Calls
  <2>2. Live => c[1] /= run
    BY <1>1, <2>1 DEF ExecutingInv
  <2>3. Live => \A i \in 1..size : c /= <<run, i>>
    BY <2>2
  <2>4. CASE Live
    BY <1>1, <2>3, <2>4 DEF PendingIsExact
  <2>5. CASE pc = "idle"
    BY <1>1, <2>5 DEF PendingIsExact, IdleInv
  <2>q. QED
    BY <1>1, <2>4, <2>5 DEF PendingIsExact, Live
<1>q. QED
  BY <1>3, <1>4, <1>5, <1>6, <1>7

(* All tools of a parallel batch have ended; their results are to be emitted. *)
LEMMA CollectResultsStep == ASSUME IInv, CollectResults PROVE IInv'
<1> USE DEF IInv, batch
<1>1. /\ pc = "await" /\ pc' = "results" /\ \A i \in 1..size : phase[i] /= "running"
      /\ UNCHANGED <<batch, next, phase, terminate, results, pendingToolCalls, executing, throws>>
  BY DEF CollectResults
<1>2. OneByOne' = OneByOne /\ Live' /\ Live /\ next \in 1..size
  BY <1>1 DEF OneByOne, Sequential, Live, ProgressInv
<1>3. TypeInv' /\ IdleInv' /\ CutShortInv' /\ TruncatedInv'
  BY <1>1, <1>2 DEF TypeInv, Places, IdleInv, CutShortInv, TruncatedInv
<1>4. ProgressInv'
  BY <1>1, <1>2 DEF ProgressInv
<1>5. ResultsInv'
  <2>1. next \in Nat /\ next > 0
    BY <1>2
  <2>q. QED
    BY <1>1, <1>2, <2>1 DEF ResultsInv
<1>6. ExecutingInv' /\ PendingIsExact'
  BY <1>1, <1>2 DEF ExecutingInv, PendingIsExact
<1>q. QED
  BY <1>3, <1>4, <1>5, <1>6

(* The next result in call order is emitted; without a throw, the batch goes *)
(* on with the next call, is done, or has more results to emit.              *)
LEMMA EmitResultStep ==
  ASSUME IInv, NEW i \in 1..MaxCalls, EmitResult(i)
  PROVE  IInv'
<1> USE DEF IInv, batch
<1>1. /\ pc = "results" /\ i \in 1..size /\ phase[i] = "ended" /\ i = Len(results) + 1
      /\ results' = Append(results, i)
      /\ UNCHANGED <<batch, phase, terminate, pendingToolCalls, executing>>
  BY DEF EmitResult, NextResult
<1>2. /\ Live /\ OneByOne' = OneByOne /\ size \in 0..MaxCalls /\ next \in 1..size
      /\ results \in Seq(Nat) /\ Len(results) \in Nat /\ i \in Nat /\ next \in Nat
  BY <1>1, BoundAssumption DEF Live, OneByOne, Sequential, TypeInv, ProgressInv
<1>3. /\ results' \in Seq(Nat) /\ Len(results') = i
      /\ \A k \in DOMAIN results' : results'[k] = k
  BY <1>1, <1>2 DEF ResultsInv
<1>4. /\ \A j \in 1..size : j <= next => phase[j] = "ended"
      /\ \A j \in 1..size : j > next => phase[j] = "todo"
  BY <1>1, <1>2 DEF ProgressInv, TypeInv
<1>5. i <= next /\ (OneByOne => i = next)
  BY <1>1, <1>2 DEF ResultsInv
<1>6. \A j \in 1..size : Answered(j)' <=> j <= i
  <2>1. DOMAIN results' = 1..i
    BY <1>2, <1>3
  <2>2. ASSUME NEW j \in 1..size
        PROVE  Answered(j)' <=> j <= i
    <3>1. Answered(j)' <=> \E k \in DOMAIN results' : results'[k] = j
      BY DEF Answered
    <3>2. Answered(j)' <=> \E k \in 1..i : k = j
      BY <1>3, <2>1, <3>1
    <3>q. QED
      BY <1>2, <3>2
  <2>q. QED
    BY <1>1, <2>2
<1>7. /\ pc' \in {"failing", "results", "next", "done"} /\ next' \in 0..MaxCalls
      /\ throws' \in 0..MaxThrows
  <2>1. next' \in {next, next + 1} /\ (next' = next + 1 /\ next' /= next => next /= size)
    BY <1>2 DEF EmitResult, LastResult
  <2>2. throws' \in 0..MaxThrows
    BY BoundAssumption DEF EmitResult, Throw, TypeInv
  <2>q. QED
    BY <1>2, <2>1, <2>2, BoundAssumption DEF EmitResult, Throw
<1>8. TypeInv'
  BY <1>1, <1>3, <1>7 DEF TypeInv, Places
<1>9. CASE Throw
  BY <1>1, <1>2, <1>3, <1>8, <1>9, ThrowStep DEF TruncatedInv
<1>10. ASSUME pc' = "next", OneByOne, next' = next + 1, next /= size
       PROVE  IInv'
  <2>1. Live' /\ IdleInv' /\ CutShortInv' /\ TruncatedInv'
    BY <1>1, <1>10 DEF Live, IdleInv, CutShortInv, TruncatedInv
  <2>2. ProgressInv'
    BY <1>1, <1>2, <1>4, <1>10 DEF ProgressInv
  <2>3. ResultsInv'
    BY <1>2, <1>3, <1>5, <1>10 DEF ResultsInv
  <2>4. ExecutingInv' /\ PendingIsExact'
    BY <1>1, <1>2, <1>10 DEF ExecutingInv, PendingIsExact
  <2>q. QED
    BY <1>8, <2>1, <2>2, <2>3, <2>4
<1>11. ASSUME pc' = "done", UNCHANGED next, i = next,
              next < size => aborted /\ ~truncated
       PROVE  IInv'
  <2>1. Live' /\ IdleInv' /\ CutShortInv' /\ TruncatedInv'
    BY <1>1, <1>11 DEF Live, IdleInv, CutShortInv, TruncatedInv
  <2>2. ProgressInv'
    BY <1>1, <1>2, <1>4, <1>11 DEF ProgressInv
  <2>3. ResultsInv'
    BY <1>2, <1>3, <1>11 DEF ResultsInv
  <2>4. ExecutingInv' /\ PendingIsExact'
    BY <1>1, <1>2, <1>11 DEF ExecutingInv, PendingIsExact
  <2>q. QED
    BY <1>8, <2>1, <2>2, <2>3, <2>4
<1>12. ASSUME pc' = "results", ~OneByOne, UNCHANGED next, i < next
       PROVE  IInv'
  <2>1. Live' /\ IdleInv' /\ CutShortInv' /\ TruncatedInv'
    BY <1>1, <1>2, <1>12 DEF Live, IdleInv, CutShortInv, TruncatedInv
  <2>2. ProgressInv'
    BY <1>1, <1>2, <1>4, <1>12 DEF ProgressInv
  <2>3. ResultsInv'
    BY <1>2, <1>3, <1>12 DEF ResultsInv
  <2>4. ExecutingInv' /\ PendingIsExact'
    BY <1>1, <1>2, <1>12 DEF ExecutingInv, PendingIsExact
  <2>q. QED
    BY <1>8, <2>1, <2>2, <2>3, <2>4
<1>13. CASE OneByOne /\ ~Throw
  <2>1. CASE LastResult
    <3>1. pc' = "done" /\ UNCHANGED next
      BY <1>13, <2>1 DEF EmitResult
    <3>2. next < size => aborted /\ ~truncated
      BY <1>2, <2>1 DEF LastResult
    <3>q. QED
      BY <1>5, <1>11, <1>13, <3>1, <3>2
  <2>2. CASE ~LastResult
    <3>1. pc' = "next" /\ next' = next + 1
      BY <1>13, <2>2 DEF EmitResult
    <3>q. QED
      BY <1>10, <1>13, <2>2, <3>1 DEF LastResult
  <2>q. QED
    BY <2>1, <2>2
<1>14. CASE ~OneByOne /\ ~Throw
  <2>1. UNCHANGED next
    BY <1>14 DEF EmitResult
  <2>2. (\A j \in 1..size : phase[j] = "ended" => Answered(j)') <=> i = next
    BY <1>2, <1>4, <1>5, <1>6
  <2>3. pc' = IF i = next THEN "done" ELSE "results"
    BY <1>14, <2>2 DEF EmitResult
  <2>4. next < size => aborted /\ ~truncated
    BY <1>1, <1>14 DEF CutShortInv, OneByOne
  <2>5. CASE i = next
    BY <1>11, <2>1, <2>3, <2>4, <2>5
  <2>6. CASE i < next
    BY <1>2, <1>12, <1>14, <2>1, <2>3, <2>6
  <2>q. QED
    BY <1>2, <1>5, <2>5, <2>6
<1>q. QED
  BY <1>9, <1>13, <1>14

(* The run ends and shows no pending call; its tools may outlive it.         *)
LEMMA EndRunStep == ASSUME IInv, EndRun PROVE IInv'
<1> USE DEF IInv, EndRun
<1>1. TypeInv'
  <2>1. <<>> \in Seq(Nat) /\ DOMAIN phase' = 1..size' /\ 1..size' = {} /\ 0 \in 0..MaxCalls
    BY BoundAssumption
  <2>q. QED
    BY <2>1 DEF TypeInv, Places
<1>2. IdleInv' /\ ProgressInv' /\ CutShortInv' /\ TruncatedInv'
  BY DEF IdleInv, ProgressInv, CutShortInv, TruncatedInv, Live
<1>3. ResultsInv' /\ ExecutingInv' /\ PendingIsExact'
  BY DEF ResultsInv, ExecutingInv, PendingIsExact, Live
<1>q. QED
  BY <1>1, <1>2, <1>3

-------------------------------------------------------------------------------

(* Every step keeps the invariant.                                           *)
LEMMA NextIInv == IInv /\ [Next]_vars => IInv'
<1> SUFFICES ASSUME IInv, [Next]_vars PROVE IInv'
  OBVIOUS
<1>1. CASE StartRun \/ Abort
  BY <1>1, StartRunStep, AbortStep
<1>2. CASE Batch
  BY <1>2, StartCallStep, FailCallStep, PrepareCallStep, NextParallelStep, LaunchStep,
     FinishCallStep, CollectResultsStep, EmitResultStep, EndRunStep DEF Batch
<1>3. CASE \E c \in executing : FinishStraggler(c)
  BY <1>3, FinishStragglerStep
<1>4. CASE UNCHANGED vars
  BY <1>4, Unchanged
<1>q. QED
  BY <1>1, <1>2, <1>3, <1>4 DEF Next

(* The invariant holds in every reachable state, for any number of batches,  *)
(* of calls in each and of throwing subscribers.                             *)
THEOREM Invariance == Spec => []IInv
<1>1. Init => IInv
  BY InitIInv
<1>2. IInv /\ [Next]_vars => IInv'
  BY NextIInv
<1>q. QED
  BY <1>1, <1>2, PTL DEF Spec

(* pendingToolCalls shows the calls of the live run that started and did not *)
(* end, whatever tools of earlier runs do meanwhile (agent.ts:               *)
(* processEvents).                                                           *)
THEOREM PendingIsShown == Spec => []PendingIsExact
<1>1. IInv => PendingIsExact
  BY DEF IInv
<1>q. QED
  BY <1>1, Invariance, PTL

(* A batch that ends without a throw hands runLoop an outcome that AgentRun  *)
(* allows: the results of a first part of the calls, in call order and all   *)
(* of them unless the run was aborted, and no wish to stop from a cut-off    *)
(* reply (executeToolCalls, failToolCallsFromTruncatedMessage).              *)
THEOREM OutcomesAreAllowed == Spec => []OutcomeIsAllowed
<1>1. IInv => OutcomeIsAllowed
  <2> SUFFICES ASSUME IInv, pc = "done"
               PROVE  /\ results = [k \in 1..Len(results) |-> k]
                      /\ [answered |-> Len(results),
                          terminate |-> \A i \in 1..size :
                                          phase[i] = "ended" => i \in terminate]
                           \in BatchOutcomes(size, truncated, aborted)
    BY DEF OutcomeIsAllowed
  <2> DEFINE stops == \A i \in 1..size : phase[i] = "ended" => i \in terminate
  <2>1. /\ Live /\ next \in 1..size /\ phase[next] = "ended" /\ Len(results) = next
        /\ size \in Nat /\ stops \in BOOLEAN
    BY DEF IInv, Live, ProgressInv, ResultsInv, TypeInv
  <2>2. next < size => aborted /\ ~truncated
    BY DEF IInv, CutShortInv
  <2>3. truncated => ~stops
    BY <2>1 DEF IInv, TruncatedInv
  <2>4. results = [k \in 1..Len(results) |-> k]
    BY DEF IInv, TypeInv, ResultsInv
  <2> HIDE DEF stops
  <2>5. [answered |-> Len(results), terminate |-> stops] \in BatchOutcomes(size, truncated, aborted)
    BY <2>1, <2>2, <2>3 DEF BatchOutcomes
  <2>q. QED
    BY <2>4, <2>5 DEF stops
<1>q. QED
  BY <1>1, Invariance, PTL

(* Running one by one, the calls before the one at hand have their results.  *)
LEMMA BeforeAreAnswered ==
  ASSUME IInv, Live, OneByOne, NEW j \in 1..next - 1
  PROVE  Answered(j)
<1>1. /\ \A k \in DOMAIN results : results[k] = k
      /\ Len(results) = next - 1 \/ Len(results) = next
      /\ results \in Seq(Nat) /\ next \in 1..size
  BY DEF IInv, ResultsInv, TypeInv, ProgressInv
<1>2. j \in DOMAIN results
  BY <1>1
<1>q. QED
  BY <1>1, <1>2 DEF Answered

(* What was answered stays answered when another result follows.             *)
LEMMA AnsweredStays ==
  ASSUME results \in Seq(Nat), NEW i \in Nat, results' = Append(results, i), NEW j, Answered(j)
  PROVE  Answered(j)'
<1>1. PICK k \in DOMAIN results : results[k] = j
  BY DEF Answered
<1>2. k \in DOMAIN results' /\ results'[k] = j
  BY <1>1
<1>q. QED
  BY <1>2 DEF Answered

(* Every step of a sequential batch keeps its calls in line.                 *)
LEMMA AloneStep == IInv /\ SequentialIsSequential /\ [Next]_vars => SequentialIsSequential'
<1> SUFFICES ASSUME IInv, SequentialIsSequential, [Next]_vars PROVE SequentialIsSequential'
  OBVIOUS
<1> DEFINE InLine == \A i \in 1..size : phase[i] /= "todo" => \A j \in 1..i - 1 : Answered(j)
<1>0. DOMAIN phase = 1..size /\ results \in Seq(Nat) /\ size \in Nat
  BY BoundAssumption DEF IInv, TypeInv
<1>1. CASE StartRun
  BY <1>1 DEF StartRun, SequentialIsSequential
<1>2. CASE EndRun
  BY <1>2 DEF EndRun, SequentialIsSequential
<1>3. CASE StartCall
  <2> SUFFICES ASSUME mustRunAlone /= {} PROVE InLine'
    BY <1>3 DEF StartCall, batch, SequentialIsSequential
  <2>1. /\ pc = "next" /\ phase' = [phase EXCEPT ![next] = "started"]
        /\ results' = results /\ size' = size
    BY <1>3 DEF StartCall, batch
  <2>2. Live /\ OneByOne
    BY <2>1 DEF Live, OneByOne, Sequential
  <2>3. ASSUME NEW i \in 1..size, phase'[i] /= "todo", NEW j \in 1..i - 1
        PROVE  Answered(j)
    <3>1. CASE i = next
      BY <2>2, <2>3, <3>1, BeforeAreAnswered
    <3>2. CASE i /= next
      BY <1>0, <2>1, <2>3, <3>2 DEF SequentialIsSequential
    <3>q. QED
      BY <3>1, <3>2
  <2>q. QED
    BY <2>1, <2>3 DEF Answered
<1>4. CASE \/ FailCall \/ PrepareCall \/ NextParallel \/ Launch \/ CollectResults \/ Abort
           \/ UNCHANGED vars \/ \E i \in 1..MaxCalls : i <= size /\ FinishCall(i)
           \/ \E c \in executing : FinishStraggler(c)
  <2>1. UNCHANGED <<mustRunAlone, size, results>>
    BY <1>4 DEF FailCall, PrepareCall, NextParallel, Launch, CollectResults, Abort, vars, batch,
                FinishCall, FinishStraggler
  <2>2. \A i \in 1..size : phase'[i] /= "todo" => phase[i] /= "todo"
    <3>1. CASE FailCall \/ PrepareCall
      <4>1. phase[next] = "started"
        BY <3>1, AtHand DEF FailCall, PrepareCall
      <4>q. QED
        BY <1>0, <3>1, <4>1 DEF FailCall, PrepareCall
    <3>2. CASE Launch
      BY <3>2 DEF Launch
    <3>3. CASE \E i \in 1..MaxCalls : i <= size /\ FinishCall(i)
      BY <1>0, <3>3 DEF FinishCall
    <3>4. CASE \/ NextParallel \/ CollectResults \/ Abort \/ UNCHANGED vars
               \/ \E c \in executing : FinishStraggler(c)
      BY <3>4 DEF NextParallel, CollectResults, Abort, vars, FinishStraggler
    <3>q. QED
      BY <1>4, <3>1, <3>2, <3>3, <3>4
  <2>q. QED
    BY <2>1, <2>2 DEF SequentialIsSequential, Answered
<1>5. CASE \E i \in 1..MaxCalls : EmitResult(i)
  <2>1. PICK i \in 1..MaxCalls : EmitResult(i)
    BY <1>5
  <2>2. UNCHANGED <<mustRunAlone, size, phase>> /\ results' = Append(results, i) /\ i \in Nat
    BY <2>1 DEF EmitResult, batch
  <2>3. \A j : Answered(j) => Answered(j)'
    BY <1>0, <2>2, AnsweredStays
  <2>q. QED
    BY <2>2, <2>3 DEF SequentialIsSequential
<1>q. QED
  BY <1>1, <1>2, <1>3, <1>4, <1>5 DEF Next, Batch

(* A call that names a tool that must run alone makes its whole batch        *)
(* sequential: no call starts before those in front of it have their         *)
(* results, whatever is aborted or throws (executeToolCalls).                *)
THEOREM SequentialRunsAlone == Spec => []SequentialIsSequential
<1>1. Init => SequentialIsSequential
  BY DEF Init, SequentialIsSequential
<1>q. QED
  BY <1>1, AloneStep, Invariance, PTL DEF Spec

================================================================================
