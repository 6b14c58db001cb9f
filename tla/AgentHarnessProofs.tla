-------------------------- MODULE AgentHarnessProofs --------------------------
(***************************************************************************)
(* Proofs about AgentHarness, for any number of callers, calls and         *)
(* failures.                                                               *)
(***************************************************************************)
EXTENDS AgentHarness, FiniteSetTheorems, TLAPS

RunPlaces ==
  {"prepare", "prepared", "announce", "hook", "emit", "appending", "steer", "drained", "request",
   "turnEnd", "flush", "flushing", "savePoint", "refreshed", "ending"}
Places ==
  RunPlaces \union {"idle", "abort", "awaiting", "writing", "compacting", "navigating",
                    "summarised", "reorganised"}
CallRecords ==
  [todo : Nat,
   then : {"none", "steer", "request", "turnEnd", "saved", "refresh", "ended", "closed"},
   reply : {"none", "stop", "tools", "failed"}, from : Kinds \union {"none"},
   failing : {"no", "reporting", "rejected"}, hurt : BOOLEAN, aborted : BOOLEAN, at : Seq(Nat),
   write : Nat, context : Seq(Nat), awaits : Callers \union {None}]
Entries == [path : Seq(Nat), write : Nat]

TypeInv ==
  /\ phase \in {"idle", "turn", "compaction", "branch_summary"}
  /\ queue \in [Kinds -> Nat] /\ pendingSessionWrites \in Seq(Nat)
  /\ runPromise \in Callers \union {None}
  /\ pc \in [Callers -> Places] /\ call \in [Callers -> CallRecords]
  /\ log \in Seq(Entries) /\ branch \in Seq(Nat)
  /\ inputs \in 0..MaxInputs /\ overlapped \in BOOLEAN

(* How far the numbers of the writes have come.                             *)
Used == MaxInputs - inputs

NumbersInv ==
  /\ \A w \in written : w \in 1..Used
  /\ \A n \in 1..Len(log) : log[n].write <= Used
  /\ \A n \in 1..Len(pendingSessionWrites) : pendingSessionWrites[n] <= Used
  /\ \A c \in Callers : call[c].write <= Used

(* Where the loop goes after the messages it saves, of which there are some.*)
CallOK(p, r) ==
  /\ p \in {"announce", "hook", "emit", "appending", "drained"} => r.todo > 0
  /\ p \in {"announce", "hook"} => r.then = "steer"
  /\ p = "drained" => r.then = "request"
  /\ p \in {"emit", "appending"} => r.then \in {"steer", "request", "turnEnd"}

(* The call is about to ask the model, and holds the context it will show.  *)
Shown(p, r) ==
  \/ p \in {"prepared", "announce", "hook", "steer", "drained", "refreshed", "request"}
  \/ p \in {"emit", "appending"} /\ r.then # "turnEnd"

(* A run whose harness is idle already, before its last flush.              *)
Over(p, r) ==
  p = "ending" \/ (p \in {"flush", "flushing"} /\ r.then = "closed" /\ r.failing # "rejected")

(* What a call that works alone has read of the session still holds.        *)
Reads(p, r) ==
  /\ Shown(p, r) => r.context = branch
  /\ p \in {"appending", "flushing", "summarised", "writing"} => r.at = branch
  /\ p \in {"appending", "summarised"} => r.write = 0
  /\ p = "flushing" => pendingSessionWrites # <<>> /\ r.write = Head(pendingSessionWrites)

SoloOK(p, r) == Reads(p, r) /\ (Over(p, r) => phase = "idle")

InRun(c) == pc[c] \in RunPlaces
SomeRun == \E c \in Callers : InRun(c)

Alone == \A c, d \in Callers : Working(c) /\ Working(d) => c = d
SoloInv ==
  /\ Alone /\ \A c \in Callers : SoloOK(pc[c], call[c])
  /\ phase = "turn" => SomeRun
  /\ broken \/ SomeRun \/ Range(pendingSessionWrites) \subseteq held
  /\ \A w \in written : Times(w) = 1

IInv ==
  /\ TypeInv /\ NumbersInv
  /\ \A c \in Callers : CallOK(pc[c], call[c])
  /\ overlapped \/ SoloInv

------------------------------------------------------------------------------
(* Counting.                                                                *)

Logged(w) == {n \in 1..Len(log) : log[n].write = w}
Pending(w) == {n \in 1..Len(pendingSessionWrites) : pendingSessionWrites[n] = w}
Writing(w) == {c \in Callers : pc[c] = "writing" /\ call[c].write = w}

(* Positions in a sequence are finitely many.                               *)
LEMMA PositionsAreFinite ==
  ASSUME NEW n \in Nat, NEW S, S \subseteq 1..n
  PROVE  IsFiniteSet(S) /\ Cardinality(S) \in Nat
<1>1. IsFiniteSet(1..n)
  BY FS_Interval
<1>2. IsFiniteSet(S)
  BY <1>1, FS_Subset
<1>q. QED
  BY <1>2, FS_CardinalityType

(* A position more.                                                         *)
LEMMA OneMore ==
  ASSUME NEW n \in Nat, NEW S, S \subseteq 1..n
  PROVE  Cardinality(S \union {n + 1}) = Cardinality(S) + 1
<1>1. IsFiniteSet(S)
  BY PositionsAreFinite
<1>2. n + 1 \notin S
  OBVIOUS
<1>q. QED
  BY <1>1, <1>2, FS_AddElement

(* Without its head a sequence has its elements one position earlier.       *)
LEMMA OneLess ==
  ASSUME NEW s \in Seq(Nat), s # <<>>, NEW w
  PROVE  LET all == {n \in 1..Len(s) : s[n] = w}
             rest == {n \in 1..Len(Tail(s)) : Tail(s)[n] = w}
         IN Cardinality(all) = Cardinality(rest) + IF Head(s) = w THEN 1 ELSE 0
<1> DEFINE all == {n \in 1..Len(s) : s[n] = w}
           rest == {n \in 1..Len(Tail(s)) : Tail(s)[n] = w}
           later == {n \in 2..Len(s) : s[n] = w}
           f == [n \in rest |-> n + 1]
<1>1. /\ Len(s) \in Nat \ {0} /\ Len(Tail(s)) = Len(s) - 1 /\ Head(s) = s[1]
      /\ \A n \in 1..Len(s) - 1 : Tail(s)[n] = s[n + 1]
  OBVIOUS
<1>2. Cardinality(rest) = Cardinality(later)
  <2>1. f \in [rest -> later]
    BY <1>1
  <2>2. \A a, b \in rest : f[a] = f[b] => a = b
    BY <1>1
  <2>3. \A t \in later : \E a \in rest : f[a] = t
    <3> SUFFICES ASSUME NEW t \in later PROVE \E a \in rest : f[a] = t
      OBVIOUS
    <3>1. t - 1 \in rest /\ f[t - 1] = t
      BY <1>1
    <3>q. QED
      BY <3>1
  <2> HIDE DEF f
  <2>4. f \in Bijection(rest, later)
    BY <2>1, <2>2, <2>3 DEF Bijection, Injection, Surjection, IsInjective
  <2>5. IsFiniteSet(rest)
    BY <1>1, PositionsAreFinite
  <2>q. QED
    BY <2>4, <2>5, FS_Bijection DEF ExistsBijection
<1>3. IsFiniteSet(later) /\ Cardinality(later) \in Nat /\ 1 \notin later
  <2>1. later \subseteq 1..Len(s)
    BY <1>1
  <2>q. QED
    BY <1>1, <2>1, PositionsAreFinite
<1>4. all = IF Head(s) = w THEN later \union {1} ELSE later
  BY <1>1
<1>5. Cardinality(later \union {1}) = Cardinality(later) + 1
  BY <1>3, FS_AddElement
<1> HIDE DEF all, rest, later
<1>6. Cardinality(all) = Cardinality(rest) + IF Head(s) = w THEN 1 ELSE 0
  BY <1>2, <1>3, <1>4, <1>5
<1>q. QED
  BY <1>6 DEF all, rest

(* The parts of a count are numbers, and a write no caller is at is counted *)
(* in the session and the pending list only.                                *)
LEMMA CountsAreNumbers ==
  ASSUME TypeInv, NEW w
  PROVE  /\ Logged(w) \subseteq 1..Len(log) /\ Len(log) \in Nat
         /\ Cardinality(Logged(w)) \in Nat /\ Cardinality(Pending(w)) \in Nat
         /\ Times(w) = Cardinality(Logged(w)) + Cardinality(Pending(w)) + Cardinality(Writing(w))
         /\ Writing(w) = {} => Times(w) = Cardinality(Logged(w)) + Cardinality(Pending(w))
<1>1. Len(log) \in Nat /\ Len(pendingSessionWrites) \in Nat
  BY DEF TypeInv
<1>2. Logged(w) \subseteq 1..Len(log) /\ Pending(w) \subseteq 1..Len(pendingSessionWrites)
  BY DEF Logged, Pending
<1>3. Cardinality(Logged(w)) \in Nat /\ Cardinality(Pending(w)) \in Nat
  BY <1>1, <1>2, PositionsAreFinite
<1>4. Times(w) = Cardinality(Logged(w)) + Cardinality(Pending(w)) + Cardinality(Writing(w))
  BY DEF Times, Logged, Pending, Writing
<1>q. QED
  BY <1>1, <1>2, <1>3, <1>4, FS_EmptySet, SMTT(20)

(* An append puts one more entry in the session.                            *)
LEMMA AppendCounts ==
  ASSUME TypeInv, NEW e, log' = Append(log, e), NEW w
  PROVE  Cardinality(Logged(w)') =
           Cardinality(Logged(w)) + IF e.write = w THEN 1 ELSE 0
<1>1. Logged(w)' = Logged(w) \union (IF e.write = w THEN {Len(log) + 1} ELSE {})
  BY DEF Logged, TypeInv
<1>2. Logged(w) \subseteq 1..Len(log) /\ Len(log) \in Nat /\ Cardinality(Logged(w)) \in Nat
  BY CountsAreNumbers
<1>3. Cardinality(Logged(w) \union {Len(log) + 1}) = Cardinality(Logged(w)) + 1
  BY <1>2, OneMore
<1>4. CASE e.write = w
  BY <1>1, <1>3, <1>4
<1>5. CASE e.write # w
  BY <1>1, <1>2, <1>5
<1>q. QED
  BY <1>4, <1>5

------------------------------------------------------------------------------
(* The steps.                                                               *)

(* What the invariant says of one caller that works, if it works alone.     *)
LEMMA OnlyOne ==
  ASSUME IInv, NEW c \in Callers, Working(c), ~overlapped
  PROVE  /\ \A d \in Callers \ {c} : ~Working(d)
         /\ SoloOK(pc[c], call[c])
         /\ phase = "turn" => InRun(c)
         /\ broken \/ Range(pendingSessionWrites) \subseteq held \/ InRun(c)
         /\ \A w \in written : Times(w) = 1
<1>1. \A d \in Callers : InRun(d) => Working(d)
  BY DEF InRun, RunPlaces, Working
<1>q. QED
  BY <1>1 DEF IInv, SoloInv, Alone, SomeRun

(* A step of c, which may send calls that wait for it back to their         *)
(* callers, keeps the invariant if what it leaves is in order.              *)
LEMMA OneCall ==
  ASSUME IInv, TypeInv', NumbersInv', NEW c \in Callers,
         \A d \in Callers \ {c} :
           \/ pc'[d] = pc[d] /\ call'[d] = call[d]
           \/ ~Working(d) /\ pc'[d] = "idle",
         CallOK(pc[c], call[c])',
         overlapped => overlapped',
         ~overlapped' =>
           /\ \A d \in Callers \ {c} : ~Working(d)
           /\ SoloOK(pc[c], call[c])'
           /\ phase' = "turn" => InRun(c)'
           /\ broken' \/ Range(pendingSessionWrites)' \subseteq held' \/ InRun(c)'
           /\ \A w \in written' : Times(w)' = 1
  PROVE  IInv'
<1>1. \A d \in Callers \ {c} : ~Working(d) => ~Working(d)' /\ pc'[d] \in {"idle", "abort",
       "awaiting"}
  BY DEF Working
<1>2. \A d \in Callers : CallOK(pc[d], call[d])'
  BY DEF IInv, CallOK
<1>3. ASSUME ~overlapped' PROVE SoloInv'
  <2>1. \A d \in Callers \ {c} : ~Working(d)' /\ pc'[d] \in {"idle", "abort", "awaiting"}
    BY <1>1, <1>3
  <2>2. Alone'
    BY <2>1 DEF Alone
  <2>3. \A d \in Callers : SoloOK(pc[d], call[d])'
    BY <1>3, <2>1 DEF SoloOK, Reads, Shown, Over
  <2>q. QED
    BY <1>3, <2>2, <2>3 DEF SoloInv, SomeRun
<1>q. QED
  BY <1>2, <1>3 DEF IInv

(* The numbers of the writes only grow.                                     *)
LEMMA UsedGrows ==
  ASSUME inputs \in 0..MaxInputs, inputs' \in 0..MaxInputs,
         inputs' = inputs \/ inputs' = inputs - 1
  PROVE  Used \in Nat /\ Used' \in Nat /\ Used <= Used'
<1>1. MaxInputs \in Nat
  BY BoundAssumption
<1>2. \A a, b \in 0..MaxInputs : b = a \/ b = a - 1 =>
        MaxInputs - a \in Nat /\ MaxInputs - b \in Nat /\ MaxInputs - a <= MaxInputs - b
  BY <1>1
<1>q. QED
  BY <1>2 DEF Used

(* A step of a call that leaves the entries and the writes alone.           *)
LEMMA Quietly ==
  ASSUME IInv, TypeInv', NEW c \in Callers, Working(c), pc[c] # "writing", pc'[c] # "writing",
         \A d \in Callers \ {c} :
           \/ pc'[d] = pc[d] /\ call'[d] = call[d]
           \/ ~Working(d) /\ pc'[d] = "idle" /\ call'[d] = NoCall,
         log' = log, pendingSessionWrites' = pendingSessionWrites, written' = written,
         overlapped' = overlapped, inputs' = inputs \/ inputs' = inputs - 1,
         broken => broken', held \subseteq held', phase' = phase \/ phase' = "idle",
         CallOK(pc[c], call[c])', call'[c].write <= Used,
         ~overlapped =>
           /\ SoloOK(pc[c], call[c])'
           /\ InRun(c) =>
                \/ InRun(c)'
                \/ phase' = "idle" /\ (broken' \/ Range(pendingSessionWrites) \subseteq held')
  PROVE  IInv'
<1>1. /\ \A w \in written : w \in 1..Used
      /\ \A n \in 1..Len(log) : log[n].write <= Used
      /\ \A n \in 1..Len(pendingSessionWrites) : pendingSessionWrites[n] <= Used
      /\ \A d \in Callers : call[d].write <= Used
  BY DEF IInv, NumbersInv
<1>2. Used \in Nat /\ Used' \in Nat /\ Used <= Used'
  <2>1. inputs \in 0..MaxInputs /\ inputs' \in 0..MaxInputs
    BY DEF IInv, TypeInv
  <2>q. QED
    BY <2>1, UsedGrows
<1>3. NumbersInv'
  <2>1. \A w \in written : w \in 1..Used'
    BY <1>1, <1>2
  <2>2. \A n \in 1..Len(log) : log[n].write <= Used'
    <3> SUFFICES ASSUME NEW n \in 1..Len(log) PROVE log[n].write <= Used'
      OBVIOUS
    <3>0. log[n] \in Entries
      BY DEF IInv, TypeInv
    <3>1. log[n].write \in Nat
      BY <3>0 DEF Entries
    <3>q. QED
      BY <1>1, <1>2, <3>1
  <2>3. \A n \in 1..Len(pendingSessionWrites) : pendingSessionWrites[n] <= Used'
    <3> SUFFICES ASSUME NEW n \in 1..Len(pendingSessionWrites)
                 PROVE  pendingSessionWrites[n] <= Used'
      OBVIOUS
    <3>1. pendingSessionWrites[n] \in Nat
      BY DEF IInv, TypeInv
    <3>q. QED
      BY <1>1, <1>2, <3>1
  <2>4. \A d \in Callers : call'[d].write <= Used'
    <3> SUFFICES ASSUME NEW d \in Callers PROVE call'[d].write <= Used'
      OBVIOUS
    <3>1. call[d].write \in Nat /\ call'[d].write \in Nat
      BY DEF IInv, TypeInv, CallRecords
    <3>2. call'[d].write <= Used
      BY <1>1, <1>2 DEF NoCall
    <3>q. QED
      BY <1>2, <3>1, <3>2
  <2>q. QED
    BY <2>1, <2>2, <2>3, <2>4 DEF NumbersInv
<1>4. \A w : Writing(w)' = Writing(w)
  BY DEF Writing, Working
<1>5. \A w : Times(w)' = Times(w)
  BY <1>4 DEF Times, Writing
<1>6. ~overlapped =>
        /\ phase' = "turn" => InRun(c)'
        /\ broken' \/ Range(pendingSessionWrites)' \subseteq held' \/ InRun(c)'
  BY OnlyOne
<1>q. QED
  BY <1>3, <1>5, <1>6, OnlyOne, OneCall

(* A step inside a run.                                                     *)
LEMMA Goes ==
  ASSUME IInv, NEW c \in Callers, InRun(c), NEW p \in RunPlaces, NEW r \in CallRecords,
         pc' = [pc EXCEPT ![c] = p], call' = [call EXCEPT ![c] = r],
         queue' \in [Kinds -> Nat], phase' = phase \/ phase' = "idle",
         runPromise' = runPromise, pendingSessionWrites' = pendingSessionWrites,
         log' = log, branch' = branch, written' = written, held' = held, overlapped' = overlapped,
         inputs' = inputs \/ (inputs > 0 /\ inputs' = inputs - 1),
         broken => broken', CallOK(p, r), r.write <= Used,
         ~overlapped => Reads(p, r) /\ (Over(p, r) => phase' = "idle")
  PROVE  IInv'
<1>1. pc'[c] = p /\ call'[c] = r /\ \A d \in Callers \ {c} : pc'[d] = pc[d] /\ call'[d] = call[d]
  BY DEF IInv, TypeInv
<1>2. TypeInv'
  <2>1. inputs' \in 0..MaxInputs
    BY BoundAssumption DEF IInv, TypeInv
  <2>q. QED
    BY <2>1 DEF IInv, TypeInv, Places
<1>3. Working(c) /\ pc[c] # "writing" /\ pc'[c] # "writing" /\ InRun(c)'
  BY <1>1 DEF Working, InRun, RunPlaces
<1>4. CallOK(pc[c], call[c])' /\ (~overlapped => SoloOK(pc[c], call[c])')
  BY <1>1 DEF CallOK, SoloOK, Reads, Shown, Over
<1>q. QED
  BY <1>1, <1>2, <1>3, <1>4, Quietly

(* What a step of a run starts from.                                        *)
LEMMA Here ==
  ASSUME IInv, NEW c \in Callers
  PROVE  /\ call[c] \in CallRecords /\ call[c].write <= Used /\ CallOK(pc[c], call[c])
         /\ InRun(c) /\ ~overlapped => SoloOK(pc[c], call[c])
         /\ queue \in [Kinds -> Nat] /\ branch \in Seq(Nat) /\ 0 <= Used
         /\ inputs \in 0..MaxInputs /\ MaxInputs \in Nat
<1>1. inputs \in 0..MaxInputs /\ MaxInputs \in Nat
  BY BoundAssumption DEF IInv, TypeInv
<1>q. QED
  BY <1>1 DEF IInv, TypeInv, NumbersInv, SoloInv, Used

(* No call is a call record.                                                *)
LEMMA NoCallIs == NoCall \in CallRecords /\ NoCall.write = 0
<1>1. <<>> \in Seq(Nat)
  OBVIOUS
<1>q. QED
  BY <1>1 DEF NoCall, CallRecords

(* What throws in a run is reported as a message, or ends the run.          *)
LEMMA ThrowsStep ==
  ASSUME IInv, NEW c \in Callers, InRun(c), Throws(c),
         queue' \in [Kinds -> Nat], phase' = phase, runPromise' = runPromise,
         pendingSessionWrites' = pendingSessionWrites, log' = log, branch' = branch,
         written' = written, held' = held, overlapped' = overlapped, inputs' = inputs,
         broken => broken'
  PROVE  IInv'
<1> DEFINE r1 == [NoCall EXCEPT !.failing = "reporting", !.todo = 1, !.then = "turnEnd",
                                !.reply = "failed"]
           r2 == [NoCall EXCEPT !.failing = "rejected", !.then = "closed"]
<1>1. /\ r1 \in CallRecords /\ r1.write = 0 /\ r1.todo = 1 /\ r1.then = "turnEnd"
      /\ r2 \in CallRecords /\ r2.write = 0 /\ r2.then = "closed" /\ r2.failing = "rejected"
  <2> DEFINE n == NoCall
  <2>1. n \in CallRecords /\ n.write = 0
    BY NoCallIs
  <2>2. /\ r1 = [n EXCEPT !.failing = "reporting", !.todo = 1, !.then = "turnEnd",
                        !.reply = "failed"]
        /\ r2 = [n EXCEPT !.failing = "rejected", !.then = "closed"]
    OBVIOUS
  <2> HIDE DEF n, r1, r2
  <2>q. QED
    BY <2>1, <2>2 DEF CallRecords
<1>2. \/ call' = [call EXCEPT ![c] = r1] /\ pc' = [pc EXCEPT ![c] = "emit"]
      \/ call' = [call EXCEPT ![c] = r2] /\ pc' = [pc EXCEPT ![c] = "flush"]
  BY DEF Throws, Goto
<1> HIDE DEF r1, r2
<1>3. CallOK("emit", r1) /\ Reads("emit", r1) /\ ~Over("emit", r1)
  BY <1>1 DEF CallOK, Reads, Shown, Over
<1>4. CallOK("flush", r2) /\ Reads("flush", r2) /\ ~Over("flush", r2)
  BY <1>1 DEF CallOK, Reads, Shown, Over
<1>5. "emit" \in RunPlaces /\ "flush" \in RunPlaces
  BY DEF RunPlaces
<1>6. CASE call' = [call EXCEPT ![c] = r1] /\ pc' = [pc EXCEPT ![c] = "emit"]
  BY <1>1, <1>3, <1>5, <1>6, Goes, Here
<1>7. CASE call' = [call EXCEPT ![c] = r2] /\ pc' = [pc EXCEPT ![c] = "flush"]
  BY <1>1, <1>4, <1>5, <1>7, Goes, Here
<1>q. QED
  BY <1>2, <1>6, <1>7

(* The start of a run.                                                      *)
LEMMA StartSteps ==
  ASSUME IInv, NEW c \in Callers,
         Prepare(c) \/ TakeNextTurn(c) \/ Announce(c) \/ StartRun(c)
  PROVE  IInv'
<1>1. /\ runPromise' = runPromise /\ pendingSessionWrites' = pendingSessionWrites
      /\ log' = log /\ branch' = branch /\ written' = written /\ held' = held
      /\ overlapped' = overlapped /\ broken' = broken /\ inputs' = inputs /\ phase' = phase
  BY DEF Prepare, TakeNextTurn, Announce, StartRun, control, session, bounds, history
<1>2. InRun(c)
  BY DEF Prepare, TakeNextTurn, Announce, StartRun, InRun, RunPlaces
<1>3. /\ call[c] \in CallRecords /\ call[c].write <= Used /\ CallOK(pc[c], call[c])
      /\ ~overlapped => SoloOK(pc[c], call[c])
      /\ queue \in [Kinds -> Nat] /\ branch \in Seq(Nat)
  BY <1>2, Here
<1>4. CASE Prepare(c)
  <2> DEFINE r == [call[c] EXCEPT !.context = branch]
  <2>1. /\ pc' = [pc EXCEPT ![c] = "prepared"] /\ call' = [call EXCEPT ![c] = r]
        /\ queue' \in [Kinds -> Nat]
    BY <1>3, <1>4 DEF Prepare, Goto
  <2>2. r \in CallRecords /\ r.context = branch /\ r.write = call[c].write
    BY <1>3 DEF CallRecords
  <2> HIDE DEF r
  <2>3. CallOK("prepared", r) /\ Reads("prepared", r) /\ ~Over("prepared", r)
    BY <2>2 DEF CallOK, Reads, Shown, Over
  <2>4. "prepared" \in RunPlaces
    BY DEF RunPlaces
  <2>q. QED
    BY <1>1, <1>2, <1>3, <2>1, <2>2, <2>3, <2>4, Goes
<1>5. CASE TakeNextTurn(c)
  <2> DEFINE n == queue["nextTurn"] + 1
             r == [call[c] EXCEPT !.todo = n, !.then = "steer"]
             p == IF queue["nextTurn"] > 0 THEN "announce" ELSE "hook"
  <2>1. /\ pc' = [pc EXCEPT ![c] = p] /\ call' = [call EXCEPT ![c] = r]
        /\ pc[c] = "prepared" /\ queue' = [queue EXCEPT !["nextTurn"] = 0]
    BY <1>5 DEF TakeNextTurn, Goto
  <2>2. n \in Nat /\ n > 0
    BY <1>3 DEF Kinds
  <2> HIDE DEF n
  <2>3. /\ r \in CallRecords /\ r.context = call[c].context /\ r.write = call[c].write
        /\ r.todo > 0 /\ r.then = "steer"
    BY <1>3, <2>2 DEF CallRecords
  <2>4. ~overlapped => call[c].context = branch
    BY <1>3, <2>1 DEF SoloOK, Reads, Shown
  <2>5. queue' \in [Kinds -> Nat]
    BY <1>3, <2>1
  <2>6. p \in {"announce", "hook"} /\ p \in RunPlaces
    BY DEF RunPlaces
  <2> HIDE DEF r, p
  <2>7. CallOK(p, r) /\ (~overlapped => Reads(p, r)) /\ ~Over(p, r)
    BY <2>3, <2>4, <2>6 DEF CallOK, Reads, Shown, Over
  <2>q. QED
    BY <1>1, <1>2, <1>3, <2>1, <2>3, <2>5, <2>6, <2>7, Goes
<1>6. CASE Announce(c) \/ StartRun(c)
  <2> DEFINE p == IF pc[c] = "announce" THEN "hook" ELSE "emit"
  <2>1. /\ pc' = [pc EXCEPT ![c] = p] /\ call' = call /\ queue' = queue
        /\ pc[c] \in {"announce", "hook"}
    BY <1>6 DEF Announce, StartRun, Goto
  <2>2. call' = [call EXCEPT ![c] = call[c]]
    BY <2>1 DEF IInv, TypeInv
  <2>3. p \in {"hook", "emit"} /\ p \in RunPlaces
    BY DEF RunPlaces
  <2> HIDE DEF p
  <2>4. CallOK(p, call[c]) /\ (~overlapped => Reads(p, call[c])) /\ ~Over(p, call[c])
    BY <1>3, <2>1, <2>3 DEF CallOK, SoloOK, Reads, Shown, Over
  <2>q. QED
    BY <1>1, <1>2, <1>3, <2>1, <2>2, <2>3, <2>4, Goes
<1>q. QED
  BY <1>4, <1>5, <1>6

(* A prompt that fails before its run leaves what is pending in held.       *)
LEMMA StartFailsStep == ASSUME IInv, NEW c \in Callers, StartFails(c) PROVE IInv'
<1>1. /\ pendingSessionWrites' = pendingSessionWrites
      /\ log' = log /\ branch' = branch /\ written' = written
      /\ held' = held \union Range(pendingSessionWrites)
      /\ overlapped' = overlapped /\ broken' = broken /\ inputs' = inputs /\ phase' = "idle"
      /\ pc[c] \in {"prepared", "announce", "hook"} /\ runPromise' = None
  BY DEF StartFails, FailsToStart, Finish, session
<1>2. /\ pc' = [d \in Callers |-> IF d = c \/ d \in Waiting(c) THEN "idle" ELSE pc[d]]
      /\ call' = [d \in Callers |-> IF d = c \/ d \in Waiting(c) THEN NoCall ELSE call[d]]
  BY DEF StartFails, FailsToStart, Finish
<1>3. \A d \in Waiting(c) : pc[d] = "awaiting" /\ ~Working(d)
  BY DEF Waiting, Working
<1>4. call[c] \in CallRecords /\ CallOK(pc[c], call[c]) /\ queue \in [Kinds -> Nat]
  BY Here
<1>5. queue' \in [Kinds -> Nat]
  <2> DEFINE back == IF pc[c] = "announce" THEN call[c].todo - 1 ELSE 0
  <2>1. back \in Nat
    BY <1>4 DEF CallOK, CallRecords
  <2>2. queue' = [queue EXCEPT !["nextTurn"] = @ + back]
    BY DEF StartFails
  <2> HIDE DEF back
  <2>q. QED
    BY <1>4, <2>1, <2>2 DEF Kinds
<1>6. TypeInv'
  BY <1>1, <1>2, <1>5, NoCallIs DEF IInv, TypeInv, Places
<1>7. /\ pc'[c] = "idle" /\ call'[c] = NoCall /\ pc[c] # "writing" /\ Working(c)
      /\ \A d \in Callers \ {c} : \/ pc'[d] = pc[d] /\ call'[d] = call[d]
                                  \/ ~Working(d) /\ pc'[d] = "idle" /\ call'[d] = NoCall
  BY <1>1, <1>2, <1>3 DEF Working
<1>8. CallOK(pc[c], call[c])' /\ SoloOK(pc[c], call[c])'
  BY <1>7 DEF CallOK, SoloOK, Reads, Shown, Over
<1>9. call'[c].write <= Used
  BY <1>7, NoCallIs, Here
<1>q. QED
  BY <1>1, <1>6, <1>7, <1>8, <1>9, Quietly

(* Messages: their announcement, the polls of the queues, and the request.  *)
LEMMA MessageSteps ==
  ASSUME IInv, NEW c \in Callers, Emit(c) \/ Poll(c) \/ Drained(c) \/ Reply(c) \/ TurnEnd(c)
  PROVE  IInv'
<1>1. /\ runPromise' = runPromise /\ pendingSessionWrites' = pendingSessionWrites
      /\ log' = log /\ branch' = branch /\ written' = written /\ held' = held
      /\ overlapped' = overlapped /\ broken' = broken /\ phase' = phase
  BY DEF Emit, Poll, Drained, Reply, TurnEnd, control, session, history
<1>2. inputs' = inputs \/ (inputs > 0 /\ inputs' = inputs - 1)
  BY DEF Emit, Poll, Drained, Reply, TurnEnd, bounds, Input
<1>3. InRun(c)
  BY DEF Emit, Poll, Drained, Reply, TurnEnd, InRun, RunPlaces
<1>4. /\ call[c] \in CallRecords /\ call[c].write <= Used /\ CallOK(pc[c], call[c])
      /\ ~overlapped => SoloOK(pc[c], call[c])
      /\ queue \in [Kinds -> Nat] /\ branch \in Seq(Nat) /\ 0 <= Used
  BY <1>3, Here
<1>5. CASE Emit(c)
  <2> DEFINE r == [call[c] EXCEPT !.at = branch, !.write = 0]
  <2>1. /\ pc' = [pc EXCEPT ![c] = "appending"] /\ call' = [call EXCEPT ![c] = r]
        /\ queue' = queue /\ pc[c] = "emit"
    BY <1>5 DEF Emit, Begin, Goto
  <2>2. /\ r \in CallRecords /\ r.at = branch /\ r.write = 0 /\ r.then = call[c].then
        /\ r.todo = call[c].todo /\ r.context = call[c].context
    BY <1>4 DEF CallRecords
  <2> HIDE DEF r
  <2>3. /\ CallOK("appending", r) /\ (~overlapped => Reads("appending", r))
        /\ ~Over("appending", r)
    BY <1>4, <2>1, <2>2 DEF CallOK, SoloOK, Reads, Shown, Over
  <2>4. "appending" \in RunPlaces
    BY DEF RunPlaces
  <2>q. QED
    BY <1>1, <1>2, <1>3, <1>4, <2>1, <2>2, <2>3, <2>4, Goes
<1>6. CASE Poll(c)
  <2>0. pc[c] = "steer" /\ (~overlapped => call[c].context = branch)
    BY <1>4, <1>6 DEF Poll, SoloOK, Reads, Shown
  <2>1. ASSUME NEW kind \in Kinds, Take(c, kind) PROVE IInv'
    <3>1. PICK n \in {1, queue[kind]} :
            /\ queue' = [queue EXCEPT ![kind] = @ - n]
            /\ call' = [call EXCEPT ![c] = [call[c] EXCEPT !.todo = n, !.then = "request",
                                                           !.from = kind]]
      BY <2>1 DEF Take
    <3>2. pc' = [pc EXCEPT ![c] = "drained"] /\ queue[kind] > 0 /\ queue[kind] \in Nat
      BY <1>4, <2>1 DEF Take, Goto
    <3>3. n \in Nat /\ n > 0 /\ queue[kind] - n \in Nat
      BY <3>2
    <3>4. queue' \in [Kinds -> Nat]
      BY <1>4, <3>1, <3>3
    <3> DEFINE r == [call[c] EXCEPT !.todo = n, !.then = "request", !.from = kind]
    <3>5. /\ r \in CallRecords /\ r.todo = n /\ r.then = "request"
          /\ r.context = call[c].context /\ r.write = call[c].write
      BY <1>4, <3>3 DEF CallRecords
    <3>6. call' = [call EXCEPT ![c] = r]
      BY <3>1
    <3> HIDE DEF r
    <3>7. CallOK("drained", r) /\ (~overlapped => Reads("drained", r)) /\ ~Over("drained", r)
      BY <2>0, <3>3, <3>5 DEF CallOK, Reads, Shown, Over
    <3>8. "drained" \in RunPlaces
      BY DEF RunPlaces
    <3>q. QED
      BY <1>1, <1>2, <1>3, <1>4, <3>2, <3>4, <3>5, <3>6, <3>7, <3>8, Goes
  <2>2. CASE Goto(c, "request") /\ UNCHANGED <<queue, call>>
    <3>1. /\ pc' = [pc EXCEPT ![c] = "request"] /\ queue' = queue
          /\ call' = [call EXCEPT ![c] = call[c]]
      BY <2>2 DEF Goto, IInv, TypeInv
    <3>2. /\ CallOK("request", call[c]) /\ (~overlapped => Reads("request", call[c]))
          /\ ~Over("request", call[c])
      BY <2>0 DEF CallOK, Reads, Shown, Over
    <3>3. "request" \in RunPlaces
      BY DEF RunPlaces
    <3>q. QED
      BY <1>1, <1>2, <1>3, <1>4, <3>1, <3>2, <3>3, Goes
  <2>3. CASE /\ call' = [call EXCEPT ![c].then = "ended"] /\ Goto(c, "flush") /\ UNCHANGED queue
    <3> DEFINE r == [call[c] EXCEPT !.then = "ended"]
    <3>1. r \in CallRecords /\ r.then = "ended" /\ r.write = call[c].write
      BY <1>4 DEF CallRecords
    <3>2. pc' = [pc EXCEPT ![c] = "flush"] /\ call' = [call EXCEPT ![c] = r] /\ queue' = queue
      BY <2>3 DEF Goto
    <3> HIDE DEF r
    <3>3. CallOK("flush", r) /\ Reads("flush", r) /\ ~Over("flush", r)
      BY <3>1 DEF CallOK, Reads, Shown, Over
    <3>4. "flush" \in RunPlaces
      BY DEF RunPlaces
    <3>q. QED
      BY <1>1, <1>2, <1>3, <1>4, <3>1, <3>2, <3>3, <3>4, Goes
  <2>4. "steer" \in Kinds /\ "followUp" \in Kinds
    BY DEF Kinds
  <2>q. QED
    BY <1>6, <2>1, <2>2, <2>3, <2>4 DEF Poll
<1>7. CASE Drained(c)
  <2> DEFINE r == [call[c] EXCEPT !.from = "none"]
  <2>1. /\ pc' = [pc EXCEPT ![c] = "emit"] /\ call' = [call EXCEPT ![c] = r]
        /\ queue' = queue /\ pc[c] = "drained"
    BY <1>7 DEF Drained, Goto
  <2>2. /\ r \in CallRecords /\ r.then = call[c].then /\ r.write = call[c].write
        /\ r.todo = call[c].todo /\ r.context = call[c].context
    BY <1>4 DEF CallRecords
  <2> HIDE DEF r
  <2>3. CallOK("emit", r) /\ (~overlapped => Reads("emit", r)) /\ ~Over("emit", r)
    BY <1>4, <2>1, <2>2 DEF CallOK, SoloOK, Reads, Shown, Over
  <2>4. "emit" \in RunPlaces
    BY DEF RunPlaces
  <2>q. QED
    BY <1>1, <1>2, <1>3, <1>4, <2>1, <2>2, <2>3, <2>4, Goes
<1>8. CASE Reply(c)
  <2>1. PICK reply \in {"stop", "tools", "failed"} :
          call' = [call EXCEPT ![c].reply = reply, ![c].then = "turnEnd",
                               ![c].todo = IF reply = "tools" THEN 2 ELSE 1,
                               ![c].context = <<>>]
    BY <1>8 DEF Reply
  <2> DEFINE n == IF reply = "tools" THEN 2 ELSE 1
             r == [call[c] EXCEPT !.reply = reply, !.then = "turnEnd", !.todo = n,
                                  !.context = <<>>]
  <2>2. n \in Nat /\ n > 0 /\ <<>> \in Seq(Nat)
    OBVIOUS
  <2>3. /\ pc' = [pc EXCEPT ![c] = "emit"] /\ call' = [call EXCEPT ![c] = r] /\ queue' = queue
    <3>1. pc' = [pc EXCEPT ![c] = "emit"] /\ queue' = queue
      BY <1>8 DEF Reply, Goto
    <3>2. call' = [call EXCEPT ![c] = r]
      BY <2>1
    <3>q. QED
      BY <3>1, <3>2
  <2> HIDE DEF n
  <2>4. r \in CallRecords /\ r.then = "turnEnd" /\ r.write = call[c].write /\ r.todo = n
    BY <1>4, <2>2 DEF CallRecords
  <2> HIDE DEF r
  <2>5. CallOK("emit", r) /\ Reads("emit", r) /\ ~Over("emit", r)
    BY <2>2, <2>4 DEF CallOK, Reads, Shown, Over
  <2>6. "emit" \in RunPlaces
    BY DEF RunPlaces
  <2>q. QED
    BY <1>1, <1>2, <1>3, <1>4, <2>3, <2>4, <2>5, <2>6, Goes
<1>9. CASE TurnEnd(c)
  <2>1. PICK hurt \in BOOLEAN :
          call' = [call EXCEPT ![c] = [call[c] EXCEPT !.then = "saved", !.hurt = hurt]]
    <3>1. CASE call' = [call EXCEPT ![c].then = "saved"]
      <4>1. [call[c] EXCEPT !.then = "saved",
       !.hurt = call[c].hurt] = [call[c] EXCEPT !.then = "saved"]
        BY <1>4 DEF CallRecords
      <4>2. call[c].hurt \in BOOLEAN
        BY <1>4 DEF CallRecords
      <4>q. QED
        BY <3>1, <4>1, <4>2
    <3>2. CASE call' = [call EXCEPT ![c].then = "saved", ![c].hurt = TRUE]
      BY <3>2
    <3>q. QED
      BY <1>9, <3>1, <3>2 DEF TurnEnd
  <2> DEFINE r == [call[c] EXCEPT !.then = "saved", !.hurt = hurt]
  <2>2. /\ pc' = [pc EXCEPT ![c] = "flush"] /\ call' = [call EXCEPT ![c] = r] /\ queue' = queue
    BY <1>9, <2>1 DEF TurnEnd, Goto
  <2>3. r \in CallRecords /\ r.then = "saved" /\ r.write = call[c].write
    BY <1>4 DEF CallRecords
  <2> HIDE DEF r
  <2>4. CallOK("flush", r) /\ Reads("flush", r) /\ ~Over("flush", r)
    BY <2>3 DEF CallOK, Reads, Shown, Over
  <2>5. "flush" \in RunPlaces
    BY DEF RunPlaces
  <2>q. QED
    BY <1>1, <1>2, <1>3, <1>4, <2>2, <2>3, <2>4, <2>5, Goes
<1>q. QED
  BY <1>5, <1>6, <1>7, <1>8, <1>9

(* What fails in a run.                                                     *)
LEMMA RunFailsStep ==
  ASSUME IInv, NEW c \in Callers, SubscriberThrows(c) \/ SaveBreaks(c) \/ DrainFails(c)
  PROVE  IInv'
<1>1. /\ Throws(c) /\ runPromise' = runPromise /\ pendingSessionWrites' = pendingSessionWrites
      /\ log' = log /\ branch' = branch /\ written' = written /\ held' = held
      /\ overlapped' = overlapped /\ phase' = phase /\ inputs' = inputs /\ (broken => broken')
  BY DEF SubscriberThrows, SaveBreaks, DrainFails, Breaks, control, session, history
<1>2. InRun(c)
  BY DEF SubscriberThrows, SaveBreaks, DrainFails, InRun, RunPlaces
<1>3. call[c] \in CallRecords /\ queue \in [Kinds -> Nat]
  BY Here
<1>4. queue' \in [Kinds -> Nat]
  <2>1. CASE DrainFails(c)
    <3>1. queue' = [k \in Kinds |-> queue[k] + IF k = call[c].from THEN call[c].todo ELSE 0]
      BY <2>1 DEF DrainFails
    <3>2. call[c].todo \in Nat
      BY <1>3 DEF CallRecords
    <3>3. \A k \in Kinds : queue[k] + (IF k = call[c].from THEN call[c].todo ELSE 0) \in Nat
      BY <1>3, <3>2
    <3>q. QED
      BY <3>1, <3>3
  <2>2. CASE SubscriberThrows(c) \/ SaveBreaks(c)
    BY <1>3, <2>2 DEF SubscriberThrows, SaveBreaks
  <2>q. QED
    BY <2>1, <2>2
<1>q. QED
  BY <1>1, <1>2, <1>4, ThrowsStep

(* The flush of the pending writes, and where the run goes after it.        *)
LEMMA FlushSteps ==
  ASSUME IInv, NEW c \in Callers,
         \/ Flush(c) \/ Saved(c) \/ SavePoint(c) \/ Refresh(c) \/ Refreshed(c)
         \/ AgentEnd(c) \/ Settled(c)
  PROVE  IInv'
<1>1. /\ runPromise' = runPromise /\ pendingSessionWrites' = pendingSessionWrites
      /\ log' = log /\ branch' = branch /\ written' = written /\ held' = held
      /\ overlapped' = overlapped /\ broken' = broken /\ inputs' = inputs /\ queue' = queue
  BY DEF Flush, Saved, SavePoint, Refresh, Refreshed, AgentEnd, Settled, control, session, bounds,
         history
<1>2. InRun(c)
  BY DEF Flush, Saved, SavePoint, Refresh, Refreshed, AgentEnd, Settled, FlushedAll, InRun,
         RunPlaces
<1>3. /\ call[c] \in CallRecords /\ call[c].write <= Used /\ CallOK(pc[c], call[c])
      /\ ~overlapped => SoloOK(pc[c], call[c])
      /\ queue \in [Kinds -> Nat] /\ branch \in Seq(Nat) /\ 0 <= Used
  BY <1>2, Here
<1>4. phase' = phase \/ phase' = "idle"
  BY DEF Flush, Saved, SavePoint, Refresh, Refreshed, AgentEnd, Settled, control
<1>5. CASE Flush(c)
  <2> DEFINE w == Head(pendingSessionWrites)
             r == [call[c] EXCEPT !.at = branch, !.write = w]
  <2>1. /\ pc' = [pc EXCEPT ![c] = "flushing"] /\ call' = [call EXCEPT ![c] = r]
        /\ pc[c] = "flush" /\ pendingSessionWrites # <<>> /\ phase' = phase
    BY <1>5 DEF Flush, Begin, Goto, control
  <2>2. w \in Nat /\ w <= Used
    <3>1. pendingSessionWrites \in Seq(Nat) /\ w = pendingSessionWrites[1]
          /\ 1 \in 1..Len(pendingSessionWrites)
      BY <2>1 DEF IInv, TypeInv
    <3>q. QED
      BY <3>1 DEF IInv, NumbersInv
  <2> HIDE DEF w
  <2>3. /\ r \in CallRecords /\ r.at = branch /\ r.write = w /\ r.then = call[c].then
        /\ r.failing = call[c].failing
    BY <1>3, <2>2 DEF CallRecords
  <2> HIDE DEF r
  <2>4. CallOK("flushing", r) /\ Reads("flushing", r)
    BY <2>1, <2>3 DEF CallOK, Reads, Shown, w
  <2>5. ~overlapped => (Over("flushing", r) => phase' = "idle")
    BY <1>3, <2>1, <2>3 DEF SoloOK, Over
  <2>6. "flushing" \in RunPlaces
    BY DEF RunPlaces
  <2>q. QED
    BY <1>1, <1>2, <1>3, <1>4, <2>1, <2>2, <2>3, <2>4, <2>5, <2>6, Goes
<1>6. CASE Saved(c)
  <2>1. CASE call[c].hurt
    <3>1. Throws(c) /\ phase' = phase
      BY <1>6, <2>1 DEF Saved, control
    <3>q. QED
      BY <1>1, <1>2, <1>3, <3>1, ThrowsStep
  <2>2. CASE ~call[c].hurt
    <3>1. pc' = [pc EXCEPT ![c] = "savePoint"] /\ call' = [call EXCEPT ![c] = call[c]]
      BY <1>6, <2>2 DEF Saved, Goto, IInv, TypeInv
    <3>2. /\ CallOK("savePoint", call[c]) /\ Reads("savePoint", call[c])
          /\ ~Over("savePoint", call[c]) /\ "savePoint" \in RunPlaces
      BY DEF CallOK, Reads, Shown, Over, RunPlaces
    <3>q. QED
      BY <1>1, <1>2, <1>3, <1>4, <3>1, <3>2, Goes
  <2>q. QED
    BY <2>1, <2>2
<1>7. CASE SavePoint(c)
  <2> DEFINE then == IF call[c].reply = "failed" THEN "ended" ELSE "refresh"
             r == [call[c] EXCEPT !.then = then]
  <2>1. pc' = [pc EXCEPT ![c] = "flush"] /\ call' = [call EXCEPT ![c] = r]
    BY <1>7 DEF SavePoint, Goto
  <2>2. then \in {"ended", "refresh"}
    OBVIOUS
  <2> HIDE DEF then
  <2>3. r \in CallRecords /\ r.then = then /\ r.write = call[c].write
    BY <1>3, <2>2 DEF CallRecords
  <2> HIDE DEF r
  <2>4. /\ CallOK("flush", r) /\ Reads("flush", r) /\ ~Over("flush", r) /\ "flush" \in RunPlaces
    BY <2>2, <2>3 DEF CallOK, Reads, Shown, Over, RunPlaces
  <2>q. QED
    BY <1>1, <1>2, <1>3, <1>4, <2>1, <2>3, <2>4, Goes
<1>8. CASE Refresh(c)
  <2> DEFINE r == [call[c] EXCEPT !.context = branch]
  <2>1. pc' = [pc EXCEPT ![c] = "refreshed"] /\ call' = [call EXCEPT ![c] = r]
    BY <1>8 DEF Refresh, Goto
  <2>2. r \in CallRecords /\ r.context = branch /\ r.write = call[c].write
    BY <1>3 DEF CallRecords
  <2> HIDE DEF r
  <2>3. /\ CallOK("refreshed", r) /\ Reads("refreshed", r) /\ ~Over("refreshed", r)
        /\ "refreshed" \in RunPlaces
    BY <2>2 DEF CallOK, Reads, Shown, Over, RunPlaces
  <2>q. QED
    BY <1>1, <1>2, <1>3, <1>4, <2>1, <2>2, <2>3, Goes
<1>9. CASE Refreshed(c)
  <2>1. /\ pc' = [pc EXCEPT ![c] = "steer"] /\ call' = [call EXCEPT ![c] = call[c]]
        /\ pc[c] = "refreshed"
    BY <1>9 DEF Refreshed, Goto, IInv, TypeInv
  <2>2. /\ CallOK("steer", call[c]) /\ (~overlapped => Reads("steer", call[c]))
        /\ ~Over("steer", call[c]) /\ "steer" \in RunPlaces
    BY <1>3, <2>1 DEF CallOK, SoloOK, Reads, Shown, Over, RunPlaces
  <2>q. QED
    BY <1>1, <1>2, <1>3, <1>4, <2>1, <2>2, Goes
<1>10. CASE AgentEnd(c)
  <2>1. /\ pc' = [pc EXCEPT ![c] = "ending"] /\ call' = [call EXCEPT ![c] = call[c]]
        /\ phase' = "idle"
    BY <1>10 DEF AgentEnd, Goto, IInv, TypeInv
  <2>2. CallOK("ending", call[c]) /\ Reads("ending", call[c]) /\ "ending" \in RunPlaces
    BY DEF CallOK, Reads, Shown, RunPlaces
  <2>q. QED
    BY <1>1, <1>2, <1>3, <1>4, <2>1, <2>2, Goes
<1>11. CASE Settled(c)
  <2> DEFINE n == NoCall
             r == [n EXCEPT !.then = "closed"]
  <2>1. /\ pc' = [pc EXCEPT ![c] = "flush"] /\ call' = [call EXCEPT ![c] = r]
        /\ phase' = phase /\ pc[c] = "ending"
    BY <1>11 DEF Settled, Goto, control
  <2>2. n \in CallRecords /\ n.write = 0
    BY NoCallIs
  <2> HIDE DEF n
  <2>3. r \in CallRecords /\ r.write = 0
    BY <2>2 DEF CallRecords
  <2> HIDE DEF r
  <2>4. CallOK("flush", r) /\ Reads("flush", r) /\ "flush" \in RunPlaces
    BY DEF CallOK, Reads, Shown, RunPlaces
  <2>5. ~overlapped => phase' = "idle"
    BY <1>3, <2>1 DEF SoloOK, Over
  <2>q. QED
    BY <1>1, <1>2, <1>3, <1>4, <2>1, <2>3, <2>4, <2>5, Goes
<1>q. QED
  BY <1>5, <1>6, <1>7, <1>8, <1>9, <1>10, <1>11

(* The end of a run: nothing is pending, or an append has failed.           *)
LEMMA CloseStep == ASSUME IInv, NEW c \in Callers, Close(c) \/ FlushBreaks(c) PROVE IInv'
<1>1. /\ pendingSessionWrites' = pendingSessionWrites /\ queue' = queue
      /\ log' = log /\ branch' = branch /\ written' = written /\ held' = held
      /\ overlapped' = overlapped /\ (broken => broken') /\ inputs' = inputs
      /\ pc[c] \in {"flush", "flushing"}
  BY DEF Close, FlushBreaks, Breaks, FlushedAll, session, bounds, history
<1>2. InRun(c)
  BY <1>1 DEF InRun, RunPlaces
<1>3. CASE Throws(c) /\ UNCHANGED control
  <2>1. phase' = phase /\ runPromise' = runPromise
    BY <1>3 DEF control
  <2>2. queue' \in [Kinds -> Nat]
    BY <1>1, Here
  <2>q. QED
    BY <1>1, <1>2, <1>3, <2>1, <2>2, ThrowsStep
<1>4. CASE Closes(c)
  <2>1. phase' = phase \/ phase' = "idle"
    BY <1>4 DEF Close, FlushBreaks, control
  <2>2. /\ pc' = [d \in Callers |-> IF d = c \/ d \in Waiting(c) THEN "idle" ELSE pc[d]]
        /\ call' = [d \in Callers |-> IF d = c \/ d \in Waiting(c) THEN NoCall ELSE call[d]]
        /\ runPromise' = None
    BY <1>4 DEF Closes, Finish
  <2>3. TypeInv'
    BY <1>1, <2>1, <2>2, NoCallIs DEF IInv, TypeInv, Places
  <2>4. /\ pc'[c] = "idle" /\ call'[c] = NoCall /\ pc[c] # "writing" /\ Working(c)
        /\ \A d \in Callers \ {c} : \/ pc'[d] = pc[d] /\ call'[d] = call[d]
                                    \/ ~Working(d) /\ pc'[d] = "idle" /\ call'[d] = NoCall
    BY <1>1, <2>2 DEF Working, Waiting
  <2>5. CallOK(pc[c], call[c])' /\ SoloOK(pc[c], call[c])'
    BY <2>4 DEF CallOK, SoloOK, Reads, Shown, Over
  <2>6. call'[c].write <= Used
    BY <2>4, NoCallIs, Here
  <2>7. ~overlapped => phase' = "idle" /\ (broken' \/ Range(pendingSessionWrites) \subseteq held')
    <3>1. CASE FlushBreaks(c)
      <4>1. broken'
        BY <3>1 DEF FlushBreaks, Breaks
      <4>2. SoloOK(pc[c], call[c]) \/ overlapped
        BY <1>2, Here
      <4>3. CASE call[c].then = "closed"
        BY <3>1, <4>1, <4>3 DEF FlushBreaks
      <4>4. CASE call[c].then # "closed"
        <5>1. Throws(c)
          BY <3>1, <4>4 DEF FlushBreaks
        <5>2. pc'[c] # "idle"
          BY <5>1 DEF Throws, Goto, IInv, TypeInv
        <5>q. QED
          BY <2>4, <5>2
      <4>q. QED
        BY <4>3, <4>4
    <3>2. CASE Close(c)
      <4>1. pendingSessionWrites = <<>> /\ pc[c] = "flush" /\ call[c].then = "closed"
        BY <3>2 DEF Close, FlushedAll
      <4>2. Range(pendingSessionWrites) = {}
        BY <4>1 DEF Range
      <4>3. ~overlapped => (call[c].failing # "rejected" => phase = "idle")
        BY <1>2, <4>1, Here DEF SoloOK, Over
      <4>q. QED
        BY <3>2, <4>2, <4>3 DEF Close
    <3>q. QED
      BY <3>1, <3>2
  <2>q. QED
    BY <1>1, <2>1, <2>3, <2>4, <2>5, <2>6, <2>7, Quietly
<1>q. QED
  BY <1>3, <1>4 DEF Close, FlushBreaks

(* Compaction and navigation, up to the summary they append.                *)
LEMMA ReorganiseSteps ==
  ASSUME IInv, NEW c \in Callers, Summarised(c) \/ Move(c) \/ EndReorganise(c)
  PROVE  IInv'
<1>1. /\ pendingSessionWrites' = pendingSessionWrites /\ queue' = queue
      /\ log' = log /\ written' = written /\ held' = held /\ runPromise' = runPromise
      /\ overlapped' = overlapped /\ broken' = broken /\ inputs' = inputs
      /\ pc[c] \in {"compacting", "navigating", "summarised", "reorganised"}
      /\ phase' = phase \/ phase' = "idle"
  BY DEF Summarised, Move, EndReorganise, control, session, bounds, history
<1>2. Working(c) /\ pc[c] # "writing" /\ ~InRun(c)
  BY <1>1 DEF Working, InRun, RunPlaces
<1>3. /\ call[c] \in CallRecords /\ branch \in Seq(Nat) /\ 0 <= Used
  BY Here
<1>4. ASSUME NEW p \in {"idle", "summarised", "reorganised"}, NEW r \in CallRecords,
             pc' = [pc EXCEPT ![c] = p], call' = [call EXCEPT ![c] = r],
             r.write = 0 \/ r.write = call[c].write, branch' \in Seq(Nat),
             p = "summarised" => r.at = branch' /\ r.write = 0
      PROVE  IInv'
  <2>1. /\ pc'[c] = p /\ call'[c] = r
        /\ \A d \in Callers \ {c} : pc'[d] = pc[d] /\ call'[d] = call[d]
    BY <1>4 DEF IInv, TypeInv
  <2>2. TypeInv'
    BY <1>1, <1>4 DEF IInv, TypeInv, Places
  <2>3. CallOK(pc[c], call[c])' /\ SoloOK(pc[c], call[c])'
    BY <1>4, <2>1 DEF CallOK, SoloOK, Reads, Shown, Over
  <2>4. call'[c].write <= Used /\ pc'[c] # "writing"
    BY <1>3, <1>4, <2>1, Here
  <2>q. QED
    BY <1>1, <1>2, <2>1, <2>2, <2>3, <2>4, Quietly
<1>5. CASE Summarised(c)
  <2> DEFINE r == [call[c] EXCEPT !.at = branch, !.write = 0]
  <2>1. /\ pc' = [pc EXCEPT ![c] = "summarised"] /\ call' = [call EXCEPT ![c] = r]
        /\ branch' = branch
    BY <1>5 DEF Summarised, Begin, Goto, session
  <2>2. r \in CallRecords /\ r.at = branch /\ r.write = 0
    BY <1>3 DEF CallRecords
  <2> HIDE DEF r
  <2>q. QED
    BY <1>3, <1>4, <2>1, <2>2
<1>6. CASE Move(c)
  <2>1. PICK path \in {<<>>} \union {log[n].path : n \in 1..Len(log)},
             place \in {"summarised", "reorganised"} :
          /\ branch' = path /\ pc' = [pc EXCEPT ![c] = place]
          /\ call' = [call EXCEPT ![c] = [call[c] EXCEPT !.at = path, !.write = 0]]
    BY <1>6 DEF Move, Goto
  <2>2. path \in Seq(Nat)
    <3>1. \A n \in 1..Len(log) : log[n] \in Entries
      BY DEF IInv, TypeInv
    <3>2. \A n \in 1..Len(log) : log[n].path \in Seq(Nat)
      BY <3>1 DEF Entries
    <3>3. <<>> \in Seq(Nat)
      OBVIOUS
    <3>q. QED
      BY <3>2, <3>3
  <2> DEFINE r == [call[c] EXCEPT !.at = path, !.write = 0]
  <2>3. r \in CallRecords /\ r.at = path /\ r.write = 0
    BY <1>3, <2>2 DEF CallRecords
  <2>4. call' = [call EXCEPT ![c] = r]
    BY <2>1
  <2> HIDE DEF r
  <2>q. QED
    BY <1>4, <2>1, <2>2, <2>3, <2>4
<1>7. CASE EndReorganise(c)
  <2>1. /\ pc' = [pc EXCEPT ![c] = "idle"] /\ call' = [call EXCEPT ![c] = NoCall]
        /\ branch' = branch
    BY <1>7 DEF EndReorganise, Goto, session
  <2>q. QED
    BY <1>3, <1>4, <2>1, NoCallIs
<1>q. QED
  BY <1>5, <1>6, <1>7

(* An entry is appended to the branch that was read before.                 *)
LEMMA CommitIs ==
  ASSUME IInv, NEW c \in Callers, Commit(c)
  PROVE  LET e == [path |-> branch', write |-> call[c].write]
         IN /\ branch' = Append(call[c].at, Len(log) + 1) /\ branch' \in Seq(Nat)
            /\ log' = Append(log, e) /\ log' \in Seq(Entries)
            /\ \A n \in 1..Len(log') : log'[n].write <= Used
<1> DEFINE e == [path |-> branch', write |-> call[c].write]
<1>1. call[c].at \in Seq(Nat) /\ call[c].write \in Nat /\ call[c].write <= Used
  BY Here DEF CallRecords
<1>2. branch' = Append(call[c].at, Len(log) + 1) /\ log' = Append(log, e)
  BY DEF Commit
<1>3. log \in Seq(Entries) /\ Len(log) \in Nat
  BY DEF IInv, TypeInv
<1>4. branch' \in Seq(Nat)
  BY <1>1, <1>2, <1>3
<1>5. e \in Entries /\ e.write = call[c].write
  BY <1>1, <1>4 DEF Entries
<1> HIDE DEF e
<1>6. log' \in Seq(Entries)
  BY <1>2, <1>3, <1>5
<1>7. \A n \in 1..Len(log') : log'[n].write <= Used
  <2> SUFFICES ASSUME NEW n \in 1..Len(log') PROVE log'[n].write <= Used
    OBVIOUS
  <2>1. n \in 1..Len(log) => log'[n] = log[n]
    BY <1>2, <1>3, <1>5
  <2>2. n \in 1..Len(log) \/ log'[n] = e
    BY <1>2, <1>3, <1>5
  <2>3. \A m \in 1..Len(log) : log[m].write <= Used
    BY DEF IInv, NumbersInv
  <2>q. QED
    BY <1>1, <1>5, <2>1, <2>2, <2>3
<1>q. QED
  BY <1>2, <1>4, <1>6, <1>7 DEF e

(* The end of an append.                                                    *)
LEMMA Commits ==
  ASSUME IInv, NEW c \in Callers, Working(c), Commit(c), NEW p \in Places, NEW r \in CallRecords,
         pc' = [pc EXCEPT ![c] = p], call' = [call EXCEPT ![c] = r],
         p \notin {"writing", "appending", "flushing", "summarised"},
         InRun(c) => p \in RunPlaces, CallOK(p, r), r.write <= Used,
         \/ pendingSessionWrites' = pendingSessionWrites
         \/ InRun(c) /\ pendingSessionWrites # <<>>
              /\ pendingSessionWrites' = Tail(pendingSessionWrites),
         queue' = queue, phase' = phase, runPromise' = runPromise, inputs' = inputs,
         overlapped' = overlapped, broken' = broken, held' = held, written' = written,
         ~overlapped => /\ Shown(p, r) => r.context = branch'
                        /\ Over(p, r) => phase = "idle"
                        /\ \A w \in written : Times(w)' = 1
  PROVE  IInv'
<1>1. /\ pc'[c] = p /\ call'[c] = r
      /\ \A d \in Callers \ {c} : pc'[d] = pc[d] /\ call'[d] = call[d]
  BY DEF IInv, TypeInv
<1>2. pendingSessionWrites' \in Seq(Nat)
  <2>1. pendingSessionWrites \in Seq(Nat)
    BY DEF IInv, TypeInv
  <2>2. pendingSessionWrites # <<>> => Tail(pendingSessionWrites) \in Seq(Nat)
    BY <2>1
  <2>q. QED
    BY <2>1, <2>2
<1>3. branch' \in Seq(Nat) /\ log' \in Seq(Entries)
  BY CommitIs
<1>4. TypeInv'
  BY <1>2, <1>3 DEF IInv, TypeInv
<1>5. NumbersInv'
  <2>1. Used' = Used
    BY DEF Used
  <2>2. \A n \in 1..Len(log') : log'[n].write <= Used
    BY CommitIs
  <2>3. \A n \in 1..Len(pendingSessionWrites') : pendingSessionWrites'[n] <= Used
    <3>1. \A n \in 1..Len(pendingSessionWrites) : pendingSessionWrites[n] <= Used
      BY DEF IInv, NumbersInv
    <3>2. CASE pendingSessionWrites' = pendingSessionWrites
      BY <3>1, <3>2
    <3>3. CASE pendingSessionWrites # <<>> /\ pendingSessionWrites' = Tail(pendingSessionWrites)
      <4>1. pendingSessionWrites \in Seq(Nat)
        BY DEF IInv, TypeInv
      <4>2. \A n \in 1..Len(pendingSessionWrites') :
              /\ n + 1 \in 1..Len(pendingSessionWrites)
              /\ pendingSessionWrites'[n] = pendingSessionWrites[n + 1]
        BY <3>3, <4>1
      <4>q. QED
        BY <3>1, <4>2
    <3>q. QED
      BY <3>2, <3>3
  <2>4. \A d \in Callers : call'[d].write <= Used
    BY <1>1 DEF IInv, NumbersInv
  <2>q. QED
    BY <2>1, <2>2, <2>3, <2>4 DEF IInv, NumbersInv
<1>6. CallOK(pc[c], call[c])' /\ (~overlapped => SoloOK(pc[c], call[c])')
  BY <1>1 DEF CallOK, SoloOK, Reads, Shown, Over
<1>7. InRun(c) => InRun(c)'
  BY <1>1 DEF InRun
<1>8. ~overlapped => /\ phase' = "turn" => InRun(c)'
                     /\ broken' \/ Range(pendingSessionWrites)' \subseteq held' \/ InRun(c)'
  BY <1>7, OnlyOne
<1>q. QED
  BY <1>1, <1>4, <1>5, <1>6, <1>8, OnlyOne, OneCall

(* What an append adds to the counts.                                       *)
LEMMA CommitCounts ==
  ASSUME IInv, NEW c \in Callers, Commit(c), NEW w
  PROVE  /\ Cardinality(Logged(w)') =
              Cardinality(Logged(w)) + IF call[c].write = w THEN 1 ELSE 0
         /\ Cardinality(Logged(w)) \in Nat /\ Cardinality(Pending(w)) \in Nat
         /\ Times(w) = Cardinality(Logged(w)) + Cardinality(Pending(w)) + Cardinality(Writing(w))
         /\ Times(w)' =
              Cardinality(Logged(w)') + Cardinality(Pending(w)') + Cardinality(Writing(w)')
<1> DEFINE e == [path |-> branch', write |-> call[c].write]
<1>1. log' = Append(log, e) /\ e.write = call[c].write
  BY CommitIs
<1> HIDE DEF e
<1>2. Cardinality(Logged(w)') = Cardinality(Logged(w)) + IF call[c].write = w THEN 1 ELSE 0
  BY <1>1, AppendCounts DEF IInv
<1>3. Times(w)' = Cardinality(Logged(w)') + Cardinality(Pending(w)') + Cardinality(Writing(w)')
  BY DEF Times, Logged, Pending, Writing
<1>q. QED
  BY <1>2, <1>3, CountsAreNumbers DEF IInv

(* A message or a summary is in the session: not one of the writes.         *)
LEMMA SaveSteps == ASSUME IInv, NEW c \in Callers, Save(c) \/ Summary(c) PROVE IInv'
<1>1. /\ Commit(c) /\ pc[c] \in {"appending", "summarised"} /\ Working(c)
      /\ pendingSessionWrites' = pendingSessionWrites /\ queue' = queue /\ phase' = phase
      /\ runPromise' = runPromise /\ inputs' = inputs /\ overlapped' = overlapped
      /\ broken' = broken /\ held' = held /\ written' = written
  BY DEF Save, Summary, Working, control, bounds, history
<1>2. /\ call[c] \in CallRecords /\ call[c].write <= Used /\ CallOK(pc[c], call[c])
      /\ branch \in Seq(Nat)
  BY Here
<1>3. ~overlapped => SoloOK(pc[c], call[c]) /\ \A w \in written : Times(w) = 1
  BY <1>1, OnlyOne
<1>4. pc'[c] # "writing" /\ \A d \in Callers \ {c} : pc'[d] = pc[d] /\ call'[d] = call[d]
  <2>1. CASE Save(c)
    <3>1. call[c].then # "writing"
      BY <1>2 DEF CallRecords
    <3>2. \E p : p # "writing" /\ pc' = [pc EXCEPT ![c] = p]
      BY <2>1, <3>1 DEF Save, Goto
    <3>3. \E r : call' = [call EXCEPT ![c] = r]
      BY <2>1 DEF Save
    <3>q. QED
      BY <3>2, <3>3 DEF IInv, TypeInv
  <2>2. CASE Summary(c)
    BY <2>2 DEF Summary, Goto, IInv, TypeInv
  <2>q. QED
    BY <2>1, <2>2
<1>5. ~overlapped => \A w \in written : Times(w)' = 1
  <2> SUFFICES ASSUME ~overlapped, NEW w \in written PROVE Times(w)' = 1
    OBVIOUS
  <2>1. call[c].write # w
    BY <1>1, <1>3 DEF SoloOK, Reads, IInv, NumbersInv
  <2>2. Writing(w)' = Writing(w) /\ Pending(w)' = Pending(w)
    BY <1>1, <1>4 DEF Writing, Pending
  <2>3. Cardinality(Logged(w)') = Cardinality(Logged(w))
    BY <1>1, <2>1, CommitCounts
  <2>4. Times(w) = Cardinality(Logged(w)) + Cardinality(Pending(w)) + Cardinality(Writing(w))
    BY <1>1, CommitCounts
  <2>5. Times(w)' = Cardinality(Logged(w)') + Cardinality(Pending(w)') + Cardinality(Writing(w)')
    BY <1>1, CommitCounts
  <2>q. QED
    BY <1>3, <2>2, <2>3, <2>4, <2>5
<1>6. CASE Summary(c)
  <2>1. /\ pc' = [pc EXCEPT ![c] = "reorganised"] /\ call' = [call EXCEPT ![c] = call[c]]
        /\ ~InRun(c) /\ "reorganised" \in Places
    BY <1>6 DEF Summary, Goto, IInv, TypeInv, InRun, RunPlaces, Places
  <2>2. /\ CallOK("reorganised", call[c]) /\ ~Shown("reorganised", call[c])
        /\ ~Over("reorganised", call[c])
    BY DEF CallOK, Shown, Over
  <2>q. QED
    BY <1>1, <1>2, <1>5, <2>1, <2>2, Commits
<1>7. CASE Save(c)
  <2> DEFINE shown == IF call[c].then = "turnEnd" THEN <<>> ELSE Append(call[c].context,
       Len(log) + 1)
             left == call[c].todo - 1
             r == [call[c] EXCEPT !.todo = left, !.at = <<>>, !.context = shown]
             p == IF call[c].todo = 1 THEN call[c].then ELSE "emit"
  <2>1. /\ pc[c] = "appending" /\ pc' = [pc EXCEPT ![c] = p] /\ call' = [call EXCEPT ![c] = r]
    BY <1>7 DEF Save, Goto
  <2>2. call[c].todo \in Nat /\ call[c].todo > 0 /\ call[c].then \in {"steer", "request",
       "turnEnd"}
    BY <1>2, <2>1 DEF CallOK, CallRecords
  <2>3. left \in Nat /\ (call[c].todo # 1 => left > 0)
    BY <2>2
  <2>4. shown \in Seq(Nat)
    <3>1. Len(log) + 1 \in Nat /\ call[c].context \in Seq(Nat)
      BY <1>2 DEF IInv, TypeInv, CallRecords
    <3>q. QED
      BY <3>1
  <2>5. p \in {"steer", "request", "turnEnd", "emit"} /\ p \in RunPlaces /\ p \in Places
    BY <2>2 DEF RunPlaces, Places
  <2>6. ~overlapped /\ call[c].then # "turnEnd" => shown = branch'
    <3>1. ~overlapped /\ call[c].then # "turnEnd" => call[c].context = branch /\ call[c].at = branch
      BY <1>3, <2>1 DEF SoloOK, Reads, Shown
    <3>2. branch' = Append(call[c].at, Len(log) + 1)
      BY <1>1, CommitIs
    <3>q. QED
      BY <3>1, <3>2
  <2>6a. p = "emit" => call[c].todo # 1
    BY <2>2
  <2>6b. p # "emit" => p = call[c].then
    OBVIOUS
  <2> HIDE DEF shown, left, p
  <2>7. /\ r \in CallRecords /\ r.todo = left /\ r.then = call[c].then /\ r.context = shown
        /\ r.write = call[c].write
    <3>1. <<>> \in Seq(Nat)
      OBVIOUS
    <3>q. QED
      BY <1>2, <2>3, <2>4, <3>1 DEF CallRecords
  <2> HIDE DEF r
  <2>8. CallOK(p, r) /\ ~Over(p, r)
    BY <2>2, <2>3, <2>5, <2>6a, <2>7 DEF CallOK, Over
  <2>9. ~overlapped => (Shown(p, r) => r.context = branch')
    BY <2>2, <2>5, <2>6, <2>6b, <2>7 DEF Shown
  <2>10. p \notin {"writing", "appending", "flushing", "summarised"}
    BY <2>5
  <2>q. QED
    BY <1>1, <1>2, <1>5, <2>1, <2>5, <2>7, <2>8, <2>9, <2>10, Commits
<1>q. QED
  BY <1>6, <1>7

(* A pending write is in the session, and leaves the list.                  *)
LEMMA FlushedStep == ASSUME IInv, NEW c \in Callers, Flushed(c) PROVE IInv'
<1> DEFINE r == [call[c] EXCEPT !.at = <<>>, !.write = 0]
<1>1. /\ Commit(c) /\ pc[c] = "flushing" /\ Working(c) /\ InRun(c)
      /\ queue' = queue /\ phase' = phase /\ runPromise' = runPromise /\ inputs' = inputs
      /\ overlapped' = overlapped /\ broken' = broken /\ held' = held /\ written' = written
      /\ pc' = [pc EXCEPT ![c] = "flush"] /\ call' = [call EXCEPT ![c] = r]
      /\ pendingSessionWrites' =
           IF pendingSessionWrites = <<>> THEN <<>> ELSE Tail(pendingSessionWrites)
  BY DEF Flushed, Working, InRun, RunPlaces, Goto, control, bounds, history
<1>2. call[c] \in CallRecords /\ 0 <= Used
  BY Here
<1>3. ~overlapped => SoloOK(pc[c], call[c]) /\ \A w \in written : Times(w) = 1
  BY <1>1, OnlyOne
<1>4. /\ r \in CallRecords /\ r.write = 0 /\ r.then = call[c].then
      /\ r.failing = call[c].failing
  <2>1. <<>> \in Seq(Nat)
    OBVIOUS
  <2>q. QED
    BY <1>2, <2>1 DEF CallRecords
<1> HIDE DEF r
<1>5. \A d \in Callers : pc'[d] = IF d = c THEN "flush" ELSE pc[d]
  BY <1>1 DEF IInv, TypeInv
<1>6. ~overlapped => \A w \in written : Times(w)' = 1
  <2> SUFFICES ASSUME ~overlapped, NEW w \in written PROVE Times(w)' = 1
    OBVIOUS
  <2>1. pendingSessionWrites # <<>> /\ call[c].write = Head(pendingSessionWrites)
    BY <1>1, <1>3 DEF SoloOK, Reads
  <2>2. Writing(w)' = Writing(w)
    BY <1>1, <1>5 DEF Writing, IInv, TypeInv
  <2>3. Cardinality(Pending(w)) =
          Cardinality(Pending(w)') + IF Head(pendingSessionWrites) = w THEN 1 ELSE 0
    <3>1. pendingSessionWrites \in Seq(Nat)
      BY DEF IInv, TypeInv
    <3>q. QED
      BY <1>1, <2>1, <3>1, OneLess DEF Pending
  <2>4. Cardinality(Pending(w)') \in Nat
    <3>1. pendingSessionWrites' \in Seq(Nat)
      BY <1>1, <2>1 DEF IInv, TypeInv
    <3>2. Len(pendingSessionWrites') \in Nat /\ Pending(w)' \subseteq 1..Len(pendingSessionWrites')
      BY <3>1 DEF Pending
    <3>q. QED
      BY <3>2, PositionsAreFinite
  <2>5. /\ Cardinality(Logged(w)') =
             Cardinality(Logged(w)) + IF call[c].write = w THEN 1 ELSE 0
        /\ Cardinality(Logged(w)) \in Nat /\ Cardinality(Pending(w)) \in Nat
        /\ Times(w) = Cardinality(Logged(w)) + Cardinality(Pending(w)) + Cardinality(Writing(w))
        /\ Times(w)' =
             Cardinality(Logged(w)') + Cardinality(Pending(w)') + Cardinality(Writing(w)')
    BY <1>1, CommitCounts
  <2>6. Cardinality(Logged(w)') + Cardinality(Pending(w)')
          = Cardinality(Logged(w)) + Cardinality(Pending(w))
    <3>1. CASE call[c].write = w
      BY <2>1, <2>3, <2>4, <2>5, <3>1
    <3>2. CASE call[c].write # w
      BY <2>1, <2>3, <2>4, <2>5, <3>2
    <3>q. QED
      BY <3>1, <3>2
  <2>q. QED
    BY <1>3, <2>2, <2>5, <2>6
<1>7. /\ CallOK("flush", r) /\ ~Shown("flush", r)
      /\ ~overlapped => (Over("flush", r) => phase = "idle")
  BY <1>1, <1>3, <1>4 DEF CallOK, SoloOK, Shown, Over
<1>8. "flush" \in RunPlaces /\ "flush" \in Places
  BY DEF RunPlaces, Places
<1>9. \/ pendingSessionWrites' = pendingSessionWrites
      \/ pendingSessionWrites # <<>> /\ pendingSessionWrites' = Tail(pendingSessionWrites)
  BY <1>1
<1>q. QED
  BY <1>1, <1>2, <1>4, <1>6, <1>7, <1>8, <1>9, Commits

(* The end of a write that was made at once, whether the storage took it.   *)
LEMMA EndWriteStep == ASSUME IInv, NEW c \in Callers, EndWrite(c) PROVE IInv'
<1>1. /\ pc[c] = "writing" /\ Working(c) /\ ~InRun(c)
      /\ pc' = [pc EXCEPT ![c] = "idle"] /\ call' = [call EXCEPT ![c] = NoCall]
      /\ pendingSessionWrites' = pendingSessionWrites /\ queue' = queue
      /\ phase' = phase /\ runPromise' = runPromise
  BY DEF EndWrite, Goto, Working, InRun, RunPlaces, control
<1>2. /\ overlapped' = overlapped /\ inputs' = inputs /\ held' = held /\ (broken => broken')
      /\ \/ Commit(c) /\ written' = written /\ broken' = broken
         \/ written' = written \ {call[c].write} /\ log' = log /\ branch' = branch
  BY DEF EndWrite, Breaks, session, bounds, history
<1>3. ~overlapped => (\A d \in Callers \ {c} : ~Working(d)) /\ \A w \in written : Times(w) = 1
  BY <1>1, OnlyOne
<1>4. /\ pc'[c] = "idle" /\ call'[c] = NoCall
      /\ \A d \in Callers \ {c} : pc'[d] = pc[d] /\ call'[d] = call[d]
  BY <1>1 DEF IInv, TypeInv
<1>5. ~overlapped => \A w : /\ Writing(w)' = {}
                            /\ Writing(w) = IF call[c].write = w THEN {c} ELSE {}
  BY <1>1, <1>3, <1>4 DEF Writing, Working
<1>6. Cardinality({}) = 0 /\ Cardinality({c}) = 1
  BY FS_EmptySet, FS_Singleton
<1>7. 0 <= Used /\ NoCall \in CallRecords /\ NoCall.write <= Used
  BY Here, NoCallIs
<1>8. CASE Commit(c) /\ written' = written /\ broken' = broken
  <2>1. ~overlapped => \A w \in written : Times(w)' = 1
    <3> SUFFICES ASSUME ~overlapped, NEW w \in written PROVE Times(w)' = 1
      OBVIOUS
    <3>1. /\ Cardinality(Logged(w)') =
               Cardinality(Logged(w)) + IF call[c].write = w THEN 1 ELSE 0
          /\ Cardinality(Logged(w)) \in Nat /\ Cardinality(Pending(w)) \in Nat
          /\ Times(w) = Cardinality(Logged(w)) + Cardinality(Pending(w)) + Cardinality(Writing(w))
          /\ Times(w)' =
               Cardinality(Logged(w)') + Cardinality(Pending(w)') + Cardinality(Writing(w)')
      BY <1>8, CommitCounts
    <3>2. Pending(w)' = Pending(w)
      BY <1>1 DEF Pending
    <3>3. Cardinality(Writing(w)') = 0
      BY <1>5, <1>6
    <3>4. Cardinality(Writing(w)) = IF call[c].write = w THEN 1 ELSE 0
      BY <1>5, <1>6
    <3>5. Times(w)' = Cardinality(Logged(w)') + Cardinality(Pending(w))
      BY <3>1, <3>2, <3>3
    <3>q. QED
      BY <1>3, <3>1, <3>4, <3>5
  <2>2. CallOK("idle", NoCall) /\ ~Shown("idle", NoCall) /\ ~Over("idle", NoCall)
        /\ "idle" \in Places
    BY DEF CallOK, Shown, Over, Places
  <2>q. QED
    BY <1>1, <1>2, <1>7, <1>8, <2>1, <2>2, Commits
<1>9. CASE written' = written \ {call[c].write} /\ log' = log /\ branch' = branch
  <2>1. TypeInv'
    BY <1>1, <1>2, <1>7, <1>9 DEF IInv, TypeInv, Places
  <2>2. NumbersInv'
    BY <1>1, <1>2, <1>4, <1>7, <1>9 DEF IInv, NumbersInv, Used
  <2>3. CallOK(pc[c], call[c])' /\ SoloOK(pc[c], call[c])'
    BY <1>4 DEF CallOK, SoloOK, Reads, Shown, Over
  <2>4. ~overlapped => \A w \in written' : Times(w)' = 1
    <3> SUFFICES ASSUME ~overlapped, NEW w \in written, w # call[c].write PROVE Times(w)' = 1
      BY <1>9
    <3>1. Writing(w)' = Writing(w)
      BY <1>5
    <3>2. Times(w)' = Times(w)
      BY <1>1, <1>9, <3>1 DEF Times, Writing
    <3>q. QED
      BY <1>3, <3>2
  <2>5. ~overlapped =>
          /\ phase' = "turn" => InRun(c)'
          /\ broken' \/ Range(pendingSessionWrites)' \subseteq held' \/ InRun(c)'
    BY <1>1, <1>2, OnlyOne
  <2>q. QED
    BY <1>2, <1>3, <1>4, <2>1, <2>2, <2>3, <2>4, <2>5, OneCall
<1>q. QED
  BY <1>2, <1>8, <1>9

(* A new number is larger than all before it.                               *)
LEMMA Numbered ==
  ASSUME IInv, Input
  PROVE  /\ Used \in Nat /\ Used' = Used + 1 /\ Number = Used + 1 /\ inputs' \in 0..MaxInputs
         /\ \A w \in written : w \in 1..Used /\ w \in 1..Used'
         /\ \A n \in 1..Len(log) : log[n].write # Used + 1 /\ log[n].write <= Used'
         /\ \A n \in 1..Len(pendingSessionWrites) :
              pendingSessionWrites[n] # Used + 1 /\ pendingSessionWrites[n] <= Used'
         /\ \A c \in Callers : call[c].write # Used + 1 /\ call[c].write <= Used'
<1>1. inputs \in 0..MaxInputs /\ MaxInputs \in Nat /\ inputs > 0 /\ inputs' = inputs - 1
  BY BoundAssumption DEF Input, IInv, TypeInv
<1>2. Used \in Nat /\ Used' = Used + 1 /\ Number = Used + 1 /\ inputs' \in 0..MaxInputs
  BY <1>1 DEF Used, Number
<1>3. /\ \A n \in 1..Len(log) : log[n].write \in Nat
      /\ \A n \in 1..Len(pendingSessionWrites) : pendingSessionWrites[n] \in Nat
      /\ \A c \in Callers : call[c].write \in Nat
  <2>1. \A n \in 1..Len(log) : log[n] \in Entries
    BY DEF IInv, TypeInv
  <2>2. \A n \in 1..Len(log) : log[n].write \in Nat
    BY <2>1 DEF Entries
  <2>3. \A n \in 1..Len(pendingSessionWrites) : pendingSessionWrites[n] \in Nat
    BY DEF IInv, TypeInv
  <2>4. \A c \in Callers : call[c].write \in Nat
    BY Here DEF CallRecords
  <2>q. QED
    BY <2>2, <2>3, <2>4
<1>4. \A m \in Nat : m <= Used => m # Used + 1 /\ m <= Used'
  BY <1>2
<1>5. /\ \A w \in written : w \in 1..Used
      /\ \A n \in 1..Len(log) : log[n].write <= Used
      /\ \A n \in 1..Len(pendingSessionWrites) : pendingSessionWrites[n] <= Used
      /\ \A c \in Callers : call[c].write <= Used
  BY DEF IInv, NumbersInv
<1>6. \A w \in 1..Used : w \in 1..Used'
  BY <1>2
<1>q. QED
  BY <1>2, <1>3, <1>4, <1>5, <1>6

(* A call the harness accepts: nobody works, or the calls overlap.          *)
LEMMA AcceptedSteps ==
  ASSUME IInv, NEW c \in Callers, Prompt(c) \/ Compact(c) \/ NavigateTree(c) PROVE IInv'
<1>1. /\ Input /\ pc[c] = "idle" /\ phase = "idle"
      /\ overlapped' = (overlapped \/ \E d \in Callers \ {c} : Working(d))
      /\ pendingSessionWrites' = pendingSessionWrites /\ queue' = queue
      /\ log' = log /\ branch' = branch /\ written' = written /\ held' = held
      /\ broken' = broken /\ call' = call
  BY DEF Prompt, Compact, NavigateTree, Reorganise, Accepted, session
<1>2. PICK p \in {"prepare", "compacting", "navigating"} :
        /\ pc' = [pc EXCEPT ![c] = p]
        /\ phase' \in {"turn", "compaction", "branch_summary"} /\ (phase' = "turn" => p = "prepare")
  BY DEF Prompt, Compact, NavigateTree, Reorganise, Goto
<1>3. runPromise' \in Callers \union {None}
  BY DEF Prompt, Compact, NavigateTree, Reorganise, IInv, TypeInv
<1>4. pc'[c] = p /\ \A d \in Callers \ {c} : pc'[d] = pc[d]
  BY <1>2 DEF IInv, TypeInv
<1>5. TypeInv'
  <2>1. p \in Places
    BY DEF Places, RunPlaces
  <2>q. QED
    BY <1>1, <1>2, <1>3, <2>1, Numbered DEF IInv, TypeInv
<1>6. NumbersInv'
  BY <1>1, Numbered DEF NumbersInv
<1>7. CallOK(pc[c], call[c])' /\ SoloOK(pc[c], call[c])'
  BY <1>4 DEF CallOK, SoloOK, Reads, Shown, Over
<1>8. phase' = "turn" => InRun(c)'
  BY <1>2, <1>4 DEF InRun, RunPlaces
<1>9. \A d \in Callers : InRun(d) => Working(d)
  BY DEF InRun, RunPlaces, Working
<1>10. ASSUME ~overlapped'
       PROVE  /\ \A d \in Callers \ {c} : ~Working(d)
              /\ broken' \/ Range(pendingSessionWrites)' \subseteq held' \/ InRun(c)'
              /\ \A w \in written' : Times(w)' = 1
  <2>1. ~overlapped /\ \A d \in Callers : ~Working(d)
    BY <1>1, <1>10 DEF Working
  <2>2. SoloInv /\ ~SomeRun
    BY <1>9, <2>1 DEF IInv, SomeRun
  <2>3. \A w : Writing(w)' = Writing(w)
    BY <1>1, <1>4 DEF Writing
  <2>4. \A w : Times(w)' = Times(w)
    BY <1>1, <2>3 DEF Times, Writing
  <2>q. QED
    BY <1>1, <2>1, <2>2, <2>4 DEF SoloInv
<1>q. QED
  BY <1>1, <1>4, <1>5, <1>6, <1>7, <1>8, <1>10, OneCall

(* A number of a write that is new is nowhere yet.                          *)
LEMMA Fresh ==
  ASSUME IInv, Input
  PROVE  /\ Cardinality(Logged(Used + 1)) = 0 /\ Cardinality(Pending(Used + 1)) = 0
         /\ Writing(Used + 1) = {}
<1>1. Logged(Used + 1) = {} /\ Pending(Used + 1) = {} /\ Writing(Used + 1) = {}
  BY Numbered DEF Logged, Pending, Writing
<1>q. QED
  BY <1>1, FS_EmptySet

(* A write that is made at once.                                            *)
LEMMA WriteStep == ASSUME IInv, NEW c \in Callers, Write(c) PROVE IInv'
<1>0. PICK m : m = Used + 1
  OBVIOUS
<1> DEFINE r == [call[c] EXCEPT !.at = branch, !.write = m]
<1>1. /\ Input /\ pc[c] = "idle" /\ phase = "idle" /\ phase' = phase
      /\ overlapped' = (overlapped \/ \E d \in Callers \ {c} : Working(d))
      /\ pendingSessionWrites' = pendingSessionWrites /\ queue' = queue
      /\ runPromise' = runPromise
      /\ log' = log /\ branch' = branch /\ written' = written \union {Number} /\ held' = held
      /\ broken' = broken /\ pc' = [pc EXCEPT ![c] = "writing"]
      /\ call' = [call EXCEPT ![c] = [call[c] EXCEPT !.at = branch, !.write = Number]]
  BY DEF Write, Accepted, Begin, Goto, control, session
<1>2. /\ m \in Nat /\ m = Number /\ m = Used' /\ inputs' \in 0..MaxInputs /\ m \in 1..Used'
      /\ Used \in Nat
  BY <1>0, <1>1, Numbered
<1>3. /\ written' = written \union {m} /\ call' = [call EXCEPT ![c] = r]
  BY <1>1, <1>2
<1>4. r \in CallRecords /\ r.at = branch /\ r.write = m
  BY <1>2, Here DEF CallRecords
<1> HIDE DEF r
<1>5. /\ pc'[c] = "writing" /\ call'[c] = r
      /\ \A d \in Callers \ {c} : pc'[d] = pc[d] /\ call'[d] = call[d]
  BY <1>1, <1>3 DEF IInv, TypeInv
<1>6. TypeInv'
  <2>1. "writing" \in Places
    BY DEF Places
  <2>q. QED
    BY <1>1, <1>2, <1>3, <1>4, <2>1 DEF IInv, TypeInv
<1>7. NumbersInv'
  <2>1. \A d \in Callers : call'[d].write <= Used'
    BY <1>1, <1>2, <1>4, <1>5, Numbered
  <2>2. \A w \in written' : w \in 1..Used'
    BY <1>1, <1>2, <1>3, Numbered
  <2>q. QED
    BY <1>1, <2>1, <2>2, Numbered DEF NumbersInv
<1>8. CallOK(pc[c], call[c])' /\ SoloOK(pc[c], call[c])'
  BY <1>1, <1>4, <1>5 DEF CallOK, SoloOK, Reads, Shown, Over
<1>9. \A d \in Callers : InRun(d) => Working(d)
  BY DEF InRun, RunPlaces, Working
<1>10. ASSUME ~overlapped'
       PROVE  /\ \A d \in Callers \ {c} : ~Working(d)
              /\ phase' = "turn" => InRun(c)'
              /\ broken' \/ Range(pendingSessionWrites)' \subseteq held' \/ InRun(c)'
              /\ \A w \in written' : Times(w)' = 1
  <2>1. ~overlapped /\ \A d \in Callers : ~Working(d)
    BY <1>1, <1>10 DEF Working
  <2>2. SoloInv /\ ~SomeRun
    BY <1>9, <2>1 DEF IInv, SomeRun
  <2>3. \A w : Writing(w) = {} /\ Writing(w)' = IF w = m THEN {c} ELSE {}
    BY <1>4, <1>5, <2>1 DEF Writing, Working
  <2>4. /\ \A w : Logged(w)' = Logged(w) /\ Pending(w)' = Pending(w)
        /\ \A w : Times(w)' = Cardinality(Logged(w)') + Cardinality(Pending(w)')
                                + Cardinality(Writing(w)')
        /\ \A w : Times(w) = Cardinality(Logged(w)) + Cardinality(Pending(w))
                               + Cardinality(Writing(w))
    BY <1>1 DEF Times, Logged, Pending, Writing
  <2>5. ASSUME NEW w \in written PROVE Times(w)' = 1
    <3>1. w # m
      BY <1>1, <1>2, Numbered
    <3>2. Writing(w)' = Writing(w)
      BY <2>3, <3>1
    <3>3. Times(w)' = Times(w)
      BY <2>4, <3>2
    <3>q. QED
      BY <2>2, <3>3 DEF SoloInv
  <2>6. Times(m)' = 1
    <3>1. Cardinality(Logged(m)) = 0 /\ Cardinality(Pending(m)) = 0
      BY <1>0, <1>1, Fresh
    <3>2. Cardinality(Writing(m)') = 1
      BY <2>3, FS_Singleton
    <3>3. Cardinality(Logged(m)') = 0 /\ Cardinality(Pending(m)') = 0
      BY <2>4, <3>1
    <3>4. Times(m)' = Cardinality(Logged(m)') + Cardinality(Pending(m)')
                        + Cardinality(Writing(m)')
      BY <2>4 DEF Times, Logged, Pending, Writing
    <3>q. QED
      BY <3>2, <3>3, <3>4
  <2>7. \A w \in written' : Times(w)' = 1
    BY <1>3, <2>5, <2>6
  <2>q. QED
    BY <1>1, <2>1, <2>2, <2>7 DEF SoloInv
<1>q. QED
  BY <1>1, <1>5, <1>6, <1>7, <1>8, <1>10, OneCall

------------------------------------------------------------------------------
(* The calls that are no work: an abort and its wait, what is queued, and   *)
(* what is left pending.                                                    *)

(* A step that moves callers between the places where they do not work, and *)
(* leaves alone what the working ones hold.                                 *)
LEMMA Waits ==
  ASSUME IInv, TypeInv',
         \A d \in Callers :
           \/ pc'[d] = pc[d]
           \/ ~Working(d) /\ pc'[d] \in {"idle", "abort", "awaiting"},
         \A d \in Callers :
           /\ call'[d].todo = call[d].todo /\ call'[d].then = call[d].then
           /\ call'[d].failing = call[d].failing /\ call'[d].at = call[d].at
           /\ call'[d].write = call[d].write /\ call'[d].context = call[d].context,
         phase' = phase, pendingSessionWrites' = pendingSessionWrites, log' = log,
         branch' = branch, written' = written, held' = held, broken' = broken,
         overlapped' = overlapped, inputs' = inputs \/ Input
  PROVE  IInv'
<1>1. NumbersInv'
  <2>1. CASE inputs' = inputs
    <3>1. Used' = Used
      BY <2>1 DEF Used
    <3>q. QED
      BY <3>1 DEF IInv, NumbersInv
  <2>2. CASE Input
    BY <2>2, Numbered DEF NumbersInv
  <2>q. QED
    BY <2>1, <2>2
<1>2. \A d \in Callers : pc'[d] = pc[d] \/ pc'[d] \in {"idle", "abort", "awaiting"}
  OBVIOUS
<1>3. \A d \in Callers : CallOK(pc[d], call[d])'
  BY <1>2 DEF IInv, CallOK
<1>4. ASSUME ~overlapped PROVE SoloInv'
  <2>1. \A d \in Callers : Working(d)' <=> Working(d)
    BY DEF Working
  <2>2. \A d \in Callers : InRun(d)' <=> InRun(d)
    BY DEF InRun, Working, RunPlaces
  <2>3. \A d \in Callers : SoloOK(pc[d], call[d])'
    BY <1>2, <1>4 DEF IInv, SoloInv, SoloOK, Reads, Shown, Over
  <2>4. \A w : Writing(w)' = Writing(w)
    BY DEF Writing, Working
  <2>5. \A w : Times(w)' = Times(w)
    BY <2>4 DEF Times, Writing
  <2>q. QED
    BY <1>4, <2>1, <2>2, <2>3, <2>5 DEF IInv, SoloInv, Alone, SomeRun
<1>q. QED
  BY <1>1, <1>3, <1>4 DEF IInv

(* An abort, its wait, a queued message, and nothing at all.                *)
LEMMA WaitSteps ==
  ASSUME IInv,
         \/ \E c \in Callers : Abort(c) \/ AwaitIdle(c)
         \/ \E kind \in Kinds : Queue(kind)
         \/ UNCHANGED vars
  PROVE  IInv'
<1>1. TypeInv
  BY DEF IInv
<1>2. ASSUME NEW c \in Callers, Abort(c) PROVE IInv'
  <2> DEFINE new(d) == [call[d] EXCEPT !.from = "none", !.aborted = @ \/ d = runAbortController]
  <2>1. /\ phase' = phase /\ runPromise' = runPromise /\ log' = log /\ branch' = branch
        /\ pendingSessionWrites' = pendingSessionWrites /\ written' = written /\ held' = held
        /\ broken' = broken /\ overlapped' = overlapped /\ Input /\ pc[c] = "idle"
        /\ pc' = [pc EXCEPT ![c] = "abort"]
        /\ queue' = [queue EXCEPT !["steer"] = 0, !["followUp"] = 0]
    BY <1>2 DEF Abort, Goto, control, session, history
  <2>2. call' = [d \in Callers |-> new(d)]
    BY <1>2 DEF Abort
  <2>3. \A d \in Callers :
          /\ new(d) \in CallRecords
          /\ new(d).todo = call[d].todo /\ new(d).then = call[d].then
          /\ new(d).failing = call[d].failing /\ new(d).at = call[d].at
          /\ new(d).write = call[d].write /\ new(d).context = call[d].context
    <3> SUFFICES ASSUME NEW d \in Callers
                 PROVE  /\ new(d) \in CallRecords
                        /\ new(d).todo = call[d].todo /\ new(d).then = call[d].then
                        /\ new(d).failing = call[d].failing /\ new(d).at = call[d].at
                        /\ new(d).write = call[d].write /\ new(d).context = call[d].context
      OBVIOUS
    <3>1. call[d] \in CallRecords
      BY <1>1 DEF TypeInv
    <3>q. QED
      BY <3>1 DEF CallRecords
  <2> HIDE DEF new
  <2>4. call' \in [Callers -> CallRecords]
    BY <2>2, <2>3
  <2>5. pc' \in [Callers -> Places] /\ \A d \in Callers : pc'[d] = IF d = c THEN "abort" ELSE pc[d]
    BY <1>1, <2>1 DEF TypeInv, Places
  <2>6. inputs' \in 0..MaxInputs
    BY <2>1, Numbered
  <2>7. TypeInv'
    BY <1>1, <2>1, <2>4, <2>5, <2>6 DEF TypeInv
  <2>q. QED
    BY <2>1, <2>2, <2>3, <2>5, <2>7, Waits DEF Working
<1>3. ASSUME NEW c \in Callers, AwaitIdle(c) PROVE IInv'
  <2>1. /\ phase' = phase /\ runPromise' = runPromise /\ log' = log /\ branch' = branch
        /\ pendingSessionWrites' = pendingSessionWrites /\ written' = written /\ held' = held
        /\ broken' = broken /\ overlapped' = overlapped /\ inputs' = inputs /\ pc[c] = "abort"
        /\ queue' = queue
    BY <1>3 DEF AwaitIdle, control, session, bounds, history
  <2>2. PICK p \in {"idle", "awaiting"} : pc' = [pc EXCEPT ![c] = p]
    BY <1>3 DEF AwaitIdle, Goto
  <2>3. PICK r : /\ call' = [call EXCEPT ![c] = r] /\ r \in CallRecords
                 /\ r.todo = call[c].todo /\ r.then = call[c].then
                 /\ r.failing = call[c].failing /\ r.at = call[c].at
                 /\ r.write = call[c].write /\ r.context = call[c].context
    <3> DEFINE r1 == [call[c] EXCEPT !.awaits = runPromise]
    <3>1. call[c] \in CallRecords /\ runPromise \in Callers \union {None}
      BY <1>1 DEF TypeInv
    <3>2. /\ r1 \in CallRecords
          /\ r1.todo = call[c].todo /\ r1.then = call[c].then
          /\ r1.failing = call[c].failing /\ r1.at = call[c].at
          /\ r1.write = call[c].write /\ r1.context = call[c].context
      BY <3>1 DEF CallRecords
    <3>3. call' = [call EXCEPT ![c] = call[c]] \/ call' = [call EXCEPT ![c] = r1]
      BY <1>1, <1>3 DEF AwaitIdle, TypeInv
    <3> HIDE DEF r1
    <3>q. QED
      BY <3>1, <3>2, <3>3
  <2>4. /\ pc' \in [Callers -> Places] /\ \A d \in Callers : pc'[d] = IF d = c THEN p ELSE pc[d]
        /\ call' \in [Callers -> CallRecords]
        /\ \A d \in Callers : call'[d] = IF d = c THEN r ELSE call[d]
    BY <1>1, <2>2, <2>3 DEF TypeInv, Places
  <2>5. TypeInv'
    BY <1>1, <2>1, <2>4 DEF TypeInv
  <2>q. QED
    BY <2>1, <2>3, <2>4, <2>5, Waits DEF Working
<1>4. ASSUME NEW kind \in Kinds, Queue(kind) PROVE IInv'
  <2>1. /\ phase' = phase /\ runPromise' = runPromise /\ log' = log /\ branch' = branch
        /\ pendingSessionWrites' = pendingSessionWrites /\ written' = written /\ held' = held
        /\ broken' = broken /\ overlapped' = overlapped /\ Input /\ pc' = pc /\ call' = call
        /\ queue' = [queue EXCEPT ![kind] = @ + 1]
    BY <1>4 DEF Queue, control, session, history
  <2>2. queue' \in [Kinds -> Nat]
    BY <1>1, <2>1 DEF TypeInv
  <2>3. inputs' \in 0..MaxInputs
    BY <2>1, Numbered
  <2>4. TypeInv'
    BY <1>1, <2>1, <2>2, <2>3 DEF TypeInv
  <2>q. QED
    BY <2>1, <2>4, Waits
<1>5. CASE UNCHANGED vars
  <2>1. /\ phase' = phase /\ runPromise' = runPromise /\ log' = log /\ branch' = branch
        /\ pendingSessionWrites' = pendingSessionWrites /\ written' = written /\ held' = held
        /\ broken' = broken /\ overlapped' = overlapped /\ inputs' = inputs /\ pc' = pc
        /\ call' = call /\ queue' = queue
    BY <1>5 DEF vars, control, session, history, bounds
  <2>2. TypeInv'
    BY <1>1, <2>1 DEF TypeInv
  <2>q. QED
    BY <2>1, <2>2, Waits
<1>q. QED
  BY <1>2, <1>3, <1>4, <1>5

(* A write that is left pending: a run is under way that will flush it, or  *)
(* it is held back.                                                         *)
LEMMA DeferStep == ASSUME IInv, Defer PROVE IInv'
<1>0. PICK m : m = Used + 1
  OBVIOUS
<1>1. /\ phase # "idle" /\ Input /\ phase' = phase /\ runPromise' = runPromise /\ queue' = queue
      /\ pc' = pc /\ call' = call /\ log' = log /\ branch' = branch
      /\ broken' = broken /\ overlapped' = overlapped
      /\ pendingSessionWrites' = Append(pendingSessionWrites, Number)
      /\ written' = written \union {Number}
      /\ held' = (IF phase = "turn" THEN held ELSE held \union {Number})
  BY DEF Defer, control, session
<1>2. /\ m \in Nat /\ m = Number /\ m = Used' /\ inputs' \in 0..MaxInputs /\ m \in 1..Used'
      /\ Used \in Nat
  BY <1>0, <1>1, Numbered
<1>3. /\ pendingSessionWrites \in Seq(Nat) /\ Len(pendingSessionWrites) \in Nat
      /\ pendingSessionWrites' = Append(pendingSessionWrites, m)
      /\ pendingSessionWrites' \in Seq(Nat)
      /\ Len(pendingSessionWrites') = Len(pendingSessionWrites) + 1
      /\ \A n \in 1..Len(pendingSessionWrites) : pendingSessionWrites'[n] = pendingSessionWrites[n]
      /\ pendingSessionWrites'[Len(pendingSessionWrites) + 1] = m
  BY <1>1, <1>2 DEF IInv, TypeInv
<1>4. TypeInv'
  BY <1>1, <1>2, <1>3 DEF IInv, TypeInv
<1>5. NumbersInv'
  <2>1. \A n \in 1..Len(pendingSessionWrites') : pendingSessionWrites'[n] <= Used'
    <3> SUFFICES ASSUME NEW n \in 1..Len(pendingSessionWrites')
                 PROVE  pendingSessionWrites'[n] <= Used'
      OBVIOUS
    <3>1. CASE n \in 1..Len(pendingSessionWrites)
      BY <1>1, <1>3, <3>1, Numbered
    <3>2. CASE n = Len(pendingSessionWrites) + 1
      BY <1>2, <1>3, <3>2
    <3>q. QED
      BY <1>3, <3>1, <3>2
  <2>2. \A w \in written' : w \in 1..Used'
    BY <1>1, <1>2, Numbered
  <2>q. QED
    BY <1>1, <2>1, <2>2, Numbered DEF NumbersInv
<1>6. \A d \in Callers : CallOK(pc[d], call[d])'
  BY <1>1 DEF IInv, CallOK
<1>7. ASSUME ~overlapped PROVE SoloInv'
  <2>1. SoloInv
    BY <1>7 DEF IInv
  <2>2. Alone'
    BY <1>1, <2>1 DEF SoloInv, Alone, Working
  <2>3. pendingSessionWrites # <<>> =>
          pendingSessionWrites' # <<>> /\ Head(pendingSessionWrites') = Head(pendingSessionWrites)
    BY <1>3
  <2>4. \A d \in Callers : SoloOK(pc[d], call[d])'
    BY <1>1, <2>1, <2>3 DEF SoloInv, SoloOK, Reads, Shown, Over
  <2>5. SomeRun' <=> SomeRun
    BY <1>1 DEF SomeRun, InRun
  <2>6. broken \/ SomeRun \/ Range(pendingSessionWrites)' \subseteq held'
    <3>1. CASE phase = "turn"
      BY <2>1, <3>1 DEF SoloInv
    <3>2. CASE phase # "turn" /\ Range(pendingSessionWrites) \subseteq held
      <4>1. held' = held \union {m}
        BY <1>1, <1>2, <3>2
      <4>2. Range(pendingSessionWrites)' \subseteq Range(pendingSessionWrites) \union {m}
        BY <1>3 DEF Range
      <4>q. QED
        BY <3>2, <4>1, <4>2
    <3>q. QED
      BY <2>1, <3>1, <3>2 DEF SoloInv
  <2>7. \A w : /\ Logged(w)' = Logged(w) /\ Writing(w)' = Writing(w)
               /\ Times(w)' = Cardinality(Logged(w)') + Cardinality(Pending(w)')
                                + Cardinality(Writing(w)')
    BY <1>1 DEF Times, Logged, Pending, Writing
  <2>8. ASSUME NEW w \in written PROVE Times(w)' = 1
    <3>1. w # m
      BY <1>1, <1>0, Numbered
    <3>2. Pending(w)' = Pending(w)
      BY <1>3, <3>1 DEF Pending
    <3>3. Times(w)' = Times(w)
      BY <2>7, <3>2 DEF Times, Logged, Pending, Writing
    <3>q. QED
      BY <2>1, <3>3 DEF SoloInv
  <2>9. Times(m)' = 1
    <3>1. Cardinality(Logged(m)) = 0 /\ Cardinality(Pending(m)) = 0 /\ Writing(m) = {}
      BY <1>0, <1>1, Fresh
    <3>2. Pending(m) \subseteq 1..Len(pendingSessionWrites)
      BY DEF Pending
    <3>3. Pending(m)' = Pending(m) \union {Len(pendingSessionWrites) + 1}
      BY <1>3 DEF Pending
    <3>4. Cardinality(Pending(m)') = 1
      BY <1>3, <3>1, <3>2, <3>3, OneMore, SMTT(20)
    <3>5. Cardinality(Writing(m)') = 0 /\ Cardinality(Logged(m)') = 0
      BY <2>7, <3>1, FS_EmptySet
    <3>q. QED
      BY <2>7, <3>4, <3>5
  <2>10. \A w \in written' : Times(w)' = 1
    BY <1>1, <1>2, <2>8, <2>9
  <2>q. QED
    BY <1>1, <2>1, <2>2, <2>4, <2>5, <2>6, <2>10 DEF SoloInv
<1>q. QED
  BY <1>1, <1>4, <1>5, <1>6, <1>7 DEF IInv

------------------------------------------------------------------------------
(* The invariant and what follows from it.                                  *)

(* The harness starts idle, with an empty session and nobody at work.       *)
LEMMA InitIInv == Init => IInv
<1> SUFFICES ASSUME Init PROVE IInv
  OBVIOUS
<1>1. NoCall \in CallRecords /\ NoCall.write = 0 /\ <<>> \in Seq(Nat) /\ <<>> \in Seq(Entries)
  BY NoCallIs
<1>2. /\ pc = [c \in Callers |-> "idle"] /\ call = [c \in Callers |-> NoCall] /\ phase = "idle"
      /\ runPromise = None /\ pendingSessionWrites = <<>> /\ log = <<>> /\ branch = <<>>
      /\ queue = [k \in Kinds |-> 0] /\ inputs = MaxInputs /\ overlapped = FALSE
      /\ written = {} /\ held = {}
  BY DEF Init
<1>3. MaxInputs \in Nat /\ MaxInputs \in 0..MaxInputs /\ Used = 0
  BY <1>2, BoundAssumption DEF Used
<1>4. TypeInv
  BY <1>1, <1>2, <1>3 DEF TypeInv, Places
<1>5. NumbersInv
  BY <1>1, <1>2, <1>3 DEF NumbersInv
<1>6. \A c \in Callers : CallOK(pc[c], call[c]) /\ SoloOK(pc[c], call[c]) /\ ~Working(c)
  BY <1>2 DEF CallOK, SoloOK, Reads, Shown, Over, Working
<1>7. Range(pendingSessionWrites) \subseteq held
  BY <1>2 DEF Range
<1>8. SoloInv
  BY <1>2, <1>6, <1>7 DEF SoloInv, Alone
<1>q. QED
  BY <1>4, <1>5, <1>6, <1>8 DEF IInv

(* Every step of the harness keeps the invariant.                           *)
LEMMA NextIInv == IInv /\ [Next]_vars => IInv'
<1> SUFFICES ASSUME IInv, [Next]_vars PROVE IInv'
  OBVIOUS
<1>1. ASSUME NEW c \in Callers, Step(c) PROVE IInv'
  <2>1. CASE Prepare(c) \/ TakeNextTurn(c) \/ Announce(c) \/ StartRun(c)
    BY <2>1, StartSteps
  <2>2. CASE Emit(c) \/ Poll(c) \/ Drained(c) \/ Reply(c) \/ TurnEnd(c)
    BY <2>2, MessageSteps
  <2>3. CASE Save(c) \/ Summary(c)
    BY <2>3, SaveSteps
  <2>4. CASE \/ Flush(c) \/ Saved(c) \/ SavePoint(c) \/ Refresh(c) \/ Refreshed(c) \/ AgentEnd(c)
             \/ Settled(c)
    BY <2>4, FlushSteps
  <2>5. CASE Flushed(c)
    BY <2>5, FlushedStep
  <2>6. CASE Close(c)
    BY <2>6, CloseStep
  <2>7. CASE EndWrite(c)
    BY <2>7, EndWriteStep
  <2>8. CASE Summarised(c) \/ Move(c) \/ EndReorganise(c)
    BY <2>8, ReorganiseSteps
  <2>9. CASE AwaitIdle(c)
    BY <2>9, WaitSteps
  <2>q. QED
    BY <1>1, <2>1, <2>2, <2>3, <2>4, <2>5, <2>6, <2>7, <2>8, <2>9 DEF Step
<1>2. ASSUME NEW c \in Callers, Prompt(c) \/ Compact(c) \/ NavigateTree(c) PROVE IInv'
  BY <1>2, AcceptedSteps
<1>3. ASSUME NEW c \in Callers, Write(c) PROVE IInv'
  BY <1>3, WriteStep
<1>4. ASSUME NEW c \in Callers, Abort(c) PROVE IInv'
  BY <1>4, WaitSteps
<1>5. ASSUME NEW c \in Callers, StartFails(c) PROVE IInv'
  BY <1>5, StartFailsStep
<1>6. ASSUME NEW c \in Callers, SubscriberThrows(c) \/ SaveBreaks(c) \/ DrainFails(c) PROVE IInv'
  BY <1>6, RunFailsStep
<1>7. ASSUME NEW c \in Callers, FlushBreaks(c) PROVE IInv'
  BY <1>7, CloseStep
<1>8. CASE Defer
  BY <1>8, DeferStep
<1>9. CASE (\E kind \in Kinds : Queue(kind)) \/ UNCHANGED vars
  BY <1>9, WaitSteps
<1>q. QED
  BY <1>1, <1>2, <1>3, <1>4, <1>5, <1>6, <1>7, <1>8, <1>9 DEF Next

(* The inductive invariant holds in every reachable state.                  *)
THEOREM Invariance == Spec => []IInv
BY InitIInv, NextIInv, PTL DEF Spec

(* Unless calls overlap, every write the harness accepts is in the session, *)
(* on its way there or pending, exactly once, whatever fails in between     *)
(* (flushPendingSessionWrites drops a write only after its append).         *)
THEOREM WritesAreSavedOnce == Spec => []WritesSavedOnce
<1>1. IInv => WritesSavedOnce
  BY DEF IInv, SoloInv, WritesSavedOnce
<1>q. QED
  BY <1>1, Invariance, PTL

(* Unless calls overlap or the storage fails, what is still pending when    *)
(* nothing works was accepted when no run could flush it (executeTurn's     *)
(* finally, agent_end).                                                     *)
THEOREM NothingIsHeldBack == Spec => []NothingHeldBack
<1>1. IInv => NothingHeldBack
  <2> SUFFICES ASSUME IInv, \A c \in Callers : ~Working(c), ~overlapped, ~broken
               PROVE  Range(pendingSessionWrites) \subseteq held
    BY DEF NothingHeldBack
  <2>1. ~SomeRun
    BY DEF SomeRun, InRun, RunPlaces, Working
  <2>q. QED
    BY <2>1 DEF IInv, SoloInv
<1>q. QED
  BY <1>1, Invariance, PTL

(* A call that asks the model shows it the branch the session is at         *)
(* (createTurnState, prepareNextTurn).                                      *)
THEOREM ContextIsWhatIsSaved == Spec => []ContextIsSaved
<1>1. IInv => ContextIsSaved
  BY DEF IInv, SoloInv, SoloOK, Reads, Shown, ContextIsSaved
<1>q. QED
  BY <1>1, Invariance, PTL

------------------------------------------------------------------------------
(* When calls overlap.                                                      *)

(* A call during which the harness may be idle: a write, a run that has     *)
(* ended, and one that reports a failure, as that may be one after its end. *)
Late(p, r) ==
  \/ p \in {"writing", "ending"} \/ r.failing # "no"
  \/ p \in {"flush", "flushing"} /\ r.then = "closed"

(* As long as no calls have overlapped, the harness is busy during any      *)
(* other call.                                                              *)
BusyInv == overlapped \/ \A c \in Callers : Working(c) /\ phase = "idle" => Late(pc[c], call[c])

(* A step of c keeps this if it leaves c idle, late, or with the harness as *)
(* busy as before.                                                          *)
LEMMA StaysBusy ==
  ASSUME IInv, BusyInv, NEW c \in Callers, Working(c), overlapped' = overlapped,
         \A d \in Callers \ {c} : pc'[d] \in {pc[d], "idle"},
         \/ pc'[c] = "idle" \/ Late(pc'[c], call'[c])
         \/ phase' = phase /\ (Late(pc[c], call[c]) => Late(pc'[c], call'[c]))
  PROVE  BusyInv'
<1>1. CASE overlapped
  BY <1>1 DEF BusyInv
<1>2. CASE ~overlapped
  <2>1. \A d \in Callers \ {c} : ~Working(d)
    BY <1>2, OnlyOne
  <2>2. \A d \in Callers \ {c} : ~Working(d)'
    BY <2>1 DEF Working
  <2>3. pc'[c] = "idle" => ~Working(c)'
    BY DEF Working
  <2>4. Working(c)' /\ phase' = "idle" => Late(pc'[c], call'[c])
    BY <1>2, <2>3 DEF BusyInv
  <2>q. QED
    BY <2>2, <2>4 DEF BusyInv
<1>q. QED
  BY <1>1, <1>2

(* A step that goes to p with r.                                            *)
LEMMA GoesBusy ==
  ASSUME IInv, BusyInv, NEW c \in Callers, Working(c), overlapped' = overlapped,
         NEW p, NEW r, pc' = [pc EXCEPT ![c] = p], call' = [call EXCEPT ![c] = r],
         \/ Late(p, r)
         \/ phase' = phase /\ (Late(pc[c], call[c]) => Late(p, r))
  PROVE  BusyInv'
<1>1. pc'[c] = p /\ call'[c] = r /\ \A d \in Callers \ {c} : pc'[d] = pc[d]
  BY DEF IInv, TypeInv
<1>q. QED
  BY <1>1, StaysBusy

(* A run that throws reports a failure.                                     *)
LEMMA ThrowsBusy ==
  ASSUME IInv, BusyInv, NEW c \in Callers, Working(c), overlapped' = overlapped, Throws(c)
  PROVE  BusyInv'
<1> DEFINE r1 == [NoCall EXCEPT !.failing = "reporting", !.todo = 1, !.then = "turnEnd",
                                !.reply = "failed"]
           r2 == [NoCall EXCEPT !.failing = "rejected", !.then = "closed"]
<1>1. r1.failing = "reporting" /\ r2.failing = "rejected"
  BY DEF NoCall
<1>2. \/ call' = [call EXCEPT ![c] = r1] /\ pc' = [pc EXCEPT ![c] = "emit"]
      \/ call' = [call EXCEPT ![c] = r2] /\ pc' = [pc EXCEPT ![c] = "flush"]
  BY DEF Throws, Goto
<1> HIDE DEF r1, r2
<1>3. Late("emit", r1) /\ Late("flush", r2)
  BY <1>1 DEF Late
<1>q. QED
  BY <1>2, <1>3, GoesBusy

(* The steps of a run that go on, from a place where only its failing makes *)
(* a call late.                                                             *)
LEMMA RunsBusy ==
  ASSUME IInv, BusyInv, NEW c \in Callers, Working(c), overlapped' = overlapped, phase' = phase,
         pc[c] \notin {"writing", "ending"},
         pc[c] \in {"flush", "flushing"} => call[c].then # "closed",
         NEW p, pc' = [pc EXCEPT ![c] = p], NEW r, call' = [call EXCEPT ![c] = r],
         r.failing = call[c].failing
  PROVE  BusyInv'
<1>1. Late(pc[c], call[c]) => Late(p, r)
  BY DEF Late
<1>q. QED
  BY <1>1, GoesBusy

(* The steps of a call that works and does not end with them.               *)
LEMMA WorkingSteps ==
  ASSUME IInv, BusyInv, NEW c \in Callers,
         \/ Prepare(c) \/ TakeNextTurn(c) \/ Announce(c) \/ StartRun(c)
         \/ Emit(c) \/ Save(c) \/ Poll(c) \/ Drained(c) \/ Reply(c) \/ TurnEnd(c)
         \/ SavePoint(c) \/ Refresh(c) \/ Refreshed(c)
         \/ Summarised(c) \/ Move(c) \/ Summary(c)
  PROVE  BusyInv'
<1>1. /\ overlapped' = overlapped /\ phase' = phase
      /\ pc[c] \in {"prepare", "prepared", "announce", "hook", "emit", "appending", "steer",
                    "drained", "request", "turnEnd", "savePoint", "flush", "refreshed",
                    "compacting", "navigating", "summarised"}
      /\ pc[c] = "flush" => call[c].then # "closed"
  BY DEF Prepare, TakeNextTurn, Announce, StartRun, Emit, Save, Poll, Drained, Reply, TurnEnd,
         SavePoint, Refresh, Refreshed, Summarised, Move, Summary, FlushedAll,
         control, bounds, history
<1>2. Working(c) /\ call[c] \in CallRecords /\ call = [call EXCEPT ![c] = call[c]]
  BY <1>1 DEF Working, IInv, TypeInv
<1>3. \E p, r : /\ pc' = [pc EXCEPT ![c] = p] /\ call' = [call EXCEPT ![c] = r]
                /\ r.failing = call[c].failing
  <2> DEFINE Good(p, r) == /\ pc' = [pc EXCEPT ![c] = p] /\ call' = [call EXCEPT ![c] = r]
                           /\ r.failing = call[c].failing
  <2>1. CASE Prepare(c)
    <3> DEFINE r == [call[c] EXCEPT !.context = branch]
    <3>1. Good("prepared", r)
      BY <1>2, <2>1 DEF Prepare, Goto, CallRecords
    <3>q. QED
      BY <3>1
  <2>2. CASE TakeNextTurn(c)
    <3> DEFINE r == [call[c] EXCEPT !.todo = queue["nextTurn"] + 1, !.then = "steer"]
    <3>1. Good(IF queue["nextTurn"] > 0 THEN "announce" ELSE "hook", r)
      BY <1>2, <2>2 DEF TakeNextTurn, Goto, CallRecords
    <3>q. QED
      BY <3>1
  <2>3. CASE Announce(c)
    <3>1. Good("hook", call[c])
      BY <1>2, <2>3 DEF Announce, Goto
    <3>q. QED
      BY <3>1
  <2>4. CASE StartRun(c)
    <3>1. Good("emit", call[c])
      BY <1>2, <2>4 DEF StartRun, Goto
    <3>q. QED
      BY <3>1
  <2>5. CASE Emit(c)
    <3> DEFINE r == [call[c] EXCEPT !.at = branch, !.write = 0]
    <3>1. Good("appending", r)
      BY <1>2, <2>5 DEF Emit, Begin, Goto, CallRecords
    <3>q. QED
      BY <3>1
  <2>6. CASE Save(c)
    <3> DEFINE r == [call[c] EXCEPT !.todo = @ - 1, !.at = <<>>,
                                    !.context = IF call[c].then = "turnEnd" THEN <<>>
                                                ELSE Append(@, Len(log) + 1)]
    <3>1. PICK place : place = IF call[c].todo = 1 THEN call[c].then ELSE "emit"
      OBVIOUS
    <3>2. Good(place, r)
      BY <1>2, <2>6, <3>1 DEF Save, Goto, CallRecords
    <3> HIDE DEF r
    <3>q. QED
      BY <3>2
  <2>7. CASE Poll(c)
    <3>1. ASSUME NEW kind, Take(c, kind) PROVE \E p, r : Good(p, r)
      <4>1. PICK n : call' = [call EXCEPT ![c].todo = n, ![c].then = "request", ![c].from = kind]
        BY <3>1 DEF Take
      <4> DEFINE r == [call[c] EXCEPT !.todo = n, !.then = "request", !.from = kind]
      <4>2. Good("drained", r)
        BY <1>2, <3>1, <4>1 DEF Take, Goto, CallRecords
      <4>q. QED
        BY <4>2
    <3>2. CASE Goto(c, "request") /\ UNCHANGED <<queue, call>>
      <4>1. Good("request", call[c])
        BY <1>2, <3>2 DEF Goto
      <4>q. QED
        BY <4>1
    <3>3. CASE call' = [call EXCEPT ![c].then = "ended"] /\ Goto(c, "flush")
      <4> DEFINE r == [call[c] EXCEPT !.then = "ended"]
      <4>1. Good("flush", r)
        BY <1>2, <3>3 DEF Goto, CallRecords
      <4>q. QED
        BY <4>1
    <3>q. QED
      BY <2>7, <3>1, <3>2, <3>3 DEF Poll
  <2>8. CASE Drained(c)
    <3> DEFINE r == [call[c] EXCEPT !.from = "none"]
    <3>1. Good("emit", r)
      BY <1>2, <2>8 DEF Drained, Goto, CallRecords
    <3>q. QED
      BY <3>1
  <2>9. CASE Reply(c)
    <3>1. PICK reply : call' = [call EXCEPT ![c].reply = reply, ![c].then = "turnEnd",
                                  ![c].todo = IF reply = "tools" THEN 2 ELSE 1,
                                  ![c].context = <<>>]
      BY <2>9 DEF Reply
    <3> DEFINE r == [call[c] EXCEPT !.reply = reply, !.then = "turnEnd",
                                    !.todo = IF reply = "tools" THEN 2 ELSE 1, !.context = <<>>]
    <3>a. r.failing = call[c].failing
      BY <1>2 DEF CallRecords
    <3>b. pc' = [pc EXCEPT ![c] = "emit"]
      BY <2>9 DEF Reply, Goto
    <3>2. Good("emit", r)
      BY <3>1, <3>a, <3>b
    <3>q. QED
      BY <3>2
  <2>10. CASE TurnEnd(c)
    <3> DEFINE r1 == [call[c] EXCEPT !.then = "saved"]
               r2 == [call[c] EXCEPT !.then = "saved", !.hurt = TRUE]
    <3>1. Good("flush", r1) \/ Good("flush", r2)
      BY <1>2, <2>10 DEF TurnEnd, Goto, CallRecords
    <3>q. QED
      BY <3>1
  <2>11. CASE SavePoint(c)
    <3> DEFINE r == [call[c] EXCEPT !.then = IF call[c].reply = "failed" THEN "ended"
                                             ELSE "refresh"]
    <3>1. Good("flush", r)
      BY <1>2, <2>11 DEF SavePoint, Goto, CallRecords
    <3>q. QED
      BY <3>1
  <2>12. CASE Refresh(c)
    <3> DEFINE r == [call[c] EXCEPT !.context = branch]
    <3>1. Good("refreshed", r)
      BY <1>2, <2>12 DEF Refresh, Goto, CallRecords
    <3>q. QED
      BY <3>1
  <2>13. CASE Refreshed(c)
    <3>1. Good("steer", call[c])
      BY <1>2, <2>13 DEF Refreshed, Goto
    <3>q. QED
      BY <3>1
  <2>14. CASE Summarised(c)
    <3> DEFINE r == [call[c] EXCEPT !.at = branch, !.write = 0]
    <3>1. Good("summarised", r)
      BY <1>2, <2>14 DEF Summarised, Begin, Goto, CallRecords
    <3>q. QED
      BY <3>1
  <2>15. CASE Move(c)
    <3>1. PICK path : call' = [call EXCEPT ![c].at = path, ![c].write = 0]
      BY <2>15 DEF Move
    <3>2. PICK place : Goto(c, place)
      BY <2>15 DEF Move
    <3> DEFINE r == [call[c] EXCEPT !.at = path, !.write = 0]
    <3>3. Good(place, r)
      BY <1>2, <3>1, <3>2 DEF Goto, CallRecords
    <3>q. QED
      BY <3>3
  <2>16. CASE Summary(c)
    <3>1. Good("reorganised", call[c])
      BY <1>2, <2>16 DEF Summary, Goto
    <3>q. QED
      BY <3>1
  <2>q. QED
    BY <2>1, <2>2, <2>3, <2>4, <2>5, <2>6, <2>7, <2>8, <2>9, <2>10, <2>11, <2>12, <2>13, <2>14,
       <2>15, <2>16
<1>4. PICK p, r : /\ pc' = [pc EXCEPT ![c] = p] /\ call' = [call EXCEPT ![c] = r]
                  /\ r.failing = call[c].failing
  BY <1>3
<1>5. pc[c] \notin {"writing", "ending"} /\ (pc[c] \in {"flush",
       "flushing"} => call[c].then # "closed")
  BY <1>1
<1>q. QED
  BY <1>1, <1>2, <1>4, <1>5, RunsBusy

(* The flushes, and what follows agent_end.                                 *)
LEMMA FlushesBusy ==
  ASSUME IInv, BusyInv, NEW c \in Callers,
         Flush(c) \/ Flushed(c) \/ Saved(c) \/ AgentEnd(c) \/ Settled(c)
  PROVE  BusyInv'
<1>1. /\ overlapped' = overlapped
      /\ pc[c] \in {"flush", "flushing", "ending"}
  BY DEF Flush, Flushed, Saved, AgentEnd, Settled, FlushedAll, control, bounds, history
<1>2. Working(c) /\ call[c] \in CallRecords /\ call = [call EXCEPT ![c] = call[c]]
  BY <1>1 DEF Working, IInv, TypeInv
<1>3. CASE Flush(c)
  <2> DEFINE r == [call[c] EXCEPT !.at = branch, !.write = Head(pendingSessionWrites)]
  <2>1. /\ pc' = [pc EXCEPT ![c] = "flushing"] /\ call' = [call EXCEPT ![c] = r]
        /\ phase' = phase /\ pc[c] = "flush"
    BY <1>2, <1>3 DEF Flush, Begin, Goto, control
  <2>2. r.failing = call[c].failing /\ r.then = call[c].then
    BY <1>2 DEF CallRecords
  <2> HIDE DEF r
  <2>3. Late(pc[c], call[c]) => Late("flushing", r)
    BY <2>1, <2>2 DEF Late
  <2>q. QED
    BY <1>1, <1>2, <2>1, <2>3, GoesBusy
<1>4. CASE Flushed(c)
  <2> DEFINE r == [call[c] EXCEPT !.at = <<>>, !.write = 0]
  <2>1. /\ pc' = [pc EXCEPT ![c] = "flush"] /\ call' = [call EXCEPT ![c] = r]
        /\ phase' = phase /\ pc[c] = "flushing"
    BY <1>2, <1>4 DEF Flushed, Goto, control
  <2>2. r.failing = call[c].failing /\ r.then = call[c].then
    BY <1>2 DEF CallRecords
  <2> HIDE DEF r
  <2>3. Late(pc[c], call[c]) => Late("flush", r)
    BY <2>1, <2>2 DEF Late
  <2>q. QED
    BY <1>1, <1>2, <2>1, <2>3, GoesBusy
<1>5. CASE Saved(c)
  <2>1. pc[c] = "flush" /\ call[c].then = "saved" /\ phase' = phase
    BY <1>5 DEF Saved, FlushedAll, control
  <2>2. CASE Throws(c)
    BY <1>1, <1>2, <2>2, ThrowsBusy
  <2>3. CASE Goto(c, "savePoint") /\ UNCHANGED call
    <3>1. pc' = [pc EXCEPT ![c] = "savePoint"] /\ call' = [call EXCEPT ![c] = call[c]]
      BY <1>2, <2>3 DEF Goto
    <3>q. QED
      BY <1>1, <1>2, <2>1, <3>1, RunsBusy
  <2>q. QED
    BY <1>5, <2>2, <2>3 DEF Saved
<1>6. CASE AgentEnd(c)
  <2>1. pc' = [pc EXCEPT ![c] = "ending"] /\ call' = [call EXCEPT ![c] = call[c]]
    BY <1>2, <1>6 DEF AgentEnd, Goto
  <2>2. Late("ending", call[c])
    BY DEF Late
  <2>q. QED
    BY <1>1, <1>2, <2>1, <2>2, GoesBusy
<1>7. CASE Settled(c)
  <2> DEFINE r == [NoCall EXCEPT !.then = "closed"]
  <2>1. pc' = [pc EXCEPT ![c] = "flush"] /\ call' = [call EXCEPT ![c] = r]
    BY <1>7 DEF Settled, Goto
  <2>2. r.then = "closed"
    BY DEF NoCall
  <2> HIDE DEF r
  <2>3. Late("flush", r)
    BY <2>2 DEF Late
  <2>q. QED
    BY <1>1, <1>2, <2>1, <2>3, GoesBusy
<1>q. QED
  BY <1>3, <1>4, <1>5, <1>6, <1>7

(* What ends a call, or makes it fail.                                      *)
LEMMA EndsBusy ==
  ASSUME IInv, BusyInv, NEW c \in Callers,
         \/ StartFails(c) \/ SubscriberThrows(c) \/ SaveBreaks(c) \/ DrainFails(c)
         \/ FlushBreaks(c) \/ Close(c) \/ EndWrite(c) \/ EndReorganise(c)
  PROVE  BusyInv'
<1>1. pc \in [Callers -> Places]
  BY DEF IInv, TypeInv
<1>2. /\ overlapped' = overlapped /\ Working(c)
  BY DEF StartFails, SubscriberThrows, SaveBreaks, DrainFails, FlushBreaks, Close, EndWrite,
         EndReorganise, FlushedAll, Breaks, FailsToStart, bounds, history, Working
<1>3. CASE Throws(c)
  BY <1>2, <1>3, ThrowsBusy
<1>4. CASE Finish(c)
  <2>1. pc'[c] = "idle" /\ \A d \in Callers \ {c} : pc'[d] \in {pc[d], "idle"}
    BY <1>4 DEF Finish
  <2>q. QED
    BY <1>2, <2>1, StaysBusy
<1>5. CASE Goto(c, "idle")
  <2>1. pc'[c] = "idle" /\ \A d \in Callers \ {c} : pc'[d] \in {pc[d], "idle"}
    BY <1>1, <1>5 DEF Goto
  <2>q. QED
    BY <1>2, <2>1, StaysBusy
<1>6. Throws(c) \/ Finish(c) \/ Goto(c, "idle")
  BY DEF StartFails, SubscriberThrows, SaveBreaks, DrainFails, FlushBreaks, Close, EndWrite,
         EndReorganise, FailsToStart, Closes
<1>q. QED
  BY <1>3, <1>4, <1>5, <1>6

(* What begins: a call that needs an idle harness makes it busy, or writes. *)
LEMMA BeginsBusy ==
  ASSUME IInv, BusyInv, NEW c \in Callers, Accepted(c),
         Prompt(c) \/ Compact(c) \/ NavigateTree(c) \/ Write(c)
  PROVE  BusyInv'
<1>1. CASE overlapped'
  BY <1>1 DEF BusyInv
<1>2. CASE ~overlapped'
  <2>1. \A d \in Callers \ {c} : ~Working(d)
    BY <1>2 DEF Accepted, Working
  <2>2. /\ \A d \in Callers \ {c} : pc'[d] = pc[d]
        /\ pc'[c] = "writing" \/ phase' # "idle"
    BY DEF Prompt, Compact, NavigateTree, Reorganise, Write, Goto, IInv, TypeInv
  <2>3. \A d \in Callers \ {c} : ~Working(d)'
    BY <2>1, <2>2 DEF Working
  <2>q. QED
    BY <2>2, <2>3 DEF BusyInv, Late
<1>q. QED
  BY <1>1, <1>2

(* Others.                                                                  *)
LEMMA OthersBusy ==
  ASSUME IInv, BusyInv,
         \/ \E c \in Callers : Abort(c) \/ AwaitIdle(c)
         \/ Defer \/ (\E kind \in Kinds : Queue(kind)) \/ UNCHANGED vars
  PROVE  BusyInv'
<1>1. overlapped' = overlapped /\ phase' = phase
  BY DEF Abort, AwaitIdle, Defer, Queue, vars, control, bounds, history
<1>2. ASSUME NEW d \in Callers, Working(d)'
      PROVE  Working(d) /\ pc'[d] = pc[d] /\ call'[d].failing = call[d].failing
                        /\ call'[d].then = call[d].then
  <2>0. pc \in [Callers -> Places] /\ call \in [Callers -> CallRecords] /\ call[d] \in CallRecords
    BY DEF IInv, TypeInv
  <2>1. ASSUME NEW c \in Callers, Abort(c)
        PROVE  Working(d) /\ pc'[d] = pc[d] /\ call'[d].failing = call[d].failing
                          /\ call'[d].then = call[d].then
    <3>1. pc' = [pc EXCEPT ![c] = "abort"]
          /\ call'[d] = [call[d] EXCEPT !.from = "none", !.aborted = @ \/ d = runAbortController]
      BY <2>1 DEF Abort, Goto
    <3>2. d # c /\ pc'[d] = pc[d] /\ Working(d)
      BY <1>2, <2>0, <3>1 DEF Working
    <3>3. call'[d].failing = call[d].failing /\ call'[d].then = call[d].then
      BY <2>0, <3>1 DEF CallRecords
    <3>q. QED
      BY <3>2, <3>3
  <2>2. ASSUME NEW c \in Callers, AwaitIdle(c)
        PROVE  Working(d) /\ pc'[d] = pc[d] /\ call'[d] = call[d]
    <3>1. d # c
      BY <1>2, <2>0, <2>2 DEF AwaitIdle, Goto, Working
    <3>2. pc'[d] = pc[d] /\ call'[d] = call[d]
      BY <2>0, <2>2, <3>1 DEF AwaitIdle, Goto
    <3>q. QED
      BY <1>2, <3>2 DEF Working
  <2>3. CASE Defer \/ (\E kind \in Kinds : Queue(kind)) \/ UNCHANGED vars
    <3>1. pc' = pc /\ call' = call
      BY <2>3 DEF Defer, Queue, vars
    <3>q. QED
      BY <1>2, <3>1 DEF Working
  <2>q. QED
    BY <2>1, <2>2, <2>3
<1>3. \A d \in Callers : Working(d)' /\ phase' = "idle" /\ ~overlapped' => Late(pc'[d], call'[d])
  BY <1>1, <1>2 DEF BusyInv, Late
<1>q. QED
  BY <1>3 DEF BusyInv

LEMMA NextBusy == IInv /\ BusyInv /\ [Next]_vars => BusyInv'
<1> SUFFICES ASSUME IInv, BusyInv, [Next]_vars PROVE BusyInv'
  OBVIOUS
<1>1. ASSUME NEW c \in Callers, Step(c) PROVE BusyInv'
  BY <1>1, WorkingSteps, FlushesBusy, EndsBusy, OthersBusy DEF Step
<1>2. ASSUME NEW c \in Callers, Prompt(c) \/ Write(c) \/ Compact(c) \/ NavigateTree(c)
      PROVE  BusyInv'
  <2>1. Accepted(c)
    BY <1>2 DEF Prompt, Write, Compact, NavigateTree, Reorganise
  <2>q. QED
    BY <1>2, <2>1, BeginsBusy
<1>3. ASSUME NEW c \in Callers, Abort(c) PROVE BusyInv'
  BY <1>3, OthersBusy
<1>4. ASSUME NEW c \in Callers,
             \/ StartFails(c) \/ SubscriberThrows(c) \/ SaveBreaks(c) \/ DrainFails(c)
             \/ FlushBreaks(c)
      PROVE  BusyInv'
  BY <1>4, EndsBusy
<1>5. CASE Defer \/ (\E kind \in Kinds : Queue(kind)) \/ UNCHANGED vars
  BY <1>5, OthersBusy
<1>q. QED
  BY <1>1, <1>2, <1>3, <1>4, <1>5 DEF Next

(* Calls overlap for the first time only when one is accepted during a      *)
(* write, in a run that has told its subscribers it is over, or in one that *)
(* reports a failure: at any other time of a call the phase keeps others    *)
(* out (the checks for "idle" in prompt, compact, navigateTree and the      *)
(* session writes).                                                         *)
OverlapsAreLate ==
  [][overlapped' /\ ~overlapped => \E c \in Callers : Working(c) /\ Late(pc[c], call[c])]_vars

(* The first overlap of calls on a harness is with a call that is late.      *)
THEOREM FirstOverlapIsLate == Spec => OverlapsAreLate
<1>1. Init => BusyInv
  BY DEF Init, BusyInv, Working
<1>2. ASSUME IInv, BusyInv, [Next]_vars, overlapped', ~overlapped
      PROVE  \E c \in Callers : Working(c) /\ Late(pc[c], call[c])
  <2>1. ASSUME NEW c \in Callers, Step(c) PROVE overlapped' = overlapped
    BY <2>1 DEF Step, Prepare, TakeNextTurn, Announce, StartRun, Emit, Save, Poll, Drained, Reply,
                TurnEnd, Flush, Flushed, Saved, SavePoint, Refresh, Refreshed, AgentEnd, Settled,
                Close, EndWrite, Summarised, Move, Summary, EndReorganise, AwaitIdle, history
  <2>2. ASSUME NEW c \in Callers,
               \/ StartFails(c) \/ SubscriberThrows(c) \/ SaveBreaks(c) \/ DrainFails(c)
               \/ FlushBreaks(c) \/ Abort(c)
        PROVE  overlapped' = overlapped
    BY <2>2 DEF StartFails, FailsToStart, SubscriberThrows, SaveBreaks, DrainFails, FlushBreaks,
                Abort, history
  <2>3. Defer \/ (\E kind \in Kinds : Queue(kind)) \/ UNCHANGED vars => overlapped' = overlapped
    BY DEF Defer, Queue, vars, history
  <2>4. \E c \in Callers : Accepted(c)
    <3>1. \E c \in Callers : Prompt(c) \/ Write(c) \/ Compact(c) \/ NavigateTree(c)
      BY <1>2, <2>1, <2>2, <2>3 DEF Next
    <3>q. QED
      BY <3>1 DEF Prompt, Write, Compact, NavigateTree, Reorganise
  <2>5. phase = "idle" /\ \E d \in Callers : Working(d)
    BY <1>2, <2>4 DEF Accepted
  <2>q. QED
    BY <1>2, <2>5 DEF BusyInv
<1>3. IInv /\ BusyInv /\ [Next]_vars =>
        (overlapped' /\ ~overlapped => \E c \in Callers : Working(c) /\ Late(pc[c], call[c]))
  BY <1>2
<1>q. QED
  BY <1>1, <1>3, NextBusy, Invariance, PTL DEF Spec, OverlapsAreLate

===============================================================================
