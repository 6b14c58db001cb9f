------------------------ MODULE ServerSupervisorProofs ------------------------
(***************************************************************************)
(* Proofs about ServerSupervisor, for any number of instances, clients,    *)
(* requests and failures.                                                  *)
(***************************************************************************)
EXTENDS ServerSupervisor, TLAPS

Statuses == {"none", "starting", "online", "stopping", "stopped", "error"}
SpawnPlaces ==
  {"none", "get_state", "register", "disconnect", "disconnectOnly", "dispose", "ended"}
FileRecords == [status : Statuses \union {"absent"}, pi : Nat]
Records ==
  [live : BOOLEAN, status : Statuses, pi : Nat, rpc : BOOLEAN, radiusPiId : Nat, bound : BOOLEAN,
   child : {"none", "running", "killed", "dead"}, file : FileRecords, spawn : SpawnPlaces,
   exit : BOOLEAN, beat : Nat, misses : 0..Threshold, sent : BOOLEAN, late : 0..Threshold,
   forgotten : BOOLEAN,
   recall : Statuses \union {"no"}, pis : Nat]
Clients == Callers \union {Shutdown}
CallRecords ==
  [kind : {"none", "stop", "rpc"}, inst : Instances \union {None},
   at : {"none", "disconnect", "dispose", "command", "get_state"}, rpc : BOOLEAN]

MachineType ==
  /\ machine \in [todo : SUBSET Instances, at : Instances \union {None},
                  status : Statuses \union {"no"}]
  /\ machine.at # None => machine.status \in Statuses

TypeInv ==
  /\ inst \in [Instances -> Records] /\ call \in [Clients -> CallRecords]
  /\ server \in {"up", "recovering", "closing", "disconnecting", "stuck", "down"}
  /\ recovery.files \in [Instances -> FileRecords]
  /\ MachineType

Active(s) == s.status \in {"online", "starting"}

(* What holds of any record: what lives was spawned, an exit is handled for *)
(* a dead child only, a failed spawn that has no process leaves it to others *)
(* to dispose of it, and a child runs only with a process to dispose of.    *)
Owned(s) ==
  /\ s.live => s.spawn # "none"
  /\ s.exit => s.child = "dead"
  /\ s.spawn = "disconnectOnly" => ~s.rpc
  /\ s.child = "running" => s.rpc

(* The end of a shutdown has stopped all heartbeats.                        *)
Quiet == server \in {"disconnecting", "stuck"}

(* What holds of the record of an instance no registration overtook.        *)
Sound(s) ==
  /\ Active(s) =>
       s.live /\ s.child = "running" /\ s.bound /\ s.rpc /\ ~s.exit /\ s.radiusPiId = s.pi
  /\ s.status = "online" =>
       s.pi # 0 /\ (s.beat = s.pi \/ (s.beat = 0 /\ Quiet)) /\ s.spawn = "ended"
  /\ s.status = "starting" => s.pi = 0 /\ s.spawn \in {"get_state", "register"}
  /\ s.beat # 0 => s.status = "online"

SoundInv == \A i \in Instances : Owned(inst[i]) /\ (i \notin raced => Sound(inst[i]))

(* A call under way has an instance that was spawned; a stop without a      *)
(* process to dispose of found none, and an instance that is being stopped  *)
(* is active only if a registration overtook the stop.                      *)
CallInv ==
  \A c \in Clients : call[c] # NoCall =>
    /\ call[c].inst \in Instances /\ inst[call[c].inst].spawn # "none"
    /\ call[c].kind = "stop" =>
         /\ Stopping(c, "disconnect") /\ ~call[c].rpc => ~inst[call[c].inst].rpc
         /\ call[c].inst \notin raced => ~Active(inst[call[c].inst])
    /\ c = Shutdown => server = "closing"

(* Somebody waits for the child of i to end.                                *)
Awaited(i) ==
  \/ inst[i].spawn = "dispose"
  \/ \E c \in Clients : Stopping(c, "dispose") /\ call[c].inst = i

(* A child that has not ended belongs to a live instance or to somebody who *)
(* waits for its end, unless a disconnection failed.                        *)
ChildInv ==
  \A i \in Instances : inst[i].child \in {"running", "killed"} =>
    /\ ~inst[i].rpc => Awaited(i)
    /\ ~inst[i].live /\ i \notin refused => ~inst[i].rpc

(* The file says online or starting only of what is, once the recovery is   *)
(* over, and lists what lives.                                              *)
FileInv ==
  /\ \A i \in Instances : recovery.files[i].status \notin {"online", "starting"}
  /\ \A i \in Instances \ raced :
       /\ inst[i].file.status \in {"online", "starting"} =>
            inst[i].status = inst[i].file.status \/ server \in {"down", "recovering"}
       /\ inst[i].live /\ i \notin dropped =>
            /\ inst[i].file.status # "absent"
            /\ inst[i].status = "online" => inst[i].file.pi = inst[i].pi

IInv == TypeInv /\ SoundInv /\ CallInv /\ ChildInv /\ FileInv

------------------------------------------------------------------------------
(* What the parts of the code make of a record.                             *)

(* Saving a record, a new status, and the end of the heartbeats.            *)
LEMMA SetStatusIs ==
  ASSUME NEW s \in Records, NEW status \in Statuses
  PROVE  LET t == SetStatus(s, status)
         IN /\ t \in Records /\ t.status = status /\ t.file.status = status /\ t.file.pi = s.pi
            /\ t.live = s.live /\ t.pi = s.pi /\ t.rpc = s.rpc /\ t.radiusPiId = s.radiusPiId
            /\ t.bound = s.bound /\ t.child = s.child /\ t.spawn = s.spawn /\ t.exit = s.exit
            /\ t.beat = s.beat
  BY DEF SetStatus, Upsert, Records, FileRecords

(* A killed child, and a process that is disposed of.                       *)
LEMMA KillIs ==
  ASSUME NEW s \in Records
  PROVE  LET t == Kill(s)
         IN /\ t \in Records /\ ~t.rpc
            /\ t.child = (IF s.child = "running" THEN "killed" ELSE s.child)
            /\ t.status = s.status /\ t.file = s.file
            /\ t.live = s.live /\ t.pi = s.pi /\ t.radiusPiId = s.radiusPiId
            /\ t.bound = s.bound /\ t.spawn = s.spawn /\ t.exit = s.exit
            /\ t.beat = s.beat
  BY DEF Kill, Records

(* No more heartbeats.                                                      *)
LEMMA SilentIs ==
  ASSUME NEW s \in Records
  PROVE  LET t == Silent(s)
         IN /\ t \in Records /\ t.beat = 0
            /\ t.status = s.status /\ t.file = s.file /\ t.rpc = s.rpc
            /\ t.live = s.live /\ t.pi = s.pi /\ t.radiusPiId = s.radiusPiId
            /\ t.bound = s.bound /\ t.child = s.child /\ t.spawn = s.spawn /\ t.exit = s.exit
<1>1. 0 \in 0..Threshold /\ Missed(s.misses) \in 0..Threshold
  BY BoundAssumption DEF Missed, Records
<1> HIDE DEF Missed
<1>2. Silent(s) \in Records
  BY <1>1 DEF Silent, Records
<1>q. QED
  BY <1>2 DEF Silent, Records

(* The exit of the child is no longer listened for.                         *)
LEMMA UnboundIs ==
  ASSUME NEW s \in Records
  PROVE  LET t == Unbound(s)
         IN /\ t \in Records /\ t.beat = s.beat
            /\ t.status = s.status /\ t.file = s.file /\ t.rpc = s.rpc
            /\ t.live = s.live /\ t.pi = s.pi /\ t.radiusPiId = s.radiusPiId
            /\ t.child = s.child /\ t.spawn = s.spawn /\ t.exit = s.exit
  BY DEF Unbound, Records

(* A spawn that fails ends, or has a disconnection or a child to wait for.  *)
LEMMA SpawnEndsIs ==
  ASSUME NEW s \in Records
  PROVE  LET t == SpawnEnds(s)
         IN /\ t \in Records /\ t.status = "stopped" /\ t.file.status = "stopped"
            /\ ~t.live /\ t.spawn = "ended"
            /\ t.beat = s.beat /\ t.rpc = s.rpc /\ t.child = s.child /\ t.exit = s.exit
<1> DEFINE e == SetStatus(s, "stopped")
<1>1. /\ e \in Records /\ e.status = "stopped" /\ e.file.status = "stopped"
      /\ e.beat = s.beat /\ e.rpc = s.rpc /\ e.child = s.child /\ e.exit = s.exit
  BY SetStatusIs DEF Statuses
<1>2. SpawnEnds(s) = [e EXCEPT !.live = FALSE, !.spawn = "ended"]
  BY DEF SpawnEnds
<1> HIDE DEF e
<1>3. "ended" \in SpawnPlaces
  BY DEF SpawnPlaces
<1>4. [e EXCEPT !.live = FALSE, !.spawn = "ended"] \in Records
  BY <1>1, <1>3 DEF Records
<1>q. QED
  BY <1>1, <1>2, <1>4 DEF Records

(* failSpawn, up to its first await: a disconnection, the end of the child, *)
(* or the end.                                                              *)
LEMMA SpawnFailsIs ==
  ASSUME NEW s \in Records
  PROVE  LET t == SpawnFails(s)
         IN /\ t \in Records /\ ~Active(t) /\ t.file.status = t.status
            /\ s.beat = 0 \/ s.radiusPiId # 0 => t.beat = 0
            /\ t.exit = s.exit
            /\ \/ /\ t.child = s.child /\ t.rpc = s.rpc /\ t.live = s.live
                  /\ t.spawn = IF s.rpc THEN "disconnect" ELSE "disconnectOnly"
               \/ /\ s.rpc /\ ~t.rpc /\ t.live = s.live /\ t.spawn = "dispose"
                  /\ t.child = (IF s.child = "running" THEN "killed" ELSE s.child)
               \/ ~s.rpc /\ ~t.rpc /\ t.child = s.child /\ ~t.live /\ t.spawn = "ended"
<1> DEFINE e == Unbound(SetStatus(s, "error"))
<1>1. /\ e \in Records /\ e.status = "error" /\ e.file.status = "error" /\ e.beat = s.beat
      /\ e.rpc = s.rpc /\ e.live = s.live /\ e.radiusPiId = s.radiusPiId /\ e.child = s.child
      /\ e.exit = s.exit
  BY SetStatusIs, UnboundIs DEF Statuses
<1> HIDE DEF e
<1>2. CASE e.radiusPiId # 0
  <2>1. SpawnFails(s) =
          [Silent(e) EXCEPT !.spawn = IF e.rpc THEN "disconnect" ELSE "disconnectOnly"]
    BY <1>2 DEF SpawnFails, e
  <2>q. QED
    BY <1>1, <2>1, SilentIs DEF Records, SpawnPlaces, Active
<1>3. CASE e.radiusPiId = 0 /\ e.rpc
  <2>1. SpawnFails(s) = [Kill(e) EXCEPT !.spawn = "dispose"]
    BY <1>3 DEF SpawnFails, e
  <2>q. QED
    BY <1>1, <1>3, <2>1, KillIs DEF Records, SpawnPlaces, Active
<1>4. CASE e.radiusPiId = 0 /\ ~e.rpc
  <2>1. SpawnFails(s) = SpawnEnds(e)
    BY <1>4 DEF SpawnFails, e
  <2>q. QED
    BY <1>1, <1>4, <2>1, SpawnEndsIs DEF Active
<1>q. QED
  BY <1>2, <1>3, <1>4 DEF Records

(* dispose(), also of a child whose answer the spawn awaits.                *)
LEMMA DisposeIs ==
  ASSUME NEW s \in Records
  PROVE  LET t == Dispose(s)
         IN /\ t \in Records /\ ~t.rpc
            /\ t.child = (IF s.child = "running" THEN "killed" ELSE s.child)
            /\ t.exit = s.exit /\ (s.spawn # "none" => t.spawn # "none")
            /\ s.spawn = "dispose" => t.spawn = "dispose"
            /\ \/ /\ t.live = s.live /\ t.status = s.status /\ t.file = s.file /\ t.pi = s.pi
                  /\ t.radiusPiId = s.radiusPiId /\ t.beat = s.beat
               \/ /\ ~Active(t) /\ t.file.status = t.status
                  /\ s.beat = 0 \/ s.radiusPiId # 0 => t.beat = 0
<1> DEFINE k == Kill(s)
<1>1. /\ k \in Records /\ ~k.rpc /\ k.child = (IF s.child = "running" THEN "killed" ELSE s.child)
      /\ k.live = s.live /\ k.status = s.status /\ k.file = s.file /\ k.pi = s.pi
      /\ k.radiusPiId = s.radiusPiId /\ k.beat = s.beat /\ k.exit = s.exit /\ k.spawn = s.spawn
  BY KillIs
<1>2. Dispose(s) = IF k.spawn = "get_state" THEN SpawnFails(k) ELSE k
  BY DEF Dispose
<1> HIDE DEF k
<1>3. CASE k.spawn = "get_state"
  <2> DEFINE t == SpawnFails(k)
  <2>1. /\ t \in Records /\ ~Active(t) /\ t.file.status = t.status /\ t.exit = k.exit
        /\ k.beat = 0 \/ k.radiusPiId # 0 => t.beat = 0
        /\ t.child = k.child /\ ~t.rpc /\ t.spawn # "none"
    BY <1>1, SpawnFailsIs
  <2> HIDE DEF t
  <2>q. QED
    BY <1>1, <1>2, <1>3, <2>1 DEF t
<1>4. CASE k.spawn # "get_state"
  BY <1>1, <1>2, <1>4
<1>q. QED
  BY <1>3, <1>4

(* The exit of a child, seen by its handler and by what waits for it.       *)
LEMMA ExitedIs ==
  ASSUME NEW s \in Records
  PROVE  LET t == Exited(s)
         IN /\ t \in Records /\ t.child = "dead"
            /\ ~s.rpc => ~t.rpc
            /\ s.spawn = "disconnectOnly" => t.spawn = s.spawn
            /\ t.spawn = "disconnectOnly" => ~t.rpc \/ s.spawn = "disconnectOnly"
            /\ s.spawn # "none" => t.spawn # "none"
            /\ \/ /\ t.live = s.live /\ t.status = s.status /\ t.file = s.file /\ t.pi = s.pi
                  /\ t.radiusPiId = s.radiusPiId /\ t.beat = s.beat
                  /\ ~s.bound \/ ~s.live \/ s.status \in {"stopping", "stopped"}
               \/ /\ ~Active(t) /\ t.file.status = t.status
                  /\ s.beat = 0 \/ s.radiusPiId # 0 => t.beat = 0
                  /\ s.live \/ s.spawn = "get_state"
<1> DEFINE d == [s EXCEPT !.child = "dead"]
           h == HandleExit(d)
<1>1. /\ d \in Records /\ d.child = "dead" /\ d.rpc = s.rpc /\ d.spawn = s.spawn
      /\ d.live = s.live /\ d.status = s.status /\ d.file = s.file /\ d.pi = s.pi
      /\ d.radiusPiId = s.radiusPiId /\ d.beat = s.beat /\ d.bound = s.bound
  BY DEF Records
<1>2. Exited(s) = IF h.spawn = "get_state" THEN SpawnFails(h) ELSE h
  BY DEF Exited
<1> HIDE DEF d
<1>3. /\ h \in Records /\ h.child = "dead" /\ h.spawn = s.spawn /\ (~s.rpc => ~h.rpc)
      /\ \/ /\ h = d
            /\ ~s.bound \/ ~s.live \/ s.status \in {"stopping", "stopped"}
         \/ /\ h.status = "error" /\ h.file.status = "error" /\ ~h.rpc /\ s.live
            /\ s.beat = 0 \/ s.radiusPiId # 0 => h.beat = 0
  <2>1. CASE ~d.bound \/ ~d.live \/ d.status \in {"stopping", "stopped"}
    BY <1>1, <2>1 DEF HandleExit
  <2>2. CASE ~(~d.bound \/ ~d.live \/ d.status \in {"stopping", "stopped"})
    <3>0. s.live
      BY <1>1, <2>2
    <3> DEFINE e == [Unbound(SetStatus(d, "error")) EXCEPT !.rpc = FALSE]
    <3>1. h = IF e.radiusPiId # 0 THEN [Silent(e) EXCEPT !.exit = TRUE] ELSE [e EXCEPT !.live = FALSE]
      BY <2>2 DEF HandleExit
    <3>2. /\ e \in Records /\ e.status = "error" /\ e.file.status = "error" /\ ~e.rpc
          /\ e.beat = s.beat /\ e.radiusPiId = s.radiusPiId /\ e.spawn = s.spawn
          /\ e.child = "dead"
      <4> DEFINE u == SetStatus(d, "error")
                 v == Unbound(u)
      <4>1. /\ u \in Records /\ u.status = "error" /\ u.file.status = "error" /\ u.beat = s.beat
            /\ u.radiusPiId = s.radiusPiId /\ u.spawn = s.spawn /\ u.child = "dead"
        BY <1>1, SetStatusIs DEF Statuses
      <4> HIDE DEF u
      <4>2. /\ v \in Records /\ v.status = "error" /\ v.file.status = "error" /\ v.beat = s.beat
            /\ v.radiusPiId = s.radiusPiId /\ v.spawn = s.spawn /\ v.child = "dead"
        BY <4>1, UnboundIs
      <4>3. e = [v EXCEPT !.rpc = FALSE]
        BY DEF u
      <4> HIDE DEF v, e
      <4>q. QED
        BY <4>2, <4>3 DEF Records
    <3> HIDE DEF e
    <3>3. CASE e.radiusPiId # 0
      <4> DEFINE q == Silent(e)
      <4>1. /\ q \in Records /\ q.beat = 0 /\ q.status = "error" /\ q.file.status = "error"
            /\ ~q.rpc /\ q.spawn = s.spawn /\ q.child = "dead"
        BY <3>2, SilentIs
      <4>2. h = [q EXCEPT !.exit = TRUE]
        BY <3>1, <3>3
      <4> HIDE DEF q, h
      <4>q. QED
        BY <3>0, <4>1, <4>2 DEF Records
    <3>4. CASE e.radiusPiId = 0
      <4>1. h = [e EXCEPT !.live = FALSE]
        BY <3>1, <3>4
      <4>2. s.radiusPiId = 0 /\ (s.beat = 0 => e.beat = 0)
        BY <3>2, <3>4
      <4> HIDE DEF h
      <4>q. QED
        BY <3>0, <3>2, <4>1, <4>2 DEF Records
    <3>q. QED
      BY <3>3, <3>4
  <2>q. QED
    BY <2>1, <2>2
<1> HIDE DEF h
<1>4. CASE h.spawn = "get_state"
  <2> DEFINE t == SpawnFails(h)
  <2>1. /\ t \in Records /\ ~Active(t) /\ t.file.status = t.status
        /\ h.beat = 0 \/ h.radiusPiId # 0 => t.beat = 0
        /\ t.child = "dead" /\ (~h.rpc => ~t.rpc) /\ t.spawn # "none"
        /\ t.spawn = "disconnectOnly" => ~t.rpc
    BY <1>3, SpawnFailsIs
  <2>2. s.beat = 0 \/ s.radiusPiId # 0 => t.beat = 0
    BY <1>1, <1>3, <2>1
  <2> HIDE DEF t
  <2>q. QED
    BY <1>2, <1>3, <1>4, <2>1, <2>2 DEF t
<1>5. CASE h.spawn # "get_state"
  BY <1>1, <1>2, <1>3, <1>5 DEF Active
<1>q. QED
  BY <1>4, <1>5

(* The end of a stop, and a disconnection.                                  *)
LEMMA StopEndsIs ==
  ASSUME NEW s \in Records
  PROVE  LET t == StopEnds(s)
         IN /\ t \in Records /\ t.status = "stopped" /\ t.file.status = "absent" /\ ~t.live
            /\ t.rpc = s.rpc /\ t.child = s.child /\ t.spawn = s.spawn /\ t.exit = s.exit
            /\ t.beat = s.beat
  BY DEF StopEnds, Absent, Records, FileRecords, Statuses

(* After the disconnection the pi is forgotten.                             *)
LEMMA DisconnectedIs ==
  ASSUME NEW s \in Records
  PROVE  LET t == Disconnected(s)
         IN /\ t \in Records /\ t.radiusPiId = 0 /\ t.pi = 0
            /\ t.status = s.status /\ t.file = s.file /\ t.live = s.live /\ t.bound = s.bound
            /\ t.rpc = s.rpc /\ t.child = s.child /\ t.spawn = s.spawn /\ t.exit = s.exit
            /\ t.beat = s.beat
  BY DEF Disconnected, Records

(* A registration gives the record a pi of its own, in every place.         *)
LEMMA RegisteredIs ==
  ASSUME NEW s \in Records
  PROVE  LET t == Registered(s)
         IN /\ t \in Records /\ t.beat = s.pis + 1 /\ t.pis = s.pis + 1 /\ s.pis + 1 \in Nat \ {0}
            /\ t.status = s.status /\ t.file = s.file /\ t.live = s.live /\ t.bound = s.bound
            /\ t.rpc = s.rpc /\ t.child = s.child /\ t.spawn = s.spawn /\ t.exit = s.exit
            /\ t.radiusPiId = s.radiusPiId
<1>1. s.pis + 1 \in Nat \ {0} /\ 0 \in 0..Threshold
  BY BoundAssumption DEF Records
<1>2. Registered(s) \in Records
  BY <1>1 DEF Registered, Records
<1>q. QED
  BY <1>1, <1>2 DEF Registered, Records

(* The registration that ends a spawn.                                      *)
LEMMA SpawnRegisteredIs ==
  ASSUME NEW s \in Records
  PROVE  LET t == SpawnRegistered(s)
         IN /\ t \in Records /\ t.status = "online" /\ t.spawn = "ended"
            /\ t.pi # 0 /\ t.radiusPiId = t.pi /\ t.beat = t.pi
            /\ t.file.status = "online" /\ t.file.pi = t.pi
            /\ t.live = s.live /\ t.bound = s.bound /\ t.rpc = s.rpc /\ t.child = s.child
            /\ t.exit = s.exit
<1> DEFINE r == Registered(s)
           p == [r EXCEPT !.pi = r.pis, !.radiusPiId = r.pis]
           o == SetStatus(p, "online")
<1>1. /\ r \in Records /\ r.beat = r.pis /\ r.pis \in Nat \ {0}
      /\ r.live = s.live /\ r.bound = s.bound /\ r.rpc = s.rpc /\ r.child = s.child
      /\ r.exit = s.exit
  BY RegisteredIs
<1> HIDE DEF r
<1>2. /\ p \in Records /\ p.pi = r.pis /\ p.radiusPiId = r.pis /\ p.beat = r.pis
      /\ p.live = s.live /\ p.bound = s.bound /\ p.rpc = s.rpc /\ p.child = s.child
      /\ p.exit = s.exit
  BY <1>1 DEF Records
<1> HIDE DEF p
<1>3. /\ o \in Records /\ o.status = "online" /\ o.file.status = "online" /\ o.file.pi = r.pis
      /\ o.pi = r.pis /\ o.radiusPiId = r.pis /\ o.beat = r.pis
      /\ o.live = s.live /\ o.bound = s.bound /\ o.rpc = s.rpc /\ o.child = s.child
      /\ o.exit = s.exit
  BY <1>2, SetStatusIs DEF Statuses
<1>4. SpawnRegistered(s) = [o EXCEPT !.spawn = "ended"]
  BY DEF SpawnRegistered, p, r
<1>5. "ended" \in SpawnPlaces
  BY DEF SpawnPlaces
<1> HIDE DEF o
<1>q. QED
  BY <1>1, <1>3, <1>4, <1>5 DEF Records

(* A later registration, with the status that was sent.                     *)
LEMMA ReRegisteredIs ==
  ASSUME NEW s \in Records, NEW status \in Statuses
  PROVE  LET t == ReRegistered(s, status)
         IN /\ t \in Records /\ t.live = s.live /\ t.bound = s.bound /\ t.rpc = s.rpc
            /\ t.child = s.child /\ t.spawn = s.spawn /\ t.exit = s.exit
            /\ s.live => /\ t.status = status /\ t.file.status = status /\ t.file.pi = t.pi
                         /\ t.pi # 0 /\ t.radiusPiId = t.pi /\ t.beat = t.pi
<1> DEFINE r == [Registered(s) EXCEPT !.file = [status |-> status, pi |-> s.pis + 1]]
<1>1. /\ r \in Records /\ r.beat = r.pis /\ r.pis \in Nat \ {0} /\ r.file.status = status
      /\ r.file.pi = r.pis
      /\ r.live = s.live /\ r.bound = s.bound /\ r.rpc = s.rpc /\ r.child = s.child
      /\ r.spawn = s.spawn /\ r.exit = s.exit
  <2> DEFINE g == Registered(s)
  <2>1. /\ g \in Records /\ g.beat = g.pis /\ g.pis = s.pis + 1 /\ s.pis + 1 \in Nat \ {0}
        /\ g.live = s.live /\ g.bound = s.bound /\ g.rpc = s.rpc /\ g.child = s.child
        /\ g.spawn = s.spawn /\ g.exit = s.exit
    BY RegisteredIs
  <2>2. [status |-> status, pi |-> s.pis + 1] \in FileRecords
    BY <2>1 DEF FileRecords
  <2> HIDE DEF g
  <2>3. r = [g EXCEPT !.file = [status |-> status, pi |-> s.pis + 1]]
    BY DEF g
  <2> HIDE DEF r
  <2>q. QED
    BY <2>1, <2>2, <2>3 DEF Records
<1>2. ReRegistered(s, status) =
        IF s.live THEN [r EXCEPT !.status = status, !.pi = r.pis, !.radiusPiId = r.pis] ELSE r
  BY DEF ReRegistered
<1> HIDE DEF r
<1>3. CASE s.live
  <2> DEFINE t == [r EXCEPT !.status = status, !.pi = r.pis, !.radiusPiId = r.pis]
  <2>1. t \in Records
    BY <1>1 DEF Records
  <2>2. ReRegistered(s, status) = t
    BY <1>2, <1>3
  <2>q. QED
    BY <1>1, <2>1, <2>2 DEF Records
<1>4. CASE ~s.live
  BY <1>1, <1>2, <1>4
<1>q. QED
  BY <1>3, <1>4

------------------------------------------------------------------------------
(* The steps.                                                               *)

(* What a step may make of the record of i: nothing gets a process again,   *)
(* and only a registration that overtook its end makes it active again.     *)
Becomes(i, t) ==
  /\ t \in Records /\ Owned(t)
  /\ inst[i].spawn # "none" =>
       /\ t.spawn # "none" /\ (t.rpc => inst[i].rpc)
       /\ i \notin raced' /\ Active(t) => Active(inst[i])
  /\ i \notin raced' =>
       /\ Sound(t)
       /\ t.file.status \in {"online", "starting"} =>
            t.status = t.file.status \/ server \in {"down", "recovering"}
       /\ t.live /\ i \notin dropped =>
            t.file.status # "absent" /\ (t.status = "online" => t.file.pi = t.pi)

(* What a step may make of the calls: they end, or go on with i.            *)
CallsBecome(i, t) ==
  /\ call' \in [Clients -> CallRecords]
  /\ \A c \in Clients :
       \/ call'[c] = call[c]
       \/ call'[c] = NoCall /\ ~(Stopping(c, "dispose") /\ call[c].inst # i)
       \/ /\ call'[c].inst = i /\ ~(Stopping(c, "dispose") /\ call[c].inst # i)
          /\ t.spawn # "none"
          /\ call'[c].kind = "stop" =>
               /\ call'[c].at = "disconnect" /\ ~call'[c].rpc => ~t.rpc
               /\ i \notin raced' => ~Active(t)
  /\ call'[Shutdown] # NoCall => server' = "closing"

(* A step of one instance keeps the invariant if its record and the calls   *)
(* become what they may, and its child stays with somebody.                 *)
LEMMA OneInstance ==
  ASSUME IInv, NEW i \in Instances, NEW t, inst' = [inst EXCEPT ![i] = t],
         Becomes(i, t), CallsBecome(i, t),
         raced \subseteq raced', refused \subseteq refused', raced' \subseteq raced \union {i},
         dropped' = dropped, recovery' = recovery,
         server' = server \/ (server' = "stuck" /\ server \notin {"down", "recovering"}),
         MachineType',
         t.child \in {"running", "killed"} =>
           (~t.rpc => Awaited(i)') /\ (~t.live /\ i \notin refused' => ~t.rpc)
  PROVE  IInv'
<1> USE DEF IInv
<1>1. /\ inst'[i] = t /\ \A j \in Instances \ {i} : inst'[j] = inst[j]
      /\ inst' \in [Instances -> Records] /\ t \in Records
  BY DEF TypeInv, Becomes
<1>2. TypeInv'
  BY <1>1 DEF TypeInv, CallsBecome
<1>3. SoundInv'
  BY <1>1 DEF SoundInv, Becomes, Sound, Quiet
<1>4. CallInv'
  <2>0. call'[Shutdown] # NoCall => server' = "closing"
    BY DEF CallsBecome
  <2> SUFFICES ASSUME NEW c \in Clients, call'[c] # NoCall
               PROVE  /\ call'[c].inst \in Instances /\ inst'[call'[c].inst].spawn # "none"
                      /\ call'[c].kind = "stop" =>
                           /\ call'[c].at = "disconnect" /\ ~call'[c].rpc => ~inst'[call'[c].inst].rpc
                           /\ call'[c].inst \notin raced' => ~Active(inst'[call'[c].inst])
    BY <2>0 DEF CallInv, Stopping, Active
  <2>1. CASE call'[c] = call[c]
    <3>1. /\ call[c].inst \in Instances /\ inst[call[c].inst].spawn # "none"
          /\ call[c].kind = "stop" =>
               /\ call[c].at = "disconnect" /\ ~call[c].rpc => ~inst[call[c].inst].rpc
               /\ call[c].inst \notin raced => ~Active(inst[call[c].inst])
      BY <2>1 DEF CallInv, Stopping
    <3>2. CASE call[c].inst = i
      BY <1>1, <2>1, <3>1, <3>2 DEF Becomes
    <3>3. CASE call[c].inst # i
      BY <1>1, <2>1, <3>1, <3>3
    <3>q. QED
      BY <3>2, <3>3
  <2>2. CASE call'[c].inst = i /\ t.spawn # "none"
             /\ (call'[c].kind = "stop" =>
                   /\ call'[c].at = "disconnect" /\ ~call'[c].rpc => ~t.rpc
                   /\ i \notin raced' => ~Active(t))
    BY <1>1, <2>2 DEF Becomes
  <2>q. QED
    BY <2>1, <2>2 DEF CallsBecome
<1>5. ChildInv'
  <2> SUFFICES ASSUME NEW j \in Instances, inst'[j].child \in {"running", "killed"}
               PROVE  /\ ~inst'[j].rpc => Awaited(j)'
                      /\ ~inst'[j].live /\ j \notin refused' => ~inst'[j].rpc
    BY DEF ChildInv
  <2>1. CASE j = i
    BY <1>1, <2>1
  <2>2. CASE j # i
    <3>1. inst'[j] = inst[j]
      BY <1>1, <2>2
    <3>2. ~inst[j].rpc => Awaited(j)
      BY <3>1 DEF ChildInv
    <3>3. Awaited(j) => Awaited(j)'
      BY <2>2, <3>1 DEF Awaited, Stopping, CallsBecome
    <3>4. ~inst[j].live /\ j \notin refused => ~inst[j].rpc
      BY <3>1 DEF ChildInv
    <3>q. QED
      BY <3>1, <3>2, <3>3, <3>4
  <2>q. QED
    BY <2>1, <2>2
<1>6. FileInv'
  BY <1>1 DEF FileInv, Becomes
<1>q. QED
  BY <1>2, <1>3, <1>4, <1>5, <1>6

(* What the invariant says of one instance.                                 *)
LEMMA Here ==
  ASSUME IInv, NEW i \in Instances
  PROVE  /\ inst[i] \in Records /\ Owned(inst[i])
         /\ i \notin raced =>
              /\ Sound(inst[i])
              /\ inst[i].file.status \in {"online", "starting"} =>
                   inst[i].status = inst[i].file.status \/ server \in {"down", "recovering"}
              /\ inst[i].live /\ i \notin dropped =>
                   /\ inst[i].file.status # "absent"
                   /\ inst[i].status = "online" => inst[i].file.pi = inst[i].pi
         /\ inst[i].child \in {"running", "killed"} =>
              /\ ~inst[i].rpc => Awaited(i)
              /\ ~inst[i].live /\ i \notin refused => ~inst[i].rpc
  BY DEF IInv, TypeInv, SoundInv, FileInv, ChildInv

(* A record that is not active, and without heartbeats, is sound.           *)
LEMMA InactiveIsSound ==
  ASSUME NEW t \in Records, ~Active(t), t.beat = 0
  PROVE  Sound(t)
  BY DEF Sound, Active

(* Requests to a child that ends are rejected; nothing else happens to the  *)
(* calls.                                                                   *)
LEMMA RejectedIs ==
  ASSUME IInv, NEW i \in Instances
  PROVE  /\ Rejected(i) \in [Clients -> CallRecords]
         /\ \A c \in Clients : \/ Rejected(i)[c] = call[c]
                               \/ Rejected(i)[c] = NoCall /\ call[c].kind = "rpc"
<1>1. call \in [Clients -> CallRecords] /\ NoCall \in CallRecords
  BY DEF IInv, TypeInv, NoCall, CallRecords
<1>q. QED
  BY <1>1 DEF Rejected

(* A step of an instance that ends no call but requests to its child.       *)
LEMMA Quietly ==
  ASSUME IInv, NEW i \in Instances, NEW t, inst' = [inst EXCEPT ![i] = t],
         Becomes(i, t), call' = call \/ call' = Rejected(i),
         raced \subseteq raced', refused \subseteq refused', raced' \subseteq raced \union {i},
         server' = server, dropped' = dropped, recovery' = recovery,
         machine' = machine \/ MachineType',
         t.child \in {"running", "killed"} =>
           /\ inst[i].child \in {"running", "killed"}
           /\ ~t.rpc => t.spawn = "dispose" \/ (~inst[i].rpc /\ inst[i].spawn # "dispose")
           /\ ~t.live /\ i \notin refused' => ~t.rpc
  PROVE  IInv'
<1>1. \A c \in Clients : \/ call'[c] = call[c]
                         \/ call'[c] = NoCall /\ call[c].kind = "rpc"
  BY RejectedIs
<1>2. call' \in [Clients -> CallRecords]
  BY RejectedIs DEF IInv, TypeInv
<1>3. CallsBecome(i, t)
  <2>1. \A c \in Clients : call'[c] = call[c] \/ (call'[c] = NoCall /\ ~Stopping(c, "dispose"))
    BY <1>1 DEF Stopping
  <2>2. call'[Shutdown] # NoCall => server' = "closing"
    BY <2>1 DEF IInv, CallInv, Clients
  <2>q. QED
    BY <1>2, <2>1, <2>2 DEF CallsBecome
<1>4. inst'[i] = t
  BY DEF IInv, TypeInv
<1>5. t.child \in {"running", "killed"} /\ ~t.rpc => Awaited(i)'
  <2> SUFFICES ASSUME t.child \in {"running", "killed"}, ~t.rpc PROVE Awaited(i)'
    OBVIOUS
  <2>1. CASE t.spawn = "dispose"
    BY <1>4, <2>1 DEF Awaited
  <2>2. CASE ~inst[i].rpc /\ inst[i].spawn # "dispose"
    <3>1. Awaited(i)
      BY <2>2, Here
    <3>2. PICK c \in Clients : Stopping(c, "dispose") /\ call[c].inst = i
      BY <2>2, <3>1 DEF Awaited
    <3>3. call'[c] = call[c]
      BY <1>1, <3>2 DEF Stopping
    <3>q. QED
      BY <3>2, <3>3 DEF Awaited, Stopping
  <2>q. QED
    BY <2>1, <2>2
<1>6. MachineType'
  BY DEF IInv, TypeInv, MachineType
<1>7. t.child \in {"running", "killed"} =>
        (~t.rpc => Awaited(i)') /\ (~t.live /\ i \notin refused' => ~t.rpc)
  BY <1>5
<1>q. QED
  BY <1>3, <1>6, <1>7, OneInstance

(* spawnInstance, step by step.                                             *)
LEMMA SpawnStep == ASSUME IInv, NEW i \in Instances, Spawn(i) PROVE IInv'
<1> DEFINE e == SetStatus(Unused, "starting")
           t == [e EXCEPT !.live = TRUE, !.rpc = TRUE, !.bound = TRUE, !.child = "running",
                          !.spawn = "get_state"]
<1>1. Unused \in Records
  <2>1. 0 \in 0..Threshold
    BY BoundAssumption
  <2>q. QED
    BY <2>1 DEF Unused, Absent, Records, FileRecords, Statuses, SpawnPlaces
<1>2. /\ e \in Records /\ e.status = "starting" /\ e.file.status = "starting" /\ e.pi = 0
      /\ e.radiusPiId = 0 /\ e.beat = 0 /\ e.exit = FALSE /\ inst[i].spawn = "none"
  BY <1>1, SetStatusIs DEF Spawn, Unused, Statuses
<1> HIDE DEF e
<1>3. /\ t \in Records /\ t.status = "starting" /\ t.file.status = "starting" /\ t.pi = 0
      /\ t.radiusPiId = 0 /\ t.beat = 0 /\ t.exit = FALSE /\ t.live = TRUE /\ t.rpc = TRUE
      /\ t.bound = TRUE /\ t.child = "running" /\ t.spawn = "get_state"
  BY <1>2 DEF Records, SpawnPlaces
<1>4. inst' = [inst EXCEPT ![i] = t]
  BY DEF Spawn, Update, e
<1> HIDE DEF t
<1>5. Becomes(i, t)
  BY <1>2, <1>3 DEF Becomes, Owned, Sound, Active
<1>6. CallsBecome(i, t)
  BY DEF CallsBecome, Spawn, clients, process, IInv, TypeInv, CallInv, Clients
<1>7. /\ raced' = raced /\ refused' = refused /\ dropped' = dropped /\ recovery' = recovery
      /\ server' = server /\ machine' = machine /\ MachineType'
  BY DEF Spawn, process, history, IInv, TypeInv, MachineType
<1>q. QED
  BY <1>3, <1>4, <1>5, <1>6, <1>7, OneInstance

(* The child has answered get_state.                                       *)
LEMMA SyncedStep == ASSUME IInv, NEW i \in Instances, Synced(i) PROVE IInv'
<1> DEFINE s == inst[i]
           t == [Upsert(s) EXCEPT !.spawn = "register"]
<1>1. s.spawn = "get_state" /\ s.child = "running" /\ inst' = [inst EXCEPT ![i] = t]
  BY DEF Synced, Update
<1>2. s \in Records
  BY Here
<1>3. /\ t \in Records /\ t.file.status = t.status /\ t.file.pi = t.pi /\ t.spawn = "register"
      /\ t.status = s.status /\ t.live = s.live /\ t.pi = s.pi /\ t.rpc = s.rpc
      /\ t.radiusPiId = s.radiusPiId /\ t.bound = s.bound /\ t.child = s.child
      /\ t.exit = s.exit /\ t.beat = s.beat
  BY <1>2 DEF Upsert, Records, FileRecords, SpawnPlaces
<1> HIDE DEF t
<1>4. Becomes(i, t)
  BY <1>1, <1>3, Here DEF Becomes, Owned, Sound, Active, Synced, history, Records, Statuses
<1>5. t.child \in {"running", "killed"} => t.rpc /\ (~t.live /\ i \notin refused => ~t.rpc)
  BY <1>1, <1>3, Here DEF Owned
<1>6. /\ raced' = raced /\ refused' = refused /\ dropped' = dropped /\ recovery' = recovery
      /\ server' = server /\ machine' = machine /\ call' = call
  BY DEF Synced, clients, process, history
<1>q. QED
  BY <1>1, <1>3, <1>4, <1>5, <1>6, Quietly

(* Radius has answered: the spawn ends with the instance online.           *)
LEMMA OnlineStep == ASSUME IInv, NEW i \in Instances, Online(i) PROVE IInv'
<1> DEFINE s == inst[i]
           t == SpawnRegistered(s)
<1>1. /\ s.spawn = "register" /\ inst' = [inst EXCEPT ![i] = t]
      /\ i \notin raced' => s.status = "starting" /\ i \notin raced
      /\ raced \subseteq raced' /\ raced' \subseteq raced \union {i}
  BY DEF Online, Update
<1>2. /\ t \in Records /\ t.status = "online" /\ t.spawn = "ended"
      /\ t.pi # 0 /\ t.radiusPiId = t.pi /\ t.beat = t.pi
      /\ t.file.status = "online" /\ t.file.pi = t.pi
      /\ t.live = s.live /\ t.bound = s.bound /\ t.rpc = s.rpc /\ t.child = s.child
      /\ t.exit = s.exit
  BY Here, SpawnRegisteredIs
<1> HIDE DEF t
<1>3. Owned(t)
  BY <1>2, Here DEF Owned
<1>4. i \notin raced' => Sound(t) /\ Active(s)
  BY <1>1, <1>2, Here DEF Sound, Active
<1>5. Becomes(i, t)
  BY <1>1, <1>2, <1>3, <1>4 DEF Becomes
<1>6. t.child \in {"running", "killed"} =>
        /\ s.child \in {"running", "killed"}
        /\ ~t.rpc => ~s.rpc /\ s.spawn # "dispose"
        /\ ~t.live /\ i \notin refused => ~t.rpc
  BY <1>1, <1>2, Here
<1>7. /\ refused' = refused /\ dropped' = dropped /\ recovery' = recovery
      /\ server' = server /\ machine' = machine /\ call' = call
  BY DEF Online, clients, process
<1>q. QED
  BY <1>1, <1>5, <1>6, <1>7, Quietly

(* The spawn fails: what remains is with the spawn, or with others.         *)
LEMMA RegistrationFailsStep == ASSUME IInv, NEW i \in Instances, RegistrationFails(i) PROVE IInv'
<1> DEFINE s == inst[i]
           t == SpawnFails(s)
<1>1. s.spawn = "register" /\ inst' = [inst EXCEPT ![i] = t] /\ (call' = call \/ call' = Rejected(i))
  BY DEF RegistrationFails, Update
<1>2. /\ t \in Records /\ ~Active(t) /\ t.file.status = t.status
      /\ s.beat = 0 \/ s.radiusPiId # 0 => t.beat = 0
      /\ t.exit = s.exit
      /\ \/ /\ t.child = s.child /\ t.rpc = s.rpc /\ t.live = s.live
            /\ t.spawn = IF s.rpc THEN "disconnect" ELSE "disconnectOnly"
         \/ /\ s.rpc /\ ~t.rpc /\ t.live = s.live /\ t.spawn = "dispose"
            /\ t.child = (IF s.child = "running" THEN "killed" ELSE s.child)
         \/ ~s.rpc /\ ~t.rpc /\ t.child = s.child /\ ~t.live /\ t.spawn = "ended"
  BY Here, SpawnFailsIs
<1> HIDE DEF t
<1>3. Owned(t)
  BY <1>2, Here DEF Owned
<1>4. i \notin raced => t.beat = 0
  BY <1>2, Here DEF Sound, Active
<1>5. Becomes(i, t)
  <2>1. raced' = raced
    BY DEF RegistrationFails, history
  <2>2. t.spawn # "none" /\ (t.rpc => s.rpc) /\ t.file.status \notin {"absent", "online",
       "starting"}
        /\ t.status # "online"
    BY <1>2 DEF Records, Statuses, Active
  <2>q. QED
    BY <1>2, <1>3, <1>4, <2>1, <2>2, InactiveIsSound DEF Becomes
<1>6. t.child \in {"running", "killed"} =>
        /\ s.child \in {"running", "killed"}
        /\ ~t.rpc => t.spawn = "dispose" \/ (~s.rpc /\ s.spawn # "dispose")
        /\ ~t.live /\ i \notin refused => ~t.rpc
  BY <1>1, <1>2, Here
<1>7. /\ raced' = raced /\ refused' = refused /\ dropped' = dropped /\ recovery' = recovery
      /\ server' = server /\ machine' = machine
  BY DEF RegistrationFails, process, history
<1>q. QED
  BY <1>1, <1>5, <1>6, <1>7, Quietly

(* The failed spawn is disconnected: its child is disposed of, if it has    *)
(* one, or the spawn ends.                                                  *)
LEMMA SpawnDisconnectedStep == ASSUME IInv, NEW i \in Instances, SpawnDisconnected(i) PROVE IInv'
<1> DEFINE s == inst[i]
           d == Disconnected(s)
<1>1. /\ s.spawn \in {"disconnect", "disconnectOnly"}
      /\ IF d.spawn = "disconnect"
         THEN inst' = [inst EXCEPT ![i] = [Kill(d) EXCEPT !.spawn = "dispose"]] /\ call' = Rejected(i)
         ELSE inst' = [inst EXCEPT ![i] = SpawnEnds(d)] /\ call' = call
  BY DEF SpawnDisconnected, Update
<1>2. /\ d \in Records /\ d.status = s.status /\ d.file = s.file /\ d.live = s.live
      /\ d.rpc = s.rpc /\ d.child = s.child /\ d.spawn = s.spawn /\ d.exit = s.exit
      /\ d.beat = s.beat
  BY Here, DisconnectedIs
<1> HIDE DEF d
<1>3. i \notin raced => ~Active(s) /\ s.beat = 0
  BY <1>1, Here DEF Sound, Active
<1>4. /\ raced' = raced /\ refused' = refused /\ dropped' = dropped /\ recovery' = recovery
      /\ server' = server /\ machine' = machine
  BY DEF SpawnDisconnected, process, history
<1>5. CASE d.spawn = "disconnect"
  <2> DEFINE k == Kill(d)
             t == [k EXCEPT !.spawn = "dispose"]
  <2>1. /\ k \in Records /\ ~k.rpc /\ k.status = d.status /\ k.file = d.file /\ k.live = d.live
        /\ k.child = (IF d.child = "running" THEN "killed" ELSE d.child) /\ k.exit = d.exit
        /\ k.beat = d.beat
    BY <1>2, KillIs
  <2> HIDE DEF k
  <2>2. /\ t \in Records /\ ~t.rpc /\ t.status = s.status /\ t.file = s.file /\ t.live = s.live
        /\ t.child = (IF s.child = "running" THEN "killed" ELSE s.child) /\ t.exit = s.exit
        /\ t.beat = s.beat /\ t.spawn = "dispose"
    BY <1>2, <2>1 DEF Records, SpawnPlaces
  <2>3. inst' = [inst EXCEPT ![i] = t] /\ call' = Rejected(i)
    BY <1>1, <1>5 DEF k
  <2> HIDE DEF t
  <2>4. Owned(t)
    BY <2>2, Here DEF Owned
  <2>5. i \notin raced => Sound(t) /\ ~Active(t)
    BY <1>3, <2>2, InactiveIsSound DEF Active
  <2>6. Becomes(i, t)
    BY <1>3, <1>4, <2>2, <2>4, <2>5, Here DEF Becomes, Active
  <2>7. t.child \in {"running", "killed"} => s.child \in {"running", "killed"}
    BY <2>2
  <2>q. QED
    BY <1>4, <2>2, <2>3, <2>6, <2>7, Quietly
<1>6. CASE d.spawn # "disconnect"
  <2> DEFINE t == SpawnEnds(d)
  <2>1. /\ t \in Records /\ t.status = "stopped" /\ t.file.status = "stopped"
        /\ ~t.live /\ t.spawn = "ended"
        /\ t.beat = s.beat /\ t.rpc = s.rpc /\ t.child = s.child /\ t.exit = s.exit
    BY <1>2, SpawnEndsIs
  <2>2. inst' = [inst EXCEPT ![i] = t] /\ call' = call /\ s.spawn = "disconnectOnly"
    BY <1>1, <1>2, <1>6
  <2> HIDE DEF t
  <2>3. Owned(t) /\ ~t.rpc
    BY <2>1, <2>2, Here DEF Owned
  <2>4. Becomes(i, t)
    BY <1>3, <1>4, <2>1, <2>3, InactiveIsSound DEF Becomes, Active
  <2>q. QED
    BY <1>4, <2>1, <2>2, <2>3, <2>4, Quietly
<1>q. QED
  BY <1>5, <1>6

(* The spawn ends by itself: its disconnection failed, or its child is dead. *)
LEMMA SpawnEndsStep ==
  ASSUME IInv, NEW i \in Instances, SpawnUndoFails(i) \/ SpawnDisposed(i) PROVE IInv'
<1> DEFINE s == inst[i]
           t == SpawnEnds(s)
<1>1. /\ inst' = [inst EXCEPT ![i] = t]
      /\ \/ s.spawn \in {"disconnect", "disconnectOnly"} /\ i \in refused'
         \/ s.spawn = "dispose" /\ s.child = "dead"
  BY DEF SpawnUndoFails, SpawnDisposed, Update
<1>2. /\ t \in Records /\ t.status = "stopped" /\ t.file.status = "stopped"
      /\ ~t.live /\ t.spawn = "ended"
      /\ t.beat = s.beat /\ t.rpc = s.rpc /\ t.child = s.child /\ t.exit = s.exit
  BY Here, SpawnEndsIs
<1> HIDE DEF t
<1>3. /\ raced' = raced /\ dropped' = dropped /\ recovery' = recovery
      /\ server' = server /\ machine' = machine /\ call' = call /\ refused \subseteq refused'
  BY DEF SpawnUndoFails, SpawnDisposed, clients, process, history
<1>4. i \notin raced => s.beat = 0
  BY <1>1, Here DEF Sound, Active
<1>5. Owned(t)
  BY <1>2, Here DEF Owned
<1>6. Becomes(i, t)
  BY <1>2, <1>3, <1>4, <1>5, InactiveIsSound DEF Becomes, Active
<1>7. t.child \in {"running", "killed"} =>
        /\ s.child \in {"running", "killed"}
        /\ ~t.rpc => ~s.rpc /\ s.spawn # "dispose"
        /\ ~t.live /\ i \notin refused' => ~t.rpc
  BY <1>1, <1>2
<1>q. QED
  BY <1>1, <1>3, <1>6, <1>7, Quietly

(* A stop begins, for a client or for the shutdown.                         *)
LEMMA BeginStopStep ==
  ASSUME IInv, NEW c \in Clients, NEW i \in Instances, BeginStop(c, i), call[c] = NoCall,
         c = Shutdown => server = "closing",
         UNCHANGED <<server, recovery, machine, raced, refused, dropped>>
  PROVE  IInv'
<1> DEFINE s == inst[i]
           u == SetStatus(s, "stopping")
           e == Unbound(u)
<1>1. /\ s \in Records /\ Owned(s) /\ s.live /\ s.spawn # "none"
      /\ i \notin raced => s.beat = 0 \/ s.radiusPiId # 0
  BY Here DEF BeginStop, Owned, Sound, Active
<1>2. /\ e \in Records /\ e.status = "stopping" /\ e.file.status = "stopping" /\ e.live = s.live
      /\ e.rpc = s.rpc /\ e.radiusPiId = s.radiusPiId /\ e.child = s.child /\ e.spawn = s.spawn
      /\ e.exit = s.exit /\ e.beat = s.beat
  <2>1. /\ u \in Records /\ u.status = "stopping" /\ u.file.status = "stopping"
        /\ u.live = s.live /\ u.rpc = s.rpc /\ u.radiusPiId = s.radiusPiId
        /\ u.child = s.child /\ u.spawn = s.spawn /\ u.exit = s.exit /\ u.beat = s.beat
    BY <1>1, SetStatusIs DEF Statuses
  <2> HIDE DEF u
  <2>q. QED
    BY <2>1, UnboundIs
<1> DEFINE at(place) == [kind |-> "stop", inst |-> i, at |-> place, rpc |-> e.rpc]
<1>3. CASE e.radiusPiId # 0
  <2> DEFINE t == Silent(e)
  <2>1. inst' = [inst EXCEPT ![i] = t] /\ call' = [call EXCEPT ![c] = at("disconnect")]
    BY <1>3 DEF BeginStop, Update
  <2>2. /\ t \in Records /\ t.beat = 0 /\ t.status = "stopping" /\ t.file.status = "stopping"
        /\ t.rpc = s.rpc /\ t.live = s.live /\ t.child = s.child /\ t.spawn = s.spawn
        /\ t.exit = s.exit
    BY <1>2, SilentIs
  <2> HIDE DEF t
  <2>3. Owned(t)
    BY <1>1, <2>2 DEF Owned
  <2>4. Becomes(i, t)
    BY <1>1, <2>2, <2>3, InactiveIsSound DEF Becomes, Active
  <2>5. /\ call' \in [Clients -> CallRecords]
        /\ call'[c] = at("disconnect") /\ \A d \in Clients \ {c} : call'[d] = call[d]
    BY <1>2, <2>1 DEF IInv, TypeInv, CallRecords, Records
  <2>6. CallsBecome(i, t)
    <3>1. call'[c].inst = i /\ ~Stopping(c, "dispose") /\ t.spawn # "none"
          /\ (~call'[c].rpc => ~t.rpc) /\ ~Active(t)
      BY <1>1, <1>2, <2>2, <2>5 DEF Stopping, NoCall, Active
    <3>2. call'[Shutdown] # NoCall => server' = "closing"
      BY <2>5 DEF IInv, CallInv, Clients
    <3>q. QED
      BY <2>5, <3>1, <3>2 DEF CallsBecome
  <2>7. t.child \in {"running", "killed"} => (~t.rpc => Awaited(i)') /\ t.live
    <3>1. t.child \in {"running", "killed"} /\ ~t.rpc => Awaited(i)
      BY <2>2, Here
    <3>2. Awaited(i) => Awaited(i)'
      <4>1. \A d \in Clients : Stopping(d, "dispose") => call'[d] = call[d]
        BY <2>5 DEF Stopping, NoCall
      <4>2. inst'[i].spawn = inst[i].spawn
        BY <2>1, <2>2 DEF IInv, TypeInv
      <4>q. QED
        BY <4>1, <4>2 DEF Awaited, Stopping
    <3>q. QED
      BY <1>1, <2>2, <3>1, <3>2
  <2>8. MachineType'
    BY DEF IInv, TypeInv, MachineType
  <2>q. QED
    BY <2>1, <2>4, <2>6, <2>7, <2>8, OneInstance
<1>4. CASE e.radiusPiId = 0 /\ e.rpc
  <2> DEFINE t == Dispose(e)
  <2>1. inst' = [inst EXCEPT ![i] = t] /\ call' = [Rejected(i) EXCEPT ![c] = at("dispose")]
    BY <1>4 DEF BeginStop, Update
  <2>2. /\ t \in Records /\ ~t.rpc
        /\ t.child = (IF s.child = "running" THEN "killed" ELSE s.child)
        /\ t.exit = s.exit /\ t.spawn # "none"
        /\ ~Active(t) /\ t.status # "online" /\ t.file.status = t.status
        /\ i \notin raced => t.beat = 0
    <3>1. /\ t \in Records /\ ~t.rpc
          /\ t.child = (IF e.child = "running" THEN "killed" ELSE e.child)
          /\ t.exit = e.exit /\ (e.spawn # "none" => t.spawn # "none")
          /\ \/ t.status = e.status /\ t.file = e.file /\ t.beat = e.beat
             \/ ~Active(t) /\ t.file.status = t.status /\ (e.beat = 0 \/ e.radiusPiId # 0 => t.beat = 0)
      BY <1>2, DisposeIs
    <3> HIDE DEF t
    <3>2. i \notin raced => e.beat = 0
      BY <1>1, <1>2, <1>4
    <3>3. ~Active(t) /\ t.status # "online" /\ t.file.status = t.status
      BY <1>2, <3>1 DEF Active
    <3>q. QED
      BY <1>1, <1>2, <3>1, <3>2, <3>3
  <2> HIDE DEF t
  <2>3. Owned(t)
    BY <1>1, <2>2 DEF Owned
  <2>4. Becomes(i, t)
    <3>1. t.file.status \notin {"absent", "online", "starting"}
      BY <2>2 DEF Records, Statuses, Active
    <3>q. QED
      BY <2>2, <2>3, <3>1, InactiveIsSound DEF Becomes
  <2>5. /\ call' \in [Clients -> CallRecords] /\ call'[c] = at("dispose")
        /\ \A d \in Clients \ {c} : call'[d] = call[d] \/ (call'[d] = NoCall /\ call[d].kind = "rpc")
    BY <1>2, <2>1, RejectedIs DEF CallRecords, Records
  <2>6. CallsBecome(i, t)
    <3>1. call'[c].inst = i /\ ~Stopping(c, "dispose") /\ t.spawn # "none"
          /\ call'[c].at # "disconnect" /\ ~Active(t)
      BY <1>1, <1>2, <2>2, <2>5 DEF Stopping, NoCall, Active
    <3>2. call'[Shutdown] # NoCall => server' = "closing"
      BY <2>5 DEF IInv, CallInv, Clients
    <3>3. \A d \in Clients \ {c} : call'[d] = call[d] \/ (call'[d] = NoCall /\ ~Stopping(d,
       "dispose"))
      BY <2>5 DEF Stopping
    <3>q. QED
      BY <2>5, <3>1, <3>2, <3>3 DEF CallsBecome
  <2>7. Awaited(i)'
    BY <2>5 DEF Awaited, Stopping
  <2>8. MachineType'
    BY DEF IInv, TypeInv, MachineType
  <2>q. QED
    BY <2>1, <2>2, <2>4, <2>6, <2>7, <2>8, OneInstance
<1>5. CASE e.radiusPiId = 0 /\ ~e.rpc
  <2> DEFINE t == StopEnds(e)
  <2>1. inst' = [inst EXCEPT ![i] = t] /\ call' = call
    BY <1>5 DEF BeginStop, Update
  <2>2. /\ t \in Records /\ t.status = "stopped" /\ t.file.status = "absent" /\ ~t.live
        /\ ~t.rpc /\ ~s.rpc /\ t.child = s.child /\ t.spawn = s.spawn /\ t.exit = s.exit
        /\ t.beat = s.beat
    BY <1>2, <1>5, StopEndsIs
  <2> HIDE DEF t
  <2>3. Owned(t)
    BY <1>1, <2>2 DEF Owned
  <2>4. i \notin raced => t.beat = 0
    BY <1>1, <1>2, <1>5, <2>2
  <2>5. Becomes(i, t)
    BY <1>1, <2>2, <2>3, <2>4, InactiveIsSound DEF Becomes, Active
  <2>6. t.child \in {"running", "killed"} =>
          s.child \in {"running", "killed"} /\ (s.spawn = "dispose" => t.spawn = "dispose")
    BY <2>2
  <2>q. QED
    BY <2>1, <2>2, <2>5, <2>6, Quietly
<1>6. e.radiusPiId \in Nat
  BY <1>2 DEF Records
<1>q. QED
  BY <1>3, <1>4, <1>5

(* stopInstance after its disconnection.                                    *)
LEMMA StopDisconnectedStep == ASSUME IInv, NEW c \in Clients, StopDisconnected(c) PROVE IInv'
<1>0. call[c] # NoCall /\ call[c].at = "disconnect" /\ call[c].kind = "stop"
  BY DEF StopDisconnected, Stopping, NoCall
<1>i. PICK i \in Instances : i = call[c].inst
  BY <1>0 DEF IInv, CallInv
<1> DEFINE s == inst[i]
           d == Disconnected(s)
<1>1. /\ i \in Instances /\ call[c].inst = i /\ s.spawn # "none" /\ (~call[c].rpc => ~s.rpc)
      /\ i \notin raced => ~Active(s)
      /\ c = Shutdown => server = "closing"
  BY <1>i, <1>0 DEF IInv, CallInv, Stopping
<1>2. /\ s \in Records /\ Owned(s) /\ (i \notin raced => ~Active(s) /\ s.beat = 0)
  BY <1>1, Here DEF Sound, Active
<1>3. /\ d \in Records /\ d.radiusPiId = 0 /\ d.pi = 0
      /\ d.status = s.status /\ d.file = s.file /\ d.live = s.live
      /\ d.rpc = s.rpc /\ d.child = s.child /\ d.spawn = s.spawn /\ d.exit = s.exit
      /\ d.beat = s.beat
  BY <1>2, DisconnectedIs
<1>4. IF call[c].rpc
      THEN /\ inst' = [inst EXCEPT ![i] = Dispose(d)]
           /\ call' = [Rejected(i) EXCEPT ![c].at = "dispose"]
      ELSE inst' = [inst EXCEPT ![i] = StopEnds(d)] /\ call' = [call EXCEPT ![c] = NoCall]
  BY <1>i DEF StopDisconnected, Update
<1>5. /\ raced' = raced /\ refused' = refused /\ dropped' = dropped /\ recovery' = recovery
      /\ server' = server /\ machine' = machine
  BY DEF StopDisconnected, process, history
<1>6. MachineType'
  BY <1>5 DEF IInv, TypeInv, MachineType
<1>7. call \in [Clients -> CallRecords] /\ (call[Shutdown] # NoCall => server = "closing")
  BY DEF IInv, TypeInv, CallInv, Clients
<1> HIDE DEF d
<1>8. CASE call[c].rpc
  <2> DEFINE t == Dispose(d)
  <2>1. /\ t \in Records /\ ~t.rpc
        /\ t.child = (IF s.child = "running" THEN "killed" ELSE s.child)
        /\ t.exit = s.exit /\ t.spawn # "none"
        /\ \/ /\ t.live = s.live /\ t.status = s.status /\ t.file = s.file /\ t.beat = s.beat
           \/ /\ ~Active(t) /\ t.file.status = t.status /\ (s.beat = 0 => t.beat = 0)
    <3>1. /\ t \in Records /\ ~t.rpc
          /\ t.child = (IF d.child = "running" THEN "killed" ELSE d.child)
          /\ t.exit = d.exit /\ (d.spawn # "none" => t.spawn # "none")
          /\ \/ /\ t.live = d.live /\ t.status = d.status /\ t.file = d.file /\ t.beat = d.beat
             \/ /\ ~Active(t) /\ t.file.status = t.status
                /\ d.beat = 0 \/ d.radiusPiId # 0 => t.beat = 0
      BY <1>3, DisposeIs
    <3> HIDE DEF t
    <3>q. QED
      BY <1>1, <1>3, <3>1
  <2>2. inst' = [inst EXCEPT ![i] = t] /\ call' = [Rejected(i) EXCEPT ![c].at = "dispose"]
    BY <1>4, <1>8
  <2> HIDE DEF t
  <2>3. Owned(t)
    BY <1>2, <2>1 DEF Owned
  <2>4. i \notin raced => ~Active(t) /\ t.beat = 0 /\ t.status # "online"
    BY <1>2, <2>1 DEF Active
  <2>5. i \notin raced =>
          /\ t.file.status \in {"online", "starting"} => server \in {"down", "recovering"}
          /\ t.live /\ i \notin dropped => t.file.status # "absent"
    <3>1. CASE t.live = s.live /\ t.file = s.file
      BY <1>1, <1>2, <3>1, Here DEF Active
    <3>2. CASE ~Active(t) /\ t.file.status = t.status
      BY <2>1, <3>2 DEF Records, Statuses, Active
    <3>q. QED
      BY <2>1, <3>1, <3>2
  <2>6. Becomes(i, t)
    <3>1. i \notin raced => Sound(t)
      BY <2>1, <2>4, InactiveIsSound
    <3>q. QED
      BY <1>5, <2>1, <2>3, <2>4, <2>5, <3>1 DEF Becomes
  <2>7. /\ call' \in [Clients -> CallRecords]
        /\ call'[c].inst = i /\ call'[c].kind = "stop" /\ call'[c].at = "dispose"
        /\ \A e \in Clients \ {c} : call'[e] = call[e] \/ (call'[e] = NoCall /\ call[e].kind = "rpc")
    <3>1. Rejected(i)[c] = call[c]
      BY <1>0, <1>1, RejectedIs
    <3>2. Rejected(i) \in [Clients -> CallRecords]
      BY <1>1, RejectedIs
    <3>3. /\ call'[c] = [call[c] EXCEPT !.at = "dispose"]
          /\ \A e \in Clients \ {c} : call'[e] = Rejected(i)[e]
          /\ DOMAIN call' = Clients /\ call' = [e \in Clients |-> call'[e]]
      BY <2>2, <3>1, <3>2
    <3>4. call'[c] \in CallRecords /\ call'[c].inst = i /\ call'[c].kind = "stop" /\ call'[c].at = "dispose"
      <4>1. call[c] \in CallRecords
        BY <1>7
      <4>q. QED
        BY <1>0, <1>1, <3>3, <4>1 DEF CallRecords
    <3>5. \A e \in Clients : call'[e] \in CallRecords
      BY <3>2, <3>3, <3>4
    <3>q. QED
      BY <1>1, <3>3, <3>4, <3>5, RejectedIs
  <2>8. CallsBecome(i, t)
    <3>1. ~(Stopping(c, "dispose") /\ call[c].inst # i) /\ call'[c].at # "disconnect"
      BY <1>1, <2>7
    <3>2. call'[Shutdown] # NoCall => server' = "closing"
      BY <1>1, <1>5, <1>7, <2>7 DEF Clients
    <3>3. \A e \in Clients \ {c} : call'[e] = call[e] \/ (call'[e] = NoCall /\ ~Stopping(e,
       "dispose"))
      BY <2>7 DEF Stopping
    <3>q. QED
      BY <1>5, <2>1, <2>4, <2>7, <3>1, <3>2, <3>3 DEF CallsBecome
  <2>9. Awaited(i)'
    BY <2>7 DEF Awaited, Stopping
  <2>q. QED
    BY <1>1, <1>5, <1>6, <2>1, <2>2, <2>6, <2>8, <2>9, OneInstance
<1>9. CASE ~call[c].rpc
  <2> DEFINE t == StopEnds(d)
  <2>1. /\ t \in Records /\ t.status = "stopped" /\ t.file.status = "absent" /\ ~t.live
        /\ ~t.rpc /\ ~s.rpc /\ t.child = s.child /\ t.spawn = s.spawn /\ t.exit = s.exit
        /\ t.beat = s.beat
    BY <1>1, <1>3, <1>9, StopEndsIs
  <2>2. inst' = [inst EXCEPT ![i] = t] /\ call' = [call EXCEPT ![c] = NoCall]
    BY <1>4, <1>9
  <2> HIDE DEF t
  <2>3. Owned(t)
    BY <1>2, <2>1 DEF Owned
  <2>4. Becomes(i, t)
    BY <1>2, <1>5, <2>1, <2>3, InactiveIsSound DEF Becomes, Active
  <2>5. /\ call' \in [Clients -> CallRecords] /\ call'[c] = NoCall
        /\ \A e \in Clients \ {c} : call'[e] = call[e]
    BY <1>7, <2>2 DEF CallRecords, NoCall
  <2>6. CallsBecome(i, t)
    <3>1. ~Stopping(c, "dispose")
      BY <1>0 DEF Stopping
    <3>2. call'[Shutdown] # NoCall => server' = "closing"
      BY <1>5, <1>7, <2>5 DEF Clients
    <3>q. QED
      BY <2>5, <3>1, <3>2 DEF CallsBecome
  <2>7. t.child \in {"running", "killed"} => Awaited(i)'
    <3>1. t.child \in {"running", "killed"} => Awaited(i)
      BY <1>1, <2>1, Here
    <3>2. Awaited(i) => Awaited(i)'
      <4>1. \A e \in Clients : Stopping(e, "dispose") => call'[e] = call[e]
        BY <1>0, <2>5 DEF Stopping
      <4>2. inst'[i].spawn = inst[i].spawn
        BY <1>1, <2>1, <2>2 DEF IInv, TypeInv
      <4>q. QED
        BY <4>1, <4>2 DEF Awaited, Stopping
    <3>q. QED
      BY <3>1, <3>2
  <2>q. QED
    BY <1>1, <1>5, <1>6, <2>1, <2>2, <2>4, <2>6, <2>7, OneInstance
<1>q. QED
  BY <1>8, <1>9

(* The end of stopInstance: its disconnection failed, or its child is dead. *)
LEMMA StopEndsStep ==
  ASSUME IInv, NEW c \in Clients, StopFails(c) \/ Disposed(c) PROVE IInv'
<1>c. call[c] # NoCall /\ call[c].kind = "stop"
  BY DEF StopFails, Disposed, Stopping, NoCall
<1>i. PICK i \in Instances : i = call[c].inst
  BY <1>c DEF IInv, CallInv
<1> DEFINE s == inst[i]
           t == StopEnds(s)
<1>0. /\ call[c] # NoCall /\ call[c].kind = "stop"
      /\ \/ StopFails(c) /\ call[c].at = "disconnect"
         \/ Disposed(c) /\ call[c].at = "dispose" /\ s.child = "dead"
  BY <1>c, <1>i DEF StopFails, Disposed, Stopping
<1>1. /\ i \in Instances /\ call[c].inst = i /\ s.spawn # "none"
      /\ i \notin raced => ~Active(s)
      /\ c = Shutdown => server = "closing"
  BY <1>0, <1>i DEF IInv, CallInv
<1>2. /\ s \in Records /\ Owned(s) /\ (i \notin raced => ~Active(s) /\ s.beat = 0)
  BY <1>1, Here DEF Sound, Active
<1>3. /\ t \in Records /\ t.status = "stopped" /\ t.file.status = "absent" /\ ~t.live
      /\ t.rpc = s.rpc /\ t.child = s.child /\ t.spawn = s.spawn /\ t.exit = s.exit
      /\ t.beat = s.beat
  BY <1>2, StopEndsIs
<1>4. inst' = [inst EXCEPT ![i] = t] /\ call' = [call EXCEPT ![c] = NoCall]
  BY <1>i DEF StopFails, Disposed, Update
<1> HIDE DEF t
<1>5. /\ raced' = raced /\ dropped' = dropped /\ recovery' = recovery /\ machine' = machine
      /\ refused \subseteq refused'
      /\ server' = server \/ (c = Shutdown /\ server' = "stuck")
      /\ call[c].at = "disconnect" => i \in refused'
  BY <1>0, <1>i DEF StopFails, Disposed, process, history
<1>6. MachineType'
  BY <1>5 DEF IInv, TypeInv, MachineType
<1>7. call \in [Clients -> CallRecords] /\ (call[Shutdown] # NoCall => server = "closing")
  BY DEF IInv, TypeInv, CallInv, Clients
<1>8. Becomes(i, t)
  <2>1. Owned(t)
    BY <1>2, <1>3 DEF Owned
  <2>q. QED
    BY <1>2, <1>3, <1>5, <2>1, InactiveIsSound DEF Becomes, Active
<1>9. /\ call' \in [Clients -> CallRecords] /\ call'[c] = NoCall
      /\ \A e \in Clients \ {c} : call'[e] = call[e]
  BY <1>4, <1>7 DEF CallRecords, NoCall
<1>10. CallsBecome(i, t)
  <2>2. call'[Shutdown] # NoCall => server' = "closing"
    BY <1>5, <1>7, <1>9 DEF Clients
  <2>q. QED
    BY <1>1, <1>9, <2>2 DEF CallsBecome
<1>11. t.child \in {"running", "killed"} =>
         (~t.rpc => Awaited(i)') /\ (~t.live /\ i \notin refused' => ~t.rpc)
  <2> SUFFICES ASSUME t.child \in {"running", "killed"}
               PROVE  (~t.rpc => Awaited(i)') /\ i \in refused'
    OBVIOUS
  <2>0. call[c].at = "disconnect" /\ i \in refused'
    BY <1>0, <1>3, <1>5
  <2>1. ~t.rpc => Awaited(i)
    BY <1>1, <1>3, Here
  <2>2. Awaited(i) => Awaited(i)'
    <3>1. \A e \in Clients : Stopping(e, "dispose") => call'[e] = call[e]
      BY <2>0, <1>9 DEF Stopping
    <3>2. inst'[i].spawn = inst[i].spawn
      BY <1>1, <1>3, <1>4 DEF IInv, TypeInv
    <3>q. QED
      BY <3>1, <3>2 DEF Awaited, Stopping
  <2>q. QED
    BY <2>0, <2>1, <2>2
<1>12. server' = server \/ (server' = "stuck" /\ server \notin {"down", "recovering"})
  BY <1>1, <1>5
<1>q. QED
  BY <1>1, <1>4, <1>5, <1>6, <1>8, <1>10, <1>11, <1>12, OneInstance


(* The exit of a child.                                                     *)
LEMMA ExitStep == ASSUME IInv, NEW i \in Instances, Exit(i) PROVE IInv'
<1> DEFINE s == inst[i]
           t == Exited(s)
<1>1. /\ t \in Records /\ t.child = "dead"
      /\ ~s.rpc => ~t.rpc
      /\ s.spawn = "disconnectOnly" => t.spawn = s.spawn
      /\ t.spawn = "disconnectOnly" => ~t.rpc \/ s.spawn = "disconnectOnly"
      /\ s.spawn # "none" => t.spawn # "none"
      /\ \/ /\ t.live = s.live /\ t.status = s.status /\ t.file = s.file /\ t.pi = s.pi
            /\ t.radiusPiId = s.radiusPiId /\ t.beat = s.beat
            /\ ~s.bound \/ ~s.live \/ s.status \in {"stopping", "stopped"}
         \/ /\ ~Active(t) /\ t.file.status = t.status
            /\ s.beat = 0 \/ s.radiusPiId # 0 => t.beat = 0
            /\ s.live \/ s.spawn = "get_state"
  BY Here, ExitedIs
<1>2. inst' = [inst EXCEPT ![i] = t] /\ call' = Rejected(i)
  BY DEF Exit, Update
<1>3. /\ raced' = raced /\ refused' = refused /\ dropped' = dropped /\ recovery' = recovery
      /\ server' = server /\ machine' = machine
  BY DEF Exit, process, history
<1> HIDE DEF t
<1>4. s \in Records /\ Owned(s)
  BY Here
<1>5. Owned(t)
  BY <1>1, <1>4 DEF Owned
<1>6. i \notin raced =>
        /\ ~Active(t) /\ t.beat = 0
        /\ t.file.status \in {"online", "starting"} => server \in {"down", "recovering"}
        /\ t.live /\ i \notin dropped => t.file.status # "absent"
  <2>1. CASE /\ t.live = s.live /\ t.status = s.status /\ t.file = s.file /\ t.pi = s.pi
             /\ t.radiusPiId = s.radiusPiId /\ t.beat = s.beat
             /\ ~s.bound \/ ~s.live \/ s.status \in {"stopping", "stopped"}
    BY <2>1, Here DEF Sound, Active
  <2>2. CASE /\ ~Active(t) /\ t.file.status = t.status
             /\ s.beat = 0 \/ s.radiusPiId # 0 => t.beat = 0
    <3>1. i \notin raced => t.beat = 0
      BY <2>2, Here DEF Sound, Active
    <3>2. t.status # "absent"
      BY <1>1 DEF Records, Statuses
    <3>q. QED
      BY <2>2, <3>1, <3>2 DEF Active
  <2>q. QED
    BY <1>1, <2>1, <2>2
<1>7. inst[i].spawn # "none" =>
        /\ t.spawn # "none" /\ (t.rpc => inst[i].rpc)
        /\ i \notin raced' /\ Active(t) => Active(inst[i])
  BY <1>1, <1>3, <1>6
<1>8. Becomes(i, t)
  <2>1. i \notin raced => Sound(t)
    BY <1>1, <1>6, InactiveIsSound
  <2>q. QED
    BY <1>1, <1>3, <1>5, <1>6, <1>7, <2>1 DEF Becomes, Active
<1>q. QED
  BY <1>1, <1>2, <1>3, <1>8, Quietly

(* The rest of the handling of an exit, whether Radius answers or not.      *)
LEMMA ExitDisconnectedStep == ASSUME IInv, NEW i \in Instances, ExitDisconnected(i) PROVE IInv'
<1> DEFINE s == inst[i]
           u == [s EXCEPT !.pi = 0]
           v == Upsert(u)
           t1 == [v EXCEPT !.exit = FALSE, !.live = FALSE]
           t2 == [s EXCEPT !.exit = FALSE, !.live = FALSE]
<1>1. /\ s.exit /\ (inst' = [inst EXCEPT ![i] = t1] \/ inst' = [inst EXCEPT ![i] = t2])
      /\ raced' = raced /\ refused' = refused /\ dropped' = dropped /\ recovery' = recovery
      /\ server' = server /\ machine' = machine /\ call' = call
  BY DEF ExitDisconnected, Update, clients, process, history
<1>2. s \in Records /\ Owned(s) /\ s.child = "dead" /\ (i \notin raced => ~Active(s) /\ s.beat = 0)
  BY <1>1, Here DEF Owned, Sound, Active
<1>3. /\ t1 \in Records /\ ~t1.live /\ ~t1.exit /\ t1.status = s.status /\ t1.beat = s.beat
      /\ t1.spawn = s.spawn /\ t1.rpc = s.rpc /\ t1.child = s.child /\ t1.file.status = s.status
  <2>1. /\ u \in Records /\ u.status = s.status /\ u.beat = s.beat
        /\ u.spawn = s.spawn /\ u.rpc = s.rpc /\ u.child = s.child
    BY <1>2 DEF Records
  <2> HIDE DEF u
  <2>2. /\ v \in Records /\ v.status = s.status /\ v.beat = s.beat /\ v.file.status = s.status
        /\ v.spawn = s.spawn /\ v.rpc = s.rpc /\ v.child = s.child
    BY <2>1 DEF Upsert, Records, FileRecords
  <2> HIDE DEF v
  <2>q. QED
    BY <2>2 DEF Records
<1>4. /\ t2 \in Records /\ ~t2.live /\ ~t2.exit /\ t2.status = s.status /\ t2.beat = s.beat
      /\ t2.spawn = s.spawn /\ t2.rpc = s.rpc /\ t2.child = s.child /\ t2.file = s.file
  BY <1>2 DEF Records
<1> HIDE DEF t1, t2
<1>5. ASSUME NEW t \in {t1, t2}, inst' = [inst EXCEPT ![i] = t] PROVE IInv'
  <2>1. /\ t \in Records /\ ~t.live /\ ~t.exit /\ t.status = s.status /\ t.beat = s.beat
        /\ t.spawn = s.spawn /\ t.rpc = s.rpc /\ t.child = s.child
        /\ t.file = s.file \/ t.file.status = s.status
    BY <1>3, <1>4
  <2>2. Owned(t)
    BY <1>2, <2>1 DEF Owned
  <2>3. i \notin raced /\ t.file.status \in {"online", "starting"} => server \in {"down",
       "recovering"}
    BY <1>2, <2>1, Here DEF Active
  <2>4. i \notin raced => Sound(t) /\ ~Active(t)
    BY <1>2, <2>1, InactiveIsSound DEF Active
  <2>5. Becomes(i, t)
    BY <1>1, <2>1, <2>2, <2>3, <2>4 DEF Becomes
  <2>q. QED
    BY <1>1, <1>2, <1>5, <2>1, <2>5, Quietly
<1>q. QED
  BY <1>1, <1>5

(* A record that stays as it is.                                            *)
LEMMA StaysSo ==
  ASSUME IInv, NEW i \in Instances, raced' = raced
  PROVE  Becomes(i, inst[i]) /\ inst = [inst EXCEPT ![i] = inst[i]]
<1>1. inst = [inst EXCEPT ![i] = inst[i]]
  BY DEF IInv, TypeInv
<1>q. QED
  BY <1>1, Here DEF Becomes

(* A request to the child.                                                  *)
LEMMA RpcStep ==
  ASSUME IInv, NEW c \in Clients, c # Shutdown, NEW i \in Instances, Rpc(c, i) PROVE IInv'
<1> DEFINE r == [kind |-> "rpc", inst |-> i, at |-> "command", rpc |-> TRUE]
<1>1. /\ call[c] = NoCall /\ inst[i].live /\ inst[i].rpc /\ call' = [call EXCEPT ![c] = r]
      /\ inst' = inst
      /\ raced' = raced /\ refused' = refused /\ dropped' = dropped /\ recovery' = recovery
      /\ server' = server /\ machine' = machine
  BY DEF Rpc, process, history
<1>2. r \in CallRecords
  BY DEF CallRecords
<1>3. inst[i].spawn # "none"
  BY <1>1, Here DEF Owned
<1>4. /\ call' \in [Clients -> CallRecords] /\ call'[c] = r
      /\ \A d \in Clients \ {c} : call'[d] = call[d]
  BY <1>1, <1>2 DEF IInv, TypeInv
<1>5. CallsBecome(i, inst[i])
  <2>1. call'[Shutdown] # NoCall => server' = "closing"
    BY <1>1, <1>4 DEF IInv, CallInv, Clients
  <2>2. ~Stopping(c, "dispose") /\ call'[c].inst = i /\ call'[c].kind # "stop"
    BY <1>1, <1>4 DEF Stopping, NoCall
  <2>q. QED
    BY <1>3, <1>4, <2>1, <2>2 DEF CallsBecome
<1>6. Becomes(i, inst[i]) /\ inst' = [inst EXCEPT ![i] = inst[i]] /\ MachineType'
  BY <1>1, StaysSo DEF IInv, TypeInv, MachineType
<1>q. QED
  BY <1>1, <1>5, <1>6, OneInstance

(* Its answers.                                                             *)
LEMMA AnsweredStep == ASSUME IInv, NEW c \in Clients, Answered(c) PROVE IInv'
<1>1. call[c].kind = "rpc" /\ call[c] # NoCall /\ inst[call[c].inst].child = "running"
  BY DEF Answered, NoCall
<1>2. PICK i \in Instances : i = call[c].inst
  BY <1>1 DEF IInv, CallInv
<1> DEFINE s == inst[i]
           w == Upsert(s)
<1>3. /\ s \in Records /\ Owned(s) /\ s.child = "running" /\ s.rpc /\ s.spawn # "none"
      /\ i \notin refused => s.live
  BY <1>1, <1>2, Here DEF Owned, IInv, CallInv
<1>4. /\ raced' = raced /\ refused' = refused /\ dropped' = dropped /\ recovery' = recovery
      /\ server' = server /\ machine' = machine
      /\ inst' = inst \/ inst' = [inst EXCEPT ![i] = w]
      /\ call' = [call EXCEPT ![c] = NoCall] \/ call' = [call EXCEPT ![c].at = "get_state"]
  BY <1>2 DEF Answered, Update, process, history
<1>5. /\ w \in Records /\ w.file.status = w.status /\ w.file.pi = w.pi
      /\ w.status = s.status /\ w.live = s.live /\ w.pi = s.pi /\ w.rpc = s.rpc
      /\ w.radiusPiId = s.radiusPiId /\ w.bound = s.bound /\ w.child = s.child
      /\ w.exit = s.exit /\ w.beat = s.beat /\ w.spawn = s.spawn
  BY <1>3 DEF Upsert, Records, FileRecords
<1> HIDE DEF w
<1>6. Becomes(i, w)
  BY <1>3, <1>4, <1>5, Here DEF Becomes, Owned, Sound, Active, Records, Statuses
<1>7. /\ call' \in [Clients -> CallRecords]
      /\ call'[c] = NoCall \/ (call'[c].inst = i /\ call'[c].kind = "rpc")
      /\ \A d \in Clients \ {c} : call'[d] = call[d]
  <2>1. call \in [Clients -> CallRecords] /\ call[c] \in CallRecords
    BY DEF IInv, TypeInv
  <2>2. CASE call' = [call EXCEPT ![c] = NoCall]
    BY <2>1, <2>2 DEF CallRecords, NoCall
  <2>3. CASE call' = [call EXCEPT ![c].at = "get_state"]
    <3>1. [call[c] EXCEPT !.at = "get_state"] \in CallRecords
      BY <2>1 DEF CallRecords
    <3>2. call' = [call EXCEPT ![c] = [call[c] EXCEPT !.at = "get_state"]]
      BY <2>3
    <3>3. call'[c] = [call[c] EXCEPT !.at = "get_state"]
      BY <2>1, <3>2
    <3>4. call'[c].inst = i /\ call'[c].kind = "rpc"
      BY <1>1, <1>2, <2>1, <3>3 DEF CallRecords
    <3>q. QED
      BY <2>1, <3>1, <3>2, <3>4
  <2>q. QED
    BY <1>4, <2>2, <2>3
<1>8. \A t \in {s, w} : CallsBecome(i, t)
  <2>1. call'[Shutdown] # NoCall => server' = "closing"
    <3>1. call[Shutdown] # NoCall => server = "closing"
      BY DEF IInv, CallInv, Clients
    <3>2. call[c] # NoCall
      BY <1>1
    <3>3. Shutdown \in Clients
      BY DEF Clients
    <3>q. QED
      BY <1>4, <1>7, <3>1, <3>2, <3>3
  <2>2. ~Stopping(c, "dispose")
    BY <1>1 DEF Stopping
  <2>q. QED
    BY <1>3, <1>5, <1>7, <2>1, <2>2 DEF CallsBecome
<1>9. MachineType'
  BY <1>4 DEF IInv, TypeInv, MachineType
<1>10. CASE inst' = inst
  <2>1. Becomes(i, s) /\ inst' = [inst EXCEPT ![i] = s]
    BY <1>4, <1>10, StaysSo
  <2>q. QED
    BY <1>3, <1>4, <1>8, <1>9, <2>1, OneInstance
<1>11. CASE inst' = [inst EXCEPT ![i] = w]
  BY <1>3, <1>4, <1>5, <1>6, <1>8, <1>9, <1>11, OneInstance
<1>q. QED
  BY <1>4, <1>10, <1>11


(* A step that changes only what the invariant does not speak of, or ends   *)
(* the heartbeats of an instance that is not live.                          *)
LEMMA Unseen ==
  ASSUME IInv, NEW i \in Instances, NEW t \in Records, inst' = [inst EXCEPT ![i] = t],
         t.live = inst[i].live, t.status = inst[i].status, t.pi = inst[i].pi,
         t.rpc = inst[i].rpc, t.radiusPiId = inst[i].radiusPiId, t.bound = inst[i].bound,
         t.child = inst[i].child, t.file = inst[i].file, t.spawn = inst[i].spawn,
         t.exit = inst[i].exit,
         t.beat = inst[i].beat \/ (t.beat = 0 /\ ~inst[i].live),
         call' = call, raced' = raced, refused' = refused, dropped' = dropped,
         recovery' = recovery, server' = server, machine' = machine \/ MachineType'
  PROVE  IInv'
<1>1. Owned(t)
  BY Here DEF Owned
<1>2. i \notin raced => Sound(t)
  BY Here DEF Sound, Active
<1>3. Becomes(i, t)
  BY <1>1, <1>2, Here DEF Becomes, Active
<1>4. t.child \in {"running", "killed"} =>
        /\ inst[i].child \in {"running", "killed"}
        /\ ~t.rpc => t.spawn = "dispose" \/ (~inst[i].rpc /\ inst[i].spawn # "dispose")
        /\ ~t.live /\ i \notin refused' => ~t.rpc
  BY Here
<1>q. QED
  BY <1>3, <1>4, Quietly

(* Heartbeats, and their answers.                                           *)
LEMMA BeatStep ==
  ASSUME IInv, NEW i \in Instances, Forget(i) \/ SendBeat(i) \/ NotFound(i) \/ RecallFails(i)
  PROVE  IInv'
<1>1. /\ raced' = raced /\ refused' = refused /\ dropped' = dropped /\ recovery' = recovery
      /\ server' = server /\ machine' = machine /\ call' = call
  BY DEF Forget, SendBeat, NotFound, RecallFails, clients, process, history
<1>2. inst[i] \in Records
  BY Here
<1>3. CASE Forget(i)
  <2> DEFINE t == [inst[i] EXCEPT !.forgotten = TRUE]
  <2>1. inst' = [inst EXCEPT ![i] = t]
    BY <1>3 DEF Forget, Update
  <2>2. t \in Records
    BY <1>2 DEF Records
  <2>q. QED
    BY <1>1, <1>2, <2>1, <2>2, Unseen DEF Records
<1>4. CASE SendBeat(i)
  <2> DEFINE t == [inst[i] EXCEPT !.sent = TRUE]
  <2>1. inst' = [inst EXCEPT ![i] = t]
    BY <1>4 DEF SendBeat, Update
  <2>2. t \in Records
    BY <1>2 DEF Records
  <2>q. QED
    BY <1>1, <1>2, <2>1, <2>2, Unseen DEF Records
<1>5. CASE RecallFails(i)
  <2> DEFINE t == [inst[i] EXCEPT !.recall = "no"]
  <2>1. inst' = [inst EXCEPT ![i] = t]
    BY <1>5 DEF RecallFails, Update
  <2>2. t \in Records
    BY <1>2 DEF Records
  <2>q. QED
    BY <1>1, <1>2, <2>1, <2>2, Unseen DEF Records
<1>6. CASE NotFound(i)
  <2> DEFINE held == [inst[i] EXCEPT !.sent = FALSE, !.misses = Missed(@)]
             late == [inst[i] EXCEPT !.late = 0]
  <2>1. ASSUME NEW s \in {held, late}, inst' = [inst EXCEPT ![i] = s] \/ inst' = [inst EXCEPT
                 ![i] = ReRegister(s)]
        PROVE  IInv'
    <3>1. 0 \in 0..Threshold /\ Missed(inst[i].misses) \in 0..Threshold
      BY <1>2, BoundAssumption DEF Missed, Records
    <3>2. /\ s \in Records
          /\ s.live = inst[i].live /\ s.status = inst[i].status /\ s.pi = inst[i].pi
          /\ s.rpc = inst[i].rpc /\ s.radiusPiId = inst[i].radiusPiId /\ s.bound = inst[i].bound
          /\ s.child = inst[i].child /\ s.file = inst[i].file /\ s.spawn = inst[i].spawn
          /\ s.exit = inst[i].exit /\ s.beat = inst[i].beat
      BY <1>2, <2>1, <3>1 DEF Records
    <3> DEFINE t == ReRegister(s)
    <3>3. /\ t \in Records
          /\ t.live = s.live /\ t.status = s.status /\ t.pi = s.pi
          /\ t.rpc = s.rpc /\ t.radiusPiId = s.radiusPiId /\ t.bound = s.bound
          /\ t.child = s.child /\ t.file = s.file /\ t.spawn = s.spawn /\ t.exit = s.exit
          /\ t.beat = s.beat \/ (t.beat = 0 /\ ~s.live)
      <4>1. CASE s.live
        BY <3>2, <4>1 DEF ReRegister, Records
      <4>2. CASE ~s.live
        BY <3>2, <4>2, SilentIs DEF ReRegister
      <4>q. QED
        BY <4>1, <4>2
    <3> HIDE DEF t
    <3>4. CASE inst' = [inst EXCEPT ![i] = s]
      BY <1>1, <3>2, <3>4, Unseen
    <3>5. CASE inst' = [inst EXCEPT ![i] = t]
      BY <1>1, <3>2, <3>3, <3>5, Unseen
    <3>q. QED
      BY <2>1, <3>4, <3>5 DEF t
  <2>q. QED
    BY <1>6, <2>1 DEF NotFound, Update
<1>q. QED
  BY <1>3, <1>4, <1>5, <1>6

(* An instance is registered anew, by its own heartbeats or with all        *)
(* others: either it was online and stays so, or it is counted as raced.    *)
LEMMA RecallStep ==
  ASSUME IInv, NEW i \in Instances, NEW status \in Statuses, NEW t, NEW r,
         r = ReRegistered(inst[i], status), t \in Records,
         inst' = [inst EXCEPT ![i] = t], Races(i, status),
         t.live = r.live, t.bound = r.bound, t.rpc = r.rpc, t.child = r.child,
         t.spawn = r.spawn, t.exit = r.exit, t.status = r.status, t.file = r.file,
         t.pi = r.pi, t.radiusPiId = r.radiusPiId, t.beat = r.beat,
         call' = call, refused' = refused, dropped' = dropped,
         recovery' = recovery, server' = server, machine' = machine \/ MachineType'
  PROVE  IInv'
<1> DEFINE s == inst[i]
<1>1. /\ s \in Records /\ Owned(s)
      /\ raced \subseteq raced' /\ raced' \subseteq raced \union {i}
      /\ i \notin raced' => i \notin raced /\ s.live /\ s.status = "online" /\ status = "online"
  BY Here DEF Races
<1>2. /\ t.live = s.live /\ t.bound = s.bound /\ t.rpc = s.rpc
      /\ t.child = s.child /\ t.spawn = s.spawn /\ t.exit = s.exit
      /\ s.live => /\ t.status = status /\ t.file.status = status /\ t.file.pi = t.pi
                   /\ t.pi # 0 /\ t.radiusPiId = t.pi /\ t.beat = t.pi
  <2>1. /\ r.live = s.live /\ r.bound = s.bound /\ r.rpc = s.rpc
        /\ r.child = s.child /\ r.spawn = s.spawn /\ r.exit = s.exit
        /\ s.live => /\ r.status = status /\ r.file.status = status /\ r.file.pi = r.pi
                     /\ r.pi # 0 /\ r.radiusPiId = r.pi /\ r.beat = r.pi
    BY <1>1, ReRegisteredIs
  <2>q. QED
    BY <2>1
<1>3. Owned(t)
  BY <1>1, <1>2 DEF Owned
<1>4. i \notin raced' => Sound(t) /\ Active(s)
  BY <1>1, <1>2, Here DEF Sound, Active
<1>5. Becomes(i, t)
  BY <1>1, <1>2, <1>3, <1>4 DEF Becomes
<1>6. t.child \in {"running", "killed"} =>
        /\ s.child \in {"running", "killed"}
        /\ ~t.rpc => t.spawn = "dispose" \/ (~s.rpc /\ s.spawn # "dispose")
        /\ ~t.live /\ i \notin refused' => ~t.rpc
  BY <1>2, Here
<1>q. QED
  BY <1>1, <1>5, <1>6, Quietly

(* The answer to the re-registration its heartbeats caused.                 *)
LEMMA RecalledStep == ASSUME IInv, NEW i \in Instances, Recalled(i) PROVE IInv'
<1> DEFINE r == ReRegistered(inst[i], inst[i].recall)
           t == [r EXCEPT !.recall = "no"]
<1>1. /\ inst[i].recall \in Statuses /\ inst[i] \in Records
      /\ inst' = [inst EXCEPT ![i] = t] /\ Races(i, inst[i].recall)
  BY Here DEF Recalled, Update, Records
<1>2. r \in Records
  BY <1>1, ReRegisteredIs
<1>3. /\ refused' = refused /\ dropped' = dropped /\ recovery' = recovery
      /\ server' = server /\ machine' = machine /\ call' = call
  BY DEF Recalled, clients, process
<1> HIDE DEF r
<1>6. t \in Records
  BY <1>2 DEF Records
<1>7. /\ t.live = r.live /\ t.bound = r.bound /\ t.rpc = r.rpc /\ t.child = r.child
      /\ t.spawn = r.spawn /\ t.exit = r.exit /\ t.status = r.status /\ t.file = r.file
      /\ t.pi = r.pi /\ t.radiusPiId = r.radiusPiId /\ t.beat = r.beat
  BY <1>2 DEF Records
<1> HIDE DEF t
<1>8. r = ReRegistered(inst[i], inst[i].recall)
  BY DEF r
<1>q. QED
  BY <1>1, <1>3, <1>6, <1>7, <1>8, RecallStep

(* The re-registration of the machine.                                      *)
LEMMA MachineStep ==
  ASSUME IInv, NEW i \in Instances, MachineNext(i) \/ MachineRecalled(i) PROVE IInv'
<1>1. /\ refused' = refused /\ dropped' = dropped /\ recovery' = recovery
      /\ server' = server /\ call' = call
  BY DEF MachineNext, MachineRecalled, clients, process, history
<1>2. inst[i] \in Records
  BY Here
<1>3. CASE MachineNext(i)
  <2>1. raced' = raced /\ machine.at = None
    BY <1>3 DEF MachineNext, history
  <2>2. CASE inst[i].live
    <3>1. /\ inst' = inst
          /\ machine' = [todo |-> machine.todo \ {i}, at |-> i, status |-> inst[i].status]
      BY <1>3, <2>2 DEF MachineNext
    <3>2. inst[i].status \in Statuses
      BY <1>2 DEF Records
    <3>3. MachineType'
      BY <3>1, <3>2 DEF MachineType, IInv, TypeInv
    <3>4. inst' = [inst EXCEPT ![i] = inst[i]]
      BY <2>1, <3>1, StaysSo
    <3>q. QED
      BY <1>1, <1>2, <2>1, <3>3, <3>4, Unseen
  <2>3. CASE ~inst[i].live
    <3> DEFINE q == Silent(inst[i])
    <3>1. inst' = [inst EXCEPT ![i] = q] /\ machine' = [machine EXCEPT !.todo = @ \ {i}]
      BY <1>3, <2>3 DEF MachineNext, Update
    <3>2. machine \in [todo : SUBSET Instances, at : Instances \union {None},
                       status : Statuses \union {"no"}]
      BY DEF IInv, TypeInv, MachineType
    <3>3. MachineType'
      BY <2>1, <3>1, <3>2 DEF MachineType
    <3>4. /\ q \in Records /\ q.beat = 0
          /\ q.live = inst[i].live /\ q.status = inst[i].status /\ q.pi = inst[i].pi
          /\ q.rpc = inst[i].rpc /\ q.radiusPiId = inst[i].radiusPiId
          /\ q.bound = inst[i].bound /\ q.child = inst[i].child /\ q.file = inst[i].file
          /\ q.spawn = inst[i].spawn /\ q.exit = inst[i].exit
      BY <1>2, SilentIs
    <3> HIDE DEF q
    <3>q. QED
      BY <1>1, <2>1, <2>3, <3>1, <3>3, <3>4, Unseen
  <2>q. QED
    BY <2>2, <2>3
<1>4. CASE MachineRecalled(i)
  <2>1. machine.at = i /\ machine.status \in Statuses
    BY <1>4, NameAssumption DEF MachineRecalled, IInv, TypeInv, MachineType
  <2>2. machine' = [machine EXCEPT !.at = None, !.status = "no"]
    BY <1>4 DEF MachineRecalled
  <2>3. MachineType'
    BY <2>2 DEF MachineType, IInv, TypeInv
  <2>4. CASE inst' = inst /\ raced' = raced
    <3>1. inst' = [inst EXCEPT ![i] = inst[i]]
      BY <2>4, StaysSo
    <3>q. QED
      BY <1>1, <1>2, <2>3, <2>4, <3>1, Unseen
  <2>5. CASE inst' = [inst EXCEPT ![i] = ReRegistered(inst[i], machine.status)]
             /\ Races(i, machine.status)
    <3>1. ReRegistered(inst[i], machine.status) \in Records
      BY <1>2, <2>1, ReRegisteredIs
    <3>q. QED
      BY <1>1, <2>1, <2>3, <2>5, <3>1, RecallStep
  <2>q. QED
    BY <1>4, <2>4, <2>5 DEF MachineRecalled, Update
<1>q. QED
  BY <1>3, <1>4


(* Steps of the server that touch no instance and no call.                  *)
LEMMA ServerStep ==
  ASSUME IInv, inst' = inst, call' = call, raced' = raced, refused' = refused, dropped' = dropped,
         MachineType',
         recovery'.files \in [Instances -> FileRecords],
         \A i \in Instances : recovery'.files[i].status \notin {"online", "starting"},
         \/ server' = server
         \/ server' = "closing" /\ server = "up"
         \/ server' = "recovering" /\ server = "down"
         \/ server' = "stuck" /\ server = "disconnecting"
  PROVE  IInv'
<1> USE DEF IInv
<1>1. TypeInv'
  BY DEF TypeInv
<1>2. SoundInv'
  BY DEF SoundInv, Sound, Quiet
<1>3. CallInv'
  <2>1. \A c \in Clients : call[c] # NoCall /\ c = Shutdown => server' = "closing"
    BY DEF CallInv
  <2>2. Stopping(Shutdown, "disconnect")' = Stopping(Shutdown, "disconnect")
    BY DEF Stopping
  <2>q. QED
    BY <2>1, <2>2 DEF CallInv, Stopping, Active
<1>4. ChildInv'
  BY DEF ChildInv, Awaited, Stopping
<1>5. FileInv'
  BY DEF FileInv
<1>q. QED
  BY <1>1, <1>2, <1>3, <1>4, <1>5

(* Of that kind are the start of a re-registration, of a shutdown and of a  *)
(* recovery, the disconnections of a recovery, and a shutdown that fails.   *)
LEMMA OfServer ==
  ASSUME IInv,
         \/ MachineForgotten \/ BeginShutdown \/ Start \/ ShutdownFails
         \/ \E i \in Instances : Recover(i)
  PROVE  IInv'
<1>1. /\ recovery.files \in [Instances -> FileRecords]
      /\ \A i \in Instances : recovery.files[i].status \notin {"online", "starting"}
      /\ MachineType
  BY DEF IInv, TypeInv, FileInv
<1>2. CASE MachineForgotten
  <2>1. machine' = [todo |-> {i \in Instances : inst[i].live}, at |-> None, status |-> "no"]
    BY <1>2 DEF MachineForgotten, NoRecall
  <2>2. MachineType'
    BY <2>1 DEF MachineType
  <2>q. QED
    BY <1>1, <1>2, <2>2, ServerStep DEF MachineForgotten, clients, process, history
<1>3. CASE BeginShutdown
  <2>1. MachineType'
    BY <1>1, <1>3 DEF BeginShutdown, MachineType
  <2>q. QED
    BY <1>1, <1>3, <2>1, ServerStep DEF BeginShutdown, clients, history
<1>4. CASE Start
  <2>1. MachineType'
    BY <1>1, <1>4 DEF Start, MachineType
  <2>2. recovery'.files = [i \in Instances |-> Recovered(inst[i].file)]
    BY <1>4 DEF Start
  <2>3. \A i \in Instances : /\ Recovered(inst[i].file) \in FileRecords
                             /\ Recovered(inst[i].file).status \notin {"online", "starting"}
    <3>1. \A i \in Instances : inst[i].file \in FileRecords
      BY Here DEF Records
    <3>q. QED
      BY <3>1 DEF Recovered, FileRecords, Statuses
  <2>q. QED
    BY <1>4, <2>1, <2>2, <2>3, ServerStep DEF Start, clients, history
<1>5. CASE \E i \in Instances : Recover(i)
  <2>1. MachineType'
    BY <1>1, <1>5 DEF Recover, MachineType
  <2>2. recovery'.files = recovery.files
    BY <1>5 DEF Recover, IInv, TypeInv
  <2>q. QED
    BY <1>1, <1>5, <2>1, <2>2, ServerStep DEF Recover, clients, history
<1>6. CASE ShutdownFails
  <2>1. MachineType'
    BY <1>1, <1>6 DEF ShutdownFails, MachineType
  <2>q. QED
    BY <1>1, <1>6, <2>1, ServerStep DEF ShutdownFails, clients, history
<1>q. QED
  BY <1>2, <1>3, <1>4, <1>5, <1>6

(* The end of a shutdown stops all heartbeats.                              *)
LEMMA PresenceStopsStep == ASSUME IInv, PresenceStops PROVE IInv'
<1> USE DEF IInv
<1>1. /\ server = "closing" /\ call[Shutdown] = NoCall /\ server' = "disconnecting"
      /\ inst' = [i \in Instances |-> Silent(inst[i])]
      /\ call' = call /\ raced' = raced /\ refused' = refused /\ dropped' = dropped
      /\ recovery' = recovery /\ machine' = machine
  BY DEF PresenceStops, clients, history
<1>2. \A i \in Instances :
        /\ inst'[i] \in Records /\ inst'[i].beat = 0
        /\ inst'[i].status = inst[i].status /\ inst'[i].file = inst[i].file
        /\ inst'[i].rpc = inst[i].rpc /\ inst'[i].live = inst[i].live
        /\ inst'[i].pi = inst[i].pi /\ inst'[i].radiusPiId = inst[i].radiusPiId
        /\ inst'[i].bound = inst[i].bound /\ inst'[i].child = inst[i].child
        /\ inst'[i].spawn = inst[i].spawn /\ inst'[i].exit = inst[i].exit
  BY <1>1, Here, SilentIs
<1>3. TypeInv'
  <2>1. MachineType'
    BY <1>1 DEF TypeInv, MachineType
  <2>q. QED
    BY <1>1, <1>2, <2>1 DEF TypeInv
<1>4. SoundInv'
  BY <1>1, <1>2 DEF SoundInv, Owned, Sound, Active, Quiet
<1>5. CallInv'
  BY <1>1, <1>2 DEF CallInv, Stopping, Active, Clients
<1>6. ChildInv'
  BY <1>1, <1>2 DEF ChildInv, Awaited, Stopping
<1>7. FileInv'
  BY <1>1, <1>2 DEF FileInv
<1>q. QED
  BY <1>3, <1>4, <1>5, <1>6, <1>7

(* The process is gone: what it knew of its instances is in the file.       *)
LEMMA GoneStep == ASSUME IInv, Gone PROVE IInv'
<1> DEFINE gone(i) == [Unused EXCEPT !.file = inst[i].file, !.child = "dead", !.spawn = "ended"]
<1>1. /\ server' = "down" /\ call' = [c \in Clients |-> NoCall] /\ machine' = NoRecall
      /\ recovery' = [todo |-> {}, files |-> [i \in Instances |-> Absent]]
      /\ inst' = [i \in Instances |-> IF inst[i] = Unused THEN Unused ELSE gone(i)]
  BY DEF Gone, IInv, TypeInv
<1>2. Unused \in Records
  <2>1. 0 \in 0..Threshold
    BY BoundAssumption
  <2>q. QED
    BY <2>1 DEF Unused, Absent, Records, FileRecords, Statuses, SpawnPlaces
<1>3. /\ Unused.live = FALSE /\ Unused.status = "none" /\ Unused.exit = FALSE
      /\ Unused.spawn = "none" /\ Unused.child = "none" /\ Unused.beat = 0 /\ Unused.rpc = FALSE
      /\ Unused.file = Absent
  BY DEF Unused
<1>4. \A i \in Instances :
        /\ gone(i) \in Records /\ gone(i).live = FALSE /\ gone(i).status = "none"
        /\ gone(i).exit = FALSE /\ gone(i).spawn = "ended" /\ gone(i).child = "dead"
        /\ gone(i).beat = 0
  BY <1>2, <1>3, Here DEF Records, SpawnPlaces
<1> HIDE DEF gone
<1>5. \A i \in Instances :
        /\ inst'[i] \in Records /\ inst'[i].live = FALSE /\ inst'[i].status = "none"
        /\ inst'[i].exit = FALSE /\ inst'[i].spawn # "disconnectOnly" /\ inst'[i].beat = 0
        /\ inst'[i].child \notin {"running", "killed"}
  BY <1>1, <1>2, <1>3, <1>4
<1>6. TypeInv'
  <2>1. /\ NoCall \in CallRecords /\ Absent \in FileRecords
        /\ NoRecall \in [todo : SUBSET Instances, at : Instances \union {None},
                         status : Statuses \union {"no"}]
        /\ NoRecall.at = None
    BY DEF NoCall, CallRecords, Absent, FileRecords, NoRecall
  <2>2. inst' \in [Instances -> Records]
    BY <1>1, <1>5
  <2>3. MachineType'
    BY <1>1, <2>1 DEF MachineType
  <2>4. recovery'.files \in [Instances -> FileRecords]
    BY <1>1, <2>1
  <2>q. QED
    BY <1>1, <2>1, <2>2, <2>3, <2>4 DEF TypeInv
<1>7. SoundInv'
  BY <1>5, InactiveIsSound DEF SoundInv, Owned, Sound, Active
<1>8. CallInv'
  BY <1>1 DEF CallInv, Clients
<1>9. ChildInv'
  BY <1>5 DEF ChildInv
<1>10. FileInv'
  BY <1>1, <1>5 DEF FileInv, Absent
<1>q. QED
  BY <1>6, <1>7, <1>8, <1>9, <1>10 DEF IInv

(* The records are saved as the recovery read them.                         *)
LEMMA EndRecoveryStep == ASSUME IInv, EndRecovery PROVE IInv'
<1> USE DEF IInv
<1> DEFINE kept(i) == [inst[i] EXCEPT !.file = recovery.files[i]]
<1>1. /\ server = "recovering" /\ server' = "up" /\ inst' = [i \in Instances |-> kept(i)]
      /\ dropped' = dropped \union {i \in Instances : inst[i].live}
      /\ call' = call /\ recovery' = recovery /\ machine' = machine /\ raced' = raced
      /\ refused' = refused
  BY DEF EndRecovery, clients
<1>2. \A i \in Instances :
        /\ recovery.files[i] \in FileRecords
        /\ recovery.files[i].status \notin {"online", "starting"}
  BY DEF TypeInv, FileInv
<1>3. \A i \in Instances :
        /\ kept(i) \in Records /\ kept(i).file = recovery.files[i]
        /\ kept(i).live = inst[i].live /\ kept(i).status = inst[i].status
        /\ kept(i).pi = inst[i].pi /\ kept(i).rpc = inst[i].rpc
        /\ kept(i).radiusPiId = inst[i].radiusPiId /\ kept(i).bound = inst[i].bound
        /\ kept(i).child = inst[i].child /\ kept(i).spawn = inst[i].spawn
        /\ kept(i).exit = inst[i].exit /\ kept(i).beat = inst[i].beat
  <2> SUFFICES ASSUME NEW i \in Instances
               PROVE  /\ kept(i) \in Records /\ kept(i).file = recovery.files[i]
                      /\ kept(i).live = inst[i].live /\ kept(i).status = inst[i].status
                      /\ kept(i).pi = inst[i].pi /\ kept(i).rpc = inst[i].rpc
                      /\ kept(i).radiusPiId = inst[i].radiusPiId
                      /\ kept(i).bound = inst[i].bound
                      /\ kept(i).child = inst[i].child /\ kept(i).spawn = inst[i].spawn
                      /\ kept(i).exit = inst[i].exit /\ kept(i).beat = inst[i].beat
    OBVIOUS
  <2>1. PICK r \in Records, s \in FileRecords : r = inst[i] /\ s = recovery.files[i]
    BY <1>2, Here
  <2>2. kept(i) = [r EXCEPT !.file = s]
    BY <2>1
  <2>3. kept(i) \in Records /\ kept(i).file = s
    BY <2>2 DEF Records
  <2> HIDE DEF IInv
  <2>q. QED
    BY <2>1, <2>2, <2>3 DEF Records
<1> HIDE DEF kept
<1>4. TypeInv'
  BY <1>1, <1>3 DEF TypeInv, MachineType
<1>5. SoundInv'
  <2> SUFFICES ASSUME NEW i \in Instances
               PROVE  Owned(kept(i)) /\ (i \notin raced => Sound(kept(i)))
    BY <1>1 DEF SoundInv, Owned, Sound, Active, Quiet
  <2>1. Owned(inst[i]) /\ (i \notin raced => Sound(inst[i]))
    BY Here
  <2>q. QED
    BY <1>3, <2>1 DEF Owned, Sound, Active, Quiet
<1>6. CallInv'
  BY <1>1, <1>3 DEF CallInv, Stopping, Active, Clients
<1>7. ChildInv'
  BY <1>1, <1>3 DEF ChildInv, Awaited, Stopping
<1>8. FileInv'
  BY <1>1, <1>2, <1>3 DEF FileInv
<1>q. QED
  BY <1>4, <1>5, <1>6, <1>7, <1>8

------------------------------------------------------------------------------
(* The invariant.                                                           *)

(* It holds before the first spawn.                                         *)
LEMMA InitIInv == Init => IInv
<1> SUFFICES ASSUME Init PROVE IInv
  OBVIOUS
<1>1. Unused \in Records
  <2>1. 0 \in 0..Threshold
    BY BoundAssumption
  <2>q. QED
    BY <2>1 DEF Unused, Absent, Records, FileRecords, Statuses, SpawnPlaces
<1>2. \A i \in Instances : inst[i] = Unused
  BY DEF Init
<1>3. TypeInv
  <2>1. NoCall \in CallRecords /\ Absent \in FileRecords
    BY DEF NoCall, CallRecords, Absent, FileRecords
  <2>2. MachineType
    BY DEF Init, NoRecall, MachineType
  <2>q. QED
    BY <1>1, <2>1, <2>2 DEF Init, TypeInv, Clients
<1>4. SoundInv
  <2>1. Owned(Unused) /\ ~Active(Unused) /\ Unused.beat = 0
    BY DEF Owned, Active, Unused
  <2>q. QED
    BY <1>1, <1>2, <2>1, InactiveIsSound DEF SoundInv
<1>5. CallInv
  BY DEF Init, CallInv, Clients
<1>6. ChildInv
  BY <1>2 DEF ChildInv, Unused
<1>7. FileInv
  BY <1>2 DEF Init, FileInv, Unused, Absent
<1>q. QED
  BY <1>3, <1>4, <1>5, <1>6, <1>7 DEF IInv

(* Every step keeps it.                                                     *)
LEMMA NextIInv == IInv /\ [Next]_vars => IInv'
<1> SUFFICES ASSUME IInv, [Next]_vars PROVE IInv'
  OBVIOUS
<1>0. Callers \subseteq Clients /\ Shutdown \in Clients /\ DOMAIN call = Clients
      /\ Shutdown \notin Callers
  BY NameAssumption DEF Clients, IInv, TypeInv
<1>1. ASSUME NEW i \in Instances, NEW c \in Callers, Stop(c, i) PROVE IInv'
  <2>1. call[c] = NoCall /\ BeginStop(c, i) /\ c # Shutdown /\ c \in Clients
    BY <1>0, <1>1 DEF Stop
  <2>2. UNCHANGED <<server, recovery, machine, raced, refused, dropped>>
    BY <1>1 DEF Stop, process, history
  <2>q. QED
    BY <2>1, <2>2, BeginStopStep
<1>2. ASSUME NEW i \in Instances, NEW c \in Callers, Rpc(c, i) PROVE IInv'
  <2>1. c \in Clients /\ c # Shutdown
    BY <1>0
  <2>q. QED
    BY <1>2, <2>1, RpcStep
<1>3. ASSUME NEW i \in Instances, ShutdownNext(i) PROVE IInv'
  <2>1. server = "closing" /\ call[Shutdown] = NoCall /\ Shutdown \in Clients
    BY <1>0, <1>3 DEF ShutdownNext
  <2>2. UNCHANGED <<server, recovery, machine, raced, refused, dropped>>
    BY <1>3 DEF ShutdownNext, history
  <2>3. CASE BeginStop(Shutdown, i)
    BY <2>1, <2>2, <2>3, BeginStopStep
  <2>4. CASE UNCHANGED <<inst, call>>
    <3>1. MachineType' /\ FileInv
      BY <2>2 DEF IInv, TypeInv, MachineType
    <3>q. QED
      BY <2>2, <2>4, <3>1, ServerStep DEF IInv, TypeInv, FileInv
  <2>q. QED
    BY <1>3, <2>3, <2>4 DEF ShutdownNext
<1>4. ASSUME NEW i \in Instances, InstanceStep(i) PROVE IInv'
  BY <1>3, <1>4, SyncedStep, OnlineStep, SpawnDisconnectedStep, SpawnEndsStep, ExitStep,
     ExitDisconnectedStep, RecalledStep, MachineStep, OfServer DEF InstanceStep
<1>5. ASSUME NEW i \in Instances,
             \/ Spawn(i) \/ RegistrationFails(i) \/ SpawnUndoFails(i) \/ Exit(i)
             \/ Forget(i) \/ SendBeat(i) \/ NotFound(i) \/ RecallFails(i)
      PROVE  IInv'
  BY <1>5, SpawnStep, RegistrationFailsStep, SpawnEndsStep, ExitStep, BeatStep
<1>6. ASSUME NEW c \in Clients, StopFails(c) \/ CallStep(c) PROVE IInv'
  BY <1>6, StopEndsStep, StopDisconnectedStep, AnsweredStep DEF CallStep
<1>7. CASE MachineForgotten \/ BeginShutdown \/ Start \/ ShutdownFails
  BY <1>7, OfServer
<1>11. CASE PresenceStops
  BY <1>11, PresenceStopsStep
<1>8. CASE ShutdownEnds \/ Crash \/ RecoveryFails
  BY <1>8, GoneStep DEF ShutdownEnds, Crash, RecoveryFails
<1>9. CASE EndRecovery
  BY <1>9, EndRecoveryStep
<1>10. CASE UNCHANGED vars
  <2>1. /\ inst' = inst /\ call' = call /\ raced' = raced /\ refused' = refused
        /\ dropped' = dropped /\ machine' = machine /\ recovery' = recovery /\ server' = server
    BY <1>10 DEF vars, clients, process, history
  <2>2. MachineType'
    BY <2>1 DEF IInv, TypeInv, MachineType
  <2>q. QED
    BY <2>1, <2>2, ServerStep DEF IInv, TypeInv, FileInv
<1>q. QED
  BY <1>0, <1>1, <1>2, <1>4, <1>5, <1>6, <1>7, <1>8, <1>9, <1>10, <1>11 DEF Next


(* Whatever the order of spawns, stops, exits, registrations and restarts,  *)
(* the supervisor's records, calls, children and file stay as above.        *)
THEOREM Invariance == Spec => []IInv
BY InitIInv, NextIInv, PTL DEF Spec

(* No child is orphaned: unless its disconnection failed, an instance that  *)
(* is not live and with which the code is done has no child that still runs *)
(* (cleanupAcquiredResources, stopInstance, handleUnexpectedRpcExit).       *)
THEOREM NoChildIsOrphaned == Spec => []NoOrphan
<1>1. IInv => NoOrphan
  <2> SUFFICES ASSUME IInv, NEW i \in Instances, ~inst[i].live, ~Busy(i), i \notin refused
               PROVE  inst[i].child \in {"none", "dead"}
    BY DEF NoOrphan
  <2>1. inst[i].child \in {"none", "running", "killed", "dead"}
    BY Here DEF Records
  <2>2. DOMAIN call = Clients
    BY DEF IInv, TypeInv
  <2>3. ~Awaited(i)
    BY <2>2 DEF Awaited, Busy
  <2>q. QED
    BY <2>1, <2>3, Here
<1>q. QED
  BY <1>1, Invariance, PTL

(* What is gone is gone: an instance that has ended without a registration  *)
(* that overtook its end sends no heartbeats, and a server that is up does  *)
(* not list it as online or starting (failSpawn, stopInstance,              *)
(* handleUnexpectedRpcExit, recoverAfterRestart).                           *)
THEOREM WhatIsGoneIsGone == Spec => []GoneIsGone
<1>1. IInv => GoneIsGone
  <2> SUFFICES ASSUME IInv, NEW i \in Instances, server = "up", ~inst[i].live, i \notin raced
               PROVE  inst[i].beat = 0 /\ inst[i].file.status \notin {"online", "starting"}
    BY DEF GoneIsGone
  <2>q. QED
    BY Here DEF Sound, Active
<1>q. QED
  BY <1>1, Invariance, PTL

(* All copies of an online instance agree: its child runs and its exit is   *)
(* listened for, and the record, the resources and the heartbeats hold the  *)
(* same pi, but for what the end of a shutdown took the heartbeats from     *)
(* (spawnInstance, reRegisterPi, RadiusPresence.stop).                      *)
THEOREM OnlineCopiesAgree == Spec => []OnlineAgrees
<1>1. IInv => OnlineAgrees
  BY Here DEF OnlineAgrees, Sound, Active, Quiet
<1>q. QED
  BY <1>1, Invariance, PTL

(* What a crash would leave behind at Radius is in instances.json, under    *)
(* the pi that has heartbeats, so that recoverAfterRestart can disconnect   *)
(* it, unless a registration raced or a recovery overwrote the record.      *)
THEOREM LiveInstancesAreListed == Spec => []LiveIsListed
<1>1. IInv => LiveIsListed
  <2> SUFFICES ASSUME IInv, NEW i \in Instances, inst[i].live, i \notin raced, i \notin dropped
               PROVE  /\ inst[i].file # Absent
                      /\ inst[i].beat # 0 => inst[i].file.pi = inst[i].beat
    BY DEF LiveIsListed
  <2>q. QED
    BY Here DEF Sound, Absent
<1>q. QED
  BY <1>1, Invariance, PTL


===============================================================================
