--------------------------- MODULE ServerSupervisor ---------------------------
(***************************************************************************)
(* The server that runs agents as child processes: the supervisor's live   *)
(* instances, instances.json, each child's RPC process, and the presence   *)
(* at Radius, which gives every registered instance an id, a "pi", and     *)
(* expects heartbeats for it.  A step is what the process does between two *)
(* awaits: an answer of a child or of Radius, the exit of a child, a       *)
(* request, a timer.  Requests to Radius may fail.                         *)
(*                                                                         *)
(* Outside the code: a child answers get_state and ends on SIGTERM or when *)
(* the server is gone.  Credentials for Radius are there and the machine   *)
(* is registered.                                                          *)
(***************************************************************************)
EXTENDS Naturals

CONSTANTS
  Instances,
  Callers,        \* clients with a stop or rpc request in progress
  Shutdown,       \* the caller that stands for shutdown()
  None,
  Threshold,      \* NOT_FOUND_RETRY_THRESHOLD
  MaxCalls,       \* bound: requests to stop an instance or to talk to it
  MaxFaults       \* bound: failures of a child, of Radius or of the server

ASSUME NameAssumption == Shutdown \notin Callers /\ None \notin Instances
ASSUME BoundAssumption == Threshold \in Nat \ {0} /\ MaxCalls \in Nat /\ MaxFaults \in Nat

VARIABLES
  server,         \* "up", "recovering", "closing", "disconnecting", "stuck" or "down"
  inst,           \* per instance, a record like Unused
  call,           \* per caller, a record like NoCall
  leaving,        \* instances shutdown() has yet to stop
  recovery,       \* what recoverAfterRestart() has read and has yet to disconnect
  machine,        \* the re-registration of all instances, a record like NoRecall
  calls, faults,
  raced,          \* instances registered while they were stopped, or twice at once
  refused,        \* instances whose disconnection failed
  dropped         \* instances whose record a recovery overwrote

clients == <<call, calls>>
process == <<server, leaving, recovery>>
history == <<raced, refused, dropped>>
vars == <<inst, clients, process, machine, faults, history>>

Absent == [status |-> "absent", pi |-> 0]
Unused ==
  [live |-> FALSE,          \* it is in liveInstances
   status |-> "none", pi |-> 0,   \* its record
   rpc |-> FALSE,           \* resources.rpcProcess
   radiusPiId |-> 0,        \* resources.radiusPiId
   bound |-> FALSE,         \* the exit of its child is listened for
   child |-> "none",        \* "running", "killed" or "dead"
   file |-> Absent,         \* its record in instances.json
   spawn |-> "none",        \* where spawnInstance is
   exit |-> FALSE,          \* handleUnexpectedRpcExit awaits a disconnection
   beat |-> 0,              \* the pi of its heartbeats
   misses |-> 0, sent |-> FALSE,
   late |-> 0,              \* what a "not found" counts for a heartbeat sent before its end
   forgotten |-> FALSE,     \* Radius does not know that pi any more
   recall |-> "no",         \* the status read by the re-registration in progress
   pis |-> 0]               \* registrations so far
NoCall == [kind |-> "none", inst |-> None, at |-> "none", rpc |-> FALSE]
NoRecall == [todo |-> {}, at |-> None, status |-> "no"]

Init ==
  /\ server = "up"
  /\ inst = [i \in Instances |-> Unused]
  /\ call = [c \in Callers \union {Shutdown} |-> NoCall]
  /\ leaving = {} /\ recovery = [todo |-> {}, files |-> [i \in Instances |-> Absent]]
  /\ machine = NoRecall
  /\ calls = MaxCalls /\ faults = MaxFaults
  /\ raced = {} /\ refused = {} /\ dropped = {}

Fault == faults > 0 /\ faults' = faults - 1

(* Requests are served from the start of a recovery until the process is    *)
(* gone: a shutdown accepts no connections, but leaves open ones alone.     *)
Alive == server # "down"

------------------------------------------------------------------------------
(* One instance: what each piece of the code makes of it.                   *)

Upsert(s) == [s EXCEPT !.file = [status |-> s.status, pi |-> s.pi]]
SetStatus(s, status) == Upsert([s EXCEPT !.status = status])
Unbound(s) == [s EXCEPT !.bound = FALSE]

(* Mutant: the heartbeats go on.                                            *)
SilentNot(s) == s

(* What one "not found" more makes of a count.                              *)
Missed(n) == IF n < Threshold THEN n + 1 ELSE n

(* disconnectPi: no more heartbeats, then the request.  A heartbeat under   *)
(* way keeps the count it will add to.                                      *)
Silent(s) ==
  [s EXCEPT !.beat = 0, !.misses = 0, !.forgotten = FALSE, !.sent = FALSE,
            !.late = IF s.sent THEN Missed(s.misses) ELSE @]

Kill(s) == [s EXCEPT !.rpc = FALSE, !.child = IF @ = "running" THEN "killed" ELSE @]

(* failSpawn: cleanupAcquiredResources up to its first await, and the end.  *)
SpawnEnds(s) == [SetStatus(s, "stopped") EXCEPT !.live = FALSE, !.spawn = "ended"]

(* Mutant: a spawn that fails cleans nothing up.                            *)
SpawnFailsOnly(s) == SpawnEnds(SetStatus(s, "error"))

SpawnFails(s) ==
  LET e == Unbound(SetStatus(s, "error"))
  IN CASE e.radiusPiId # 0 ->
            [Silent(e) EXCEPT !.spawn = IF e.rpc THEN "disconnect" ELSE "disconnectOnly"]
       [] e.radiusPiId = 0 /\ e.rpc -> [Kill(e) EXCEPT !.spawn = "dispose"]
       [] OTHER -> SpawnEnds(e)

(* dispose(): what waits for the child is rejected.                         *)
Dispose(s) ==
  LET k == Kill(s) IN IF k.spawn = "get_state" THEN SpawnFails(k) ELSE k

Disconnected(s) == [s EXCEPT !.radiusPiId = 0, !.pi = 0]

(* The end of stopInstance, whatever happened.                              *)
StopEnds(s) == [s EXCEPT !.status = "stopped", !.live = FALSE, !.file = Absent]

(* handleUnexpectedRpcExit up to its await; what waits for the child is     *)
(* rejected.                                                                *)
HandleExit(s) ==
  IF ~s.bound \/ ~s.live \/ s.status \in {"stopping", "stopped"}
  THEN s
  ELSE LET e == [Unbound(SetStatus(s, "error")) EXCEPT !.rpc = FALSE]
       IN IF e.radiusPiId # 0 THEN [Silent(e) EXCEPT !.exit = TRUE] ELSE [e EXCEPT !.live = FALSE]

(* Mutant: what waits for the child goes on waiting.                        *)
ExitedQuietly(s) == HandleExit([s EXCEPT !.child = "dead"])

Exited(s) ==
  LET e == HandleExit([s EXCEPT !.child = "dead"])
  IN IF e.spawn = "get_state" THEN SpawnFails(e) ELSE e

(* registerPi's answer: a new pi and its heartbeats.                        *)
Registered(s) ==
  [s EXCEPT !.pis = @ + 1, !.beat = s.pis + 1, !.misses = 0, !.forgotten = FALSE]

(* Mutant: the record is saved before it has its pi.                        *)
SpawnRegisteredLate(s) ==
  LET r == Registered(s)
  IN [SetStatus(r, "online") EXCEPT !.pi = r.pis, !.radiusPiId = r.pis, !.spawn = "ended"]

SpawnRegistered(s) ==
  LET r == Registered(s)
  IN [SetStatus([r EXCEPT !.pi = r.pis, !.radiusPiId = r.pis], "online") EXCEPT !.spawn = "ended"]

(* Mutant: the new pi is not kept among the resources.                      *)
ReRegisteredRecord(s, status) ==
  LET r == [Registered(s) EXCEPT !.file = [status |-> status, pi |-> s.pis + 1]]
  IN IF s.live THEN [r EXCEPT !.status = status, !.pi = r.pis] ELSE r

(* updateInstance, with the record as it was before the request.            *)
ReRegistered(s, status) ==
  LET r == [Registered(s) EXCEPT !.file = [status |-> status, pi |-> s.pis + 1]]
  IN IF s.live THEN [r EXCEPT !.status = status, !.pi = r.pis, !.radiusPiId = r.pis] ELSE r

Update(i, s) == inst' = [inst EXCEPT ![i] = s]

(* Requests to the child that are answered by its end.                      *)
Rejected(i) ==
  [c \in DOMAIN call |-> IF call[c].kind = "rpc" /\ call[c].inst = i THEN NoCall ELSE call[c]]

------------------------------------------------------------------------------
(* spawnInstance                                                            *)

Spawn(i) ==
  /\ Alive /\ inst[i] = Unused
  /\ Update(i, [SetStatus(Unused, "starting") EXCEPT
                  !.live = TRUE, !.rpc = TRUE, !.bound = TRUE, !.child = "running",
                  !.spawn = "get_state"])
  /\ UNCHANGED <<clients, process, machine, faults, history>>

(* The child answers get_state, and the instance is to be registered.       *)
Synced(i) ==
  /\ inst[i].spawn = "get_state" /\ inst[i].child = "running"
  /\ Update(i, [Upsert(inst[i]) EXCEPT !.spawn = "register"])
  /\ UNCHANGED <<clients, process, machine, faults, history>>

Online(i) ==
  /\ inst[i].spawn = "register"
  /\ Update(i, SpawnRegistered(inst[i]))
  /\ raced' = (IF inst[i].status = "starting" /\ inst[i].radiusPiId = 0 THEN raced
               ELSE raced \union {i})
  /\ UNCHANGED <<clients, process, machine, faults, refused, dropped>>

(* Radius refuses; the child is disposed.                                   *)
RegistrationFails(i) ==
  /\ inst[i].spawn = "register" /\ Fault
  /\ Update(i, SpawnFails(inst[i]))
  /\ call' = (IF inst[i].rpc /\ inst[i].radiusPiId = 0 THEN Rejected(i) ELSE call)
  /\ UNCHANGED <<calls, process, machine, history>>

(* failSpawn after its disconnection, which may fail.                       *)
SpawnDisconnected(i) ==
  /\ inst[i].spawn \in {"disconnect", "disconnectOnly"}
  /\ LET s == Disconnected(inst[i])
     IN IF s.spawn = "disconnect"
        THEN Update(i, [Kill(s) EXCEPT !.spawn = "dispose"]) /\ call' = Rejected(i)
        ELSE Update(i, SpawnEnds(s)) /\ UNCHANGED call
  /\ UNCHANGED <<calls, process, machine, faults, history>>

(* (It ends the spawn, and needs no bound.)                                 *)
SpawnUndoFails(i) ==
  /\ inst[i].spawn \in {"disconnect", "disconnectOnly"}
  /\ Update(i, SpawnEnds(inst[i])) /\ refused' = refused \union {i}
  /\ UNCHANGED <<clients, process, machine, faults, raced, dropped>>

SpawnDisposed(i) ==
  /\ inst[i].spawn = "dispose" /\ inst[i].child = "dead"
  /\ Update(i, SpawnEnds(inst[i]))
  /\ UNCHANGED <<clients, process, machine, faults, history>>

------------------------------------------------------------------------------
(* stopInstance, for a client or for shutdown()                             *)

BeginStop(c, i) ==
  LET s == Unbound(SetStatus(inst[i], "stopping"))
      at(place) == [kind |-> "stop", inst |-> i, at |-> place, rpc |-> s.rpc]
  IN /\ inst[i].live
     /\ CASE s.radiusPiId # 0 ->
               Update(i, Silent(s)) /\ call' = [call EXCEPT ![c] = at("disconnect")]
          [] s.radiusPiId = 0 /\ s.rpc ->
               Update(i, Dispose(s)) /\ call' = [Rejected(i) EXCEPT ![c] = at("dispose")]
          [] OTHER -> Update(i, StopEnds(s)) /\ UNCHANGED call

Stop(c, i) ==
  /\ Alive /\ call[c] = NoCall /\ calls > 0 /\ calls' = calls - 1
  /\ BeginStop(c, i)
  /\ UNCHANGED <<process, machine, faults, history>>

Stopping(c, place) == call[c].kind = "stop" /\ call[c].at = place

StopDisconnected(c) ==
  LET i == call[c].inst
  IN /\ Stopping(c, "disconnect")
     /\ IF call[c].rpc
        THEN /\ Update(i, Dispose(Disconnected(inst[i])))
             /\ call' = [Rejected(i) EXCEPT ![c].at = "dispose"]
        ELSE Update(i, StopEnds(Disconnected(inst[i]))) /\ call' = [call EXCEPT ![c] = NoCall]
     /\ UNCHANGED <<calls, process, machine, faults, history>>

(* The disconnection fails: the stop is over and nothing else is cleaned    *)
(* up.  A shutdown is rejected with it, and never exits.                    *)
StopFails(c) ==
  LET i == call[c].inst
  IN /\ Stopping(c, "disconnect") /\ Fault
     /\ Update(i, StopEnds(inst[i])) /\ call' = [call EXCEPT ![c] = NoCall]
     /\ refused' = refused \union {i}
     /\ server' = (IF c = Shutdown THEN "stuck" ELSE server)
     /\ UNCHANGED <<calls, leaving, recovery, machine, raced, dropped>>

Disposed(c) ==
  LET i == call[c].inst
  IN /\ Stopping(c, "dispose") /\ inst[i].child = "dead"
     /\ Update(i, StopEnds(inst[i])) /\ call' = [call EXCEPT ![c] = NoCall]
     /\ UNCHANGED <<calls, process, machine, faults, history>>

------------------------------------------------------------------------------
(* The child.                                                               *)

Exit(i) ==
  /\ \/ inst[i].child = "killed" /\ UNCHANGED faults
     \/ inst[i].child = "running" /\ Fault
  /\ Update(i, Exited(inst[i])) /\ call' = Rejected(i)
  /\ UNCHANGED <<calls, process, machine, history>>

(* The rest of handleUnexpectedRpcExit.                                     *)
ExitDisconnected(i) ==
  /\ inst[i].exit
  /\ \/ Update(i, [Upsert([inst[i] EXCEPT !.pi = 0]) EXCEPT !.exit = FALSE, !.live = FALSE])
        /\ UNCHANGED faults
     \/ Update(i, [inst[i] EXCEPT !.exit = FALSE, !.live = FALSE]) /\ Fault
  /\ UNCHANGED <<clients, process, machine, history>>

(* handleRpc, and the refresh of the record after some commands.            *)
Rpc(c, i) ==
  /\ Alive /\ call[c] = NoCall /\ calls > 0 /\ calls' = calls - 1
  /\ inst[i].live /\ inst[i].rpc /\ inst[i].child = "running"
  /\ call' = [call EXCEPT ![c] = [kind |-> "rpc", inst |-> i, at |-> "command", rpc |-> TRUE]]
  /\ UNCHANGED <<inst, process, machine, faults, history>>

Answered(c) ==
  LET i == call[c].inst
  IN /\ call[c].kind = "rpc" /\ inst[i].child = "running"
     /\ \/ call[c].at = "command" /\ inst[i].rpc
           /\ call' = [call EXCEPT ![c].at = "get_state"] /\ UNCHANGED inst
        \/ call[c].at = "command" /\ call' = [call EXCEPT ![c] = NoCall] /\ UNCHANGED inst
        \/ (call[c].at = "get_state" \/ ~inst[i].rpc)
           /\ Update(i, Upsert(inst[i])) /\ call' = [call EXCEPT ![c] = NoCall]
     /\ UNCHANGED <<calls, process, machine, faults, history>>

------------------------------------------------------------------------------
(* Heartbeats.  Only those that are answered "not found" matter.            *)

Forget(i) ==
  /\ Alive /\ inst[i].beat # 0 /\ ~inst[i].forgotten /\ Fault
  /\ Update(i, [inst[i] EXCEPT !.forgotten = TRUE])
  /\ UNCHANGED <<clients, process, machine, history>>

SendBeat(i) ==
  /\ inst[i].beat # 0 /\ inst[i].forgotten /\ ~inst[i].sent /\ inst[i].late = 0
  /\ inst[i].recall = "no"
  /\ Update(i, [inst[i] EXCEPT !.sent = TRUE])
  /\ UNCHANGED <<clients, process, machine, faults, history>>

(* reRegisterPi, which forgets an instance that is not live and else sends  *)
(* what its record says now.                                                *)
ReRegister(s) == IF s.live THEN [s EXCEPT !.recall = s.status] ELSE Silent(s)

(* heartbeatPi: Threshold such answers lead to a new registration, also if  *)
(* the instance was disconnected while it waited for the last of them.      *)
NotFound(i) ==
  LET held == [inst[i] EXCEPT !.sent = FALSE, !.misses = Missed(@)]
      late == [inst[i] EXCEPT !.late = 0]
      after(s, misses) == IF misses < Threshold THEN s ELSE ReRegister(s)
  IN /\ inst[i].recall = "no"
     /\ \/ inst[i].sent /\ Update(i, after(held, held.misses))
        \/ inst[i].late # 0 /\ Update(i, after(late, inst[i].late))
     /\ UNCHANGED <<clients, process, machine, faults, history>>

Races(i, status) ==
  raced' = (IF inst[i].live /\ inst[i].status = "online" /\ status = "online" THEN raced
            ELSE raced \union {i})

Recalled(i) ==
  /\ inst[i].recall # "no"
  /\ Update(i, [ReRegistered(inst[i], inst[i].recall) EXCEPT !.recall = "no"])
  /\ Races(i, inst[i].recall)
  /\ UNCHANGED <<clients, process, machine, faults, refused, dropped>>

RecallFails(i) ==
  /\ inst[i].recall # "no" /\ Fault
  /\ Update(i, [inst[i] EXCEPT !.recall = "no"])
  /\ UNCHANGED <<clients, process, machine, history>>

(* reRegisterMachineAndPis: Radius has forgotten the machine; the instances *)
(* live then are registered again, one after the other.  An answer to the   *)
(* machine's heartbeat may come as late as any other.                       *)
MachineForgotten ==
  /\ Alive /\ machine = NoRecall /\ Fault
  /\ machine' = [NoRecall EXCEPT !.todo = {i \in Instances : inst[i].live}]
  /\ UNCHANGED <<inst, clients, process, history>>

MachineNext(i) ==
  /\ i \in machine.todo /\ machine.at = None
  /\ IF inst[i].live
     THEN /\ machine' = [todo |-> machine.todo \ {i}, at |-> i, status |-> inst[i].status]
          /\ UNCHANGED inst
     ELSE machine' = [machine EXCEPT !.todo = @ \ {i}] /\ Update(i, Silent(inst[i]))
  /\ UNCHANGED <<clients, process, faults, history>>

MachineRecalled(i) ==
  /\ machine.at = i
  /\ machine' = [machine EXCEPT !.at = None, !.status = "no"]
  /\ \/ Update(i, ReRegistered(inst[i], machine.status)) /\ Races(i, machine.status)
        /\ UNCHANGED faults
     \/ Fault /\ UNCHANGED <<inst, raced>>
  /\ UNCHANGED <<clients, process, refused, dropped>>

------------------------------------------------------------------------------
(* The process: shutdown, crash, and recovery.                              *)

BeginShutdown ==
  /\ server = "up"
  /\ server' = "closing" /\ leaving' = {i \in Instances : inst[i].live}
  /\ UNCHANGED <<inst, clients, recovery, machine, faults, history>>

ShutdownNext(i) ==
  /\ server = "closing" /\ call[Shutdown] = NoCall /\ i \in leaving
  /\ leaving' = leaving \ {i}
  /\ BeginStop(Shutdown, i) \/ (~inst[i].live /\ UNCHANGED <<inst, call>>)
  /\ UNCHANGED <<calls, server, recovery, machine, faults, history>>

(* The process is gone, and with it its children.                           *)
Gone ==
  /\ server' = "down"
  /\ inst' = [i \in Instances |->
                IF inst[i] = Unused THEN Unused
                ELSE [Unused EXCEPT !.file = inst[i].file, !.child = "dead", !.spawn = "ended"]]
  /\ call' = [c \in DOMAIN call |-> NoCall]
  /\ leaving' = {} /\ machine' = NoRecall
  /\ recovery' = [todo |-> {}, files |-> [i \in Instances |-> Absent]]
  /\ UNCHANGED <<calls, history>>

(* radiusPresence.stop(): all heartbeats end, and the machine is            *)
(* disconnected; if that fails the process never exits.                     *)
PresenceStops ==
  /\ server = "closing" /\ call[Shutdown] = NoCall /\ leaving = {}
  /\ server' = "disconnecting"
  /\ inst' = [i \in Instances |-> Silent(inst[i])]
  /\ UNCHANGED <<clients, leaving, recovery, machine, faults, history>>

ShutdownEnds == server = "disconnecting" /\ Gone /\ UNCHANGED faults

ShutdownFails ==
  /\ server = "disconnecting" /\ Fault /\ server' = "stuck"
  /\ UNCHANGED <<inst, clients, leaving, recovery, machine, history>>

Crash == Alive /\ Fault /\ Gone

(* serve(): instances.json is read at once; the records are saved when all  *)
(* are disconnected.  Requests are served meanwhile.                        *)
Recovered(record) ==
  [record EXCEPT !.status = IF @ \in {"online", "starting"} THEN "stopped" ELSE @]

Start ==
  /\ server = "down"
  /\ server' = "recovering"
  /\ recovery' = [todo |-> {i \in Instances : inst[i].file # Absent},
                  files |-> [i \in Instances |-> Recovered(inst[i].file)]]
  /\ UNCHANGED <<inst, clients, leaving, machine, faults, history>>

Recover(i) ==
  /\ server = "recovering" /\ i \in recovery.todo
  /\ recovery' = [recovery EXCEPT !.todo = @ \ {i}]
  /\ UNCHANGED <<inst, clients, server, leaving, machine, faults, history>>

RecoveryFails == server = "recovering" /\ recovery.todo # {} /\ Fault /\ Gone

EndRecovery ==
  /\ server = "recovering" /\ recovery.todo = {}
  /\ server' = "up"
  /\ inst' = [i \in Instances |-> [inst[i] EXCEPT !.file = recovery.files[i]]]
  /\ dropped' = dropped \union {i \in Instances : inst[i].live}
  /\ UNCHANGED <<clients, leaving, recovery, machine, faults, raced, refused>>

------------------------------------------------------------------------------
InstanceStep(i) ==
  \/ Synced(i) \/ Online(i) \/ SpawnDisconnected(i) \/ SpawnDisposed(i)
  \/ inst[i].child = "killed" /\ Exit(i)
  \/ ExitDisconnected(i) \/ Recalled(i) \/ MachineNext(i) \/ MachineRecalled(i)
  \/ Recover(i) \/ ShutdownNext(i)

CallStep(c) == StopDisconnected(c) \/ Disposed(c) \/ Answered(c)

Next ==
  \/ \E i \in Instances :
       \/ Spawn(i) \/ RegistrationFails(i) \/ SpawnUndoFails(i) \/ Exit(i)
       \/ Forget(i) \/ SendBeat(i) \/ NotFound(i) \/ RecallFails(i) \/ InstanceStep(i)
       \/ \E c \in Callers : Stop(c, i) \/ Rpc(c, i)
  \/ \E c \in DOMAIN call : StopFails(c) \/ CallStep(c)
  \/ MachineForgotten \/ BeginShutdown \/ PresenceStops \/ ShutdownEnds \/ ShutdownFails
  \/ Crash \/ Start \/ RecoveryFails \/ EndRecovery

Spec == Init /\ [][Next]_vars

(* Children and Radius answer, and the process goes on.                     *)
FairSpec ==
  /\ Spec
  /\ \A i \in Instances : WF_vars(InstanceStep(i))
  /\ \A c \in Callers \union {Shutdown} : WF_vars(CallStep(c))
  /\ WF_vars(PresenceStops) /\ WF_vars(ShutdownEnds)

------------------------------------------------------------------------------
(* Something the code has begun with an instance and not finished.          *)
Busy(i) ==
  \/ inst[i].spawn \notin {"none", "ended"} \/ inst[i].exit \/ inst[i].recall # "no"
  \/ machine.at = i \/ \E c \in DOMAIN call : call[c].inst = i

(* No child runs on unknown to the supervisor, in whatever order spawns,    *)
(* stops, exits and registrations end (cleanupAcquiredResources); the one   *)
(* exception is a disconnection that failed.                                *)
NoOrphan ==
  \A i \in Instances :
    ~inst[i].live /\ ~Busy(i) /\ i \notin refused => inst[i].child \in {"none", "dead"}

(* An instance that has ended is listed neither online nor starting, and no *)
(* heartbeat keeps it up at Radius, unless a registration overtook its end. *)
GoneIsGone ==
  \A i \in Instances :
    server = "up" /\ ~inst[i].live /\ ~Busy(i) /\ i \notin raced =>
      inst[i].beat = 0 /\ inst[i].file.status \notin {"online", "starting"}

(* What is online has a child that runs and is watched, and the record, the *)
(* resources and the heartbeats name one pi, whatever was registered anew;  *)
(* only the end of a shutdown takes the heartbeats from a late arrival.     *)
OnlineAgrees ==
  \A i \in Instances :
    inst[i].live /\ inst[i].status = "online" /\ i \notin raced =>
      /\ inst[i].child = "running" /\ inst[i].bound /\ inst[i].rpc
      /\ inst[i].pi # 0 /\ inst[i].radiusPiId = inst[i].pi
      /\ inst[i].beat = inst[i].pi \/ (inst[i].beat = 0 /\ server \in {"disconnecting", "stuck"})

(* What a crash would leave behind is in instances.json, with the pi that   *)
(* the next recovery has to disconnect, unless a recovery took it out.      *)
LiveIsListed ==
  \A i \in Instances :
    inst[i].live /\ i \notin raced \union dropped =>
      inst[i].file # Absent /\ (inst[i].beat # 0 => inst[i].file.pi = inst[i].beat)

(* Spawns, stops and rpc requests end, though the child may die, be stopped *)
(* or be registered meanwhile, and so does a shutdown unless a              *)
(* disconnection fails.                                                     *)
RequestsEnd ==
  /\ \A i \in Instances : inst[i].spawn \notin {"none", "ended"} ~> inst[i].spawn = "ended"
  /\ \A c \in Callers : call[c] # NoCall ~> call[c] = NoCall
  /\ server \in {"closing", "disconnecting"} ~> server \in {"down", "stuck"}
==============================================================================
