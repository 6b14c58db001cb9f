---------------------------- MODULE CredentialStore ----------------------------
(***************************************************************************)
(* auth.json, shared by every running codeify: AuthStorage reads it when a *)
(* process starts, and changes it under a lock that a process keeps while  *)
(* it exchanges an expired OAuth token (resolveStoredOAuth inside modify). *)
(*                                                                         *)
(* The file holds the token of one OAuth provider and the key of another   *)
(* provider.  Tokens and keys are numbers, 0 for none; a provider that     *)
(* rotates tokens takes each of them once.                                 *)
(*                                                                         *)
(* The lock is a directory (proper-lockfile): its holder touches it every  *)
(* 15 seconds; modify takes it over when untouched for 30 seconds, the     *)
(* synchronous read at the start already after 10.                         *)
(***************************************************************************)
EXTENDS Naturals, FiniteSets

CONSTANTS
  Processes,
  Requests,      \* calls of modify or delete a process may have under way
  None, Orphan,  \* no lock; the lock of a process that died
  MaxCalls,      \* bound: calls begun
  MaxFaults      \* bound: processes that die, stop for long, or exchanges that fail

ASSUME BoundAssumption == MaxCalls \in Nat /\ MaxFaults \in Nat

Calls == Processes \X Requests
Owner(c) == c[1]

ASSUME LockAssumption == None /= Orphan /\ {None, Orphan} \intersect Calls = {}

VARIABLES
  file,      \* auth.json
  data,      \* AuthStorage.data of each process
  running,   \* processes
  lock, age, \* who made the lock directory, and how long it is untouched
  call,      \* where a call is, what it changes, and what it read under its lock
  noticed,   \* calls whose timer found the lock lost (lockCompromised)
  robbed,    \* history: calls whose lock was taken from them
  passed,    \* history: calls under whose lock a robbed call wrote
  expired,   \* tokens that have to be exchanged before the next request
  spent,     \* tokens the provider has exchanged
  doubtful,  \* history: tokens whose exchange failed, or whose call died or was robbed
  issued,    \* tokens and keys handed out
  begun, faults

lockVars == <<lock, age, noticed, robbed, passed>>
tokenVars == <<expired, spent, doubtful, issued>>
vars == <<file, data, running, lockVars, call, tokenVars, begun, faults>>

Empty == [token |-> 0, key |-> 0]
Idle == [at |-> "idle", entry |-> "token", value |-> 0, refresh |-> FALSE, seen |-> Empty]

Init ==
  /\ file = [token |-> 1, key |-> 1]
  /\ data = [p \in Processes |-> Empty] /\ running = {}
  /\ lock = None /\ age = "fresh" /\ noticed = {} /\ robbed = {} /\ passed = {}
  /\ call = [c \in Calls |-> Idle]
  /\ expired = {} /\ spent = {} /\ doubtful = {} /\ issued = 1
  /\ begun = 0 /\ faults = 0

Fault == faults < MaxFaults /\ faults' = faults + 1

-------------------------------------------------------------------------------
(* The lock directory.                                                       *)

Asking(c) == call[c].at = "asking"
Goes(c, at) == call' = [call EXCEPT ![c].at = at]

(* The directory becomes l's, or nobody's.  Whoever still holds it loses it  *)
(* without being told.                                                       *)
Relock(l) ==
  LET victims == {lock} \intersect Calls
  IN
  /\ lock' = l /\ age' = "fresh"
  /\ robbed' = robbed \union victims
  /\ doubtful' = doubtful \union {call[c].seen.token : c \in {d \in victims : Asking(d)}}

(* Time passes; a holder that lives and is not stopped touches the lock      *)
(* before it is stale.                                                       *)
Untouched ==
  /\ lock /= None
  /\ \/ age = "fresh" /\ age' = "old" /\ UNCHANGED faults
     \/ age = "old" /\ age' = "stale" /\ IF lock = Orphan THEN UNCHANGED faults ELSE Fault
  /\ UNCHANGED <<file, data, running, lock, call, noticed, robbed, passed, tokenVars, begun>>

(* The timer of a call that holds the lock, as it believes.                  *)
Touch(c) ==
  /\ call[c].at \in {"asking", "release"} /\ c \notin noticed
  /\ \/ lock = c /\ age' = "fresh" /\ UNCHANGED noticed
     \/ lock /= c /\ noticed' = noticed \union {c} /\ UNCHANGED age
  /\ UNCHANGED <<file, data, running, lock, robbed, passed, call, tokenVars, begun, faults>>

-------------------------------------------------------------------------------
(* The synchronous lock counts as stale after 10 seconds.                    *)
MayRead == lock = None \/ age /= "fresh"

(* A process starts: the constructor reads the file under a lock it waits    *)
(* for at most 200 milliseconds; without it the process knows nothing.       *)
Start(p) ==
  /\ p \notin running
  /\ running' = running \union {p}
  /\ \/ /\ MayRead
        /\ data' = [data EXCEPT ![p] = file]
        /\ Relock(None)
     \/ /\ ~MayRead
        /\ data' = [data EXCEPT ![p] = Empty]
        /\ UNCHANGED <<lock, age, robbed, doubtful>>
  /\ UNCHANGED <<file, call, noticed, passed, expired, spent, issued, begun, faults>>

(* A process ends, its calls with it; an exchange under way may have been    *)
(* made.                                                                     *)
Exit(p) ==
  LET mine == {c \in Calls : Owner(c) = p}
      tokens == {call[c].seen.token : c \in {d \in mine : Asking(d)}}
  IN
  /\ p \in running /\ Fault
  /\ running' = running \ {p}
  /\ data' = [data EXCEPT ![p] = Empty]
  /\ call' = [c \in Calls |-> IF c \in mine THEN Idle ELSE call[c]]
  /\ lock' = IF lock \in mine THEN Orphan ELSE lock
  /\ noticed' = noticed \ mine /\ robbed' = robbed \ mine /\ passed' = passed \ mine
  /\ doubtful' = doubtful \union tokens
  /\ \E made \in SUBSET tokens : spent' = spent \union made
  /\ UNCHANGED <<file, age, begun, expired, issued>>

-------------------------------------------------------------------------------
(* Calls.                                                                    *)

(* A token some process or the file has comes to its end.                    *)
Expire(t) ==
  /\ t \in ({file.token} \union {data[p].token : p \in running}) \ (expired \union {0})
  /\ expired' = expired \union {t}
  /\ UNCHANGED <<file, data, running, lockVars, call, spent, doubtful, issued, begun, faults>>

Begin(c, entry, value, refresh) ==
  /\ Owner(c) \in running /\ call[c] = Idle /\ begun < MaxCalls
  /\ begun' = begun + 1
  /\ call' = [call EXCEPT ![c] = [Idle EXCEPT !.at = "locking", !.entry = entry,
                                              !.value = value, !.refresh = refresh]]
  /\ UNCHANGED <<file, data, running, lockVars, expired, spent, doubtful, faults>>

(* A request finds its token expired, as far as this process knows.          *)
Resolve(c) ==
  /\ data[Owner(c)].token \in expired
  /\ Begin(c, "token", 0, TRUE) /\ UNCHANGED issued

(* A login has its credential before it writes it; a logout has none.        *)
Login(c) ==
  /\ \E entry \in {"token", "key"} : Begin(c, entry, issued + 1, FALSE)
  /\ issued' = issued + 1
Logout(c) == Begin(c, "token", 0, FALSE) /\ UNCHANGED issued

(* All retries found the lock taken: modify throws.                          *)
GiveUp(c) ==
  /\ call[c].at = "locking" /\ lock /= None
  /\ call' = [call EXCEPT ![c] = Idle]
  /\ UNCHANGED <<file, data, running, lockVars, begun, tokenVars, faults>>

(* Mutant: the change is made to what this process remembers.                *)
Remembered(c) == data[Owner(c)]

(* What a call that has the lock changes: the file as it is now.             *)
Current(c) == file

(* The lock is free, or nobody has touched it for 30 seconds.                *)
Lock(c) ==
  /\ call[c].at = "locking"
  /\ lock = None \/ age = "stale"
  /\ Relock(c)
  /\ UNCHANGED <<running, noticed, passed, begun, expired, spent, issued, faults>>

(* The check is made again under the lock, for another request may have      *)
(* refreshed the token or logged out meanwhile.                              *)
NeedsExchange(c) == Current(c).token \in expired

Ask(c) ==
  /\ call[c].refresh /\ NeedsExchange(c) /\ Lock(c)
  /\ call' = [call EXCEPT ![c].at = "asking", ![c].seen = Current(c)]
  /\ UNCHANGED <<file, data>>

Keep(c) ==
  /\ call[c].refresh /\ ~NeedsExchange(c) /\ Lock(c)
  /\ data' = [data EXCEPT ![Owner(c)] = Current(c)]
  /\ Goes(c, "release")
  /\ UNCHANGED file

(* Memory is changed first, the file if the lock is not known to be lost.    *)
Save(c, content) ==
  /\ data' = [data EXCEPT ![Owner(c)] = content]
  /\ file' = IF c \in noticed THEN file ELSE content
  /\ Goes(c, "release")

Change(c) ==
  /\ ~call[c].refresh /\ Lock(c)
  /\ Save(c, [Current(c) EXCEPT ![call[c].entry] = call[c].value])

(* The provider answers with a new token and forgets the old one.            *)
Exchanged(c) ==
  /\ Asking(c) /\ call[c].seen.token \notin spent
  /\ spent' = spent \union {call[c].seen.token} /\ issued' = issued + 1
  /\ Save(c, [call[c].seen EXCEPT !.token = issued + 1])
  /\ passed' = IF c \in robbed \ noticed THEN passed \union ({lock} \intersect Calls) ELSE passed
  /\ UNCHANGED <<running, lock, age, noticed, robbed, begun, expired, doubtful, faults>>

(* The provider refuses the token, or no answer arrives: modify throws.      *)
Fails(c) ==
  /\ Asking(c)
  /\ \/ call[c].seen.token \in spent /\ UNCHANGED <<spent, faults>>
     \/ /\ Fault
        /\ \E made \in {{}, {call[c].seen.token}} : spent' = spent \union made
  /\ doubtful' = doubtful \union {call[c].seen.token}
  /\ UNCHANGED <<file, data, running, lockVars, begun, expired, issued>>

(* Mutant: a failed exchange leaves the lock where it is.                    *)
ExchangeFailsLocked(c) == Fails(c) /\ call' = [call EXCEPT ![c] = Idle]

ExchangeFails(c) == Fails(c) /\ Goes(c, "release")

(* finally: whichever directory is there is removed, unless the timer has    *)
(* found it to be another's.                                                 *)
Release(c) ==
  /\ call[c].at = "release"
  /\ call' = [call EXCEPT ![c] = Idle]
  /\ noticed' = noticed \ {c} /\ passed' = passed \ {c}
  /\ LET victims == IF c \in noticed THEN {} ELSE ({lock} \intersect Calls) \ {c}
     IN  /\ robbed' = (robbed \ {c}) \union victims
         /\ doubtful' = doubtful \union {call[d].seen.token : d \in {e \in victims : Asking(e)}}
  /\ lock' = IF c \in noticed THEN lock ELSE None
  /\ age' = IF lock' = None THEN "fresh" ELSE age
  /\ UNCHANGED <<file, data, running, begun, expired, spent, issued, faults>>

-------------------------------------------------------------------------------

Answered(c) == Exchanged(c) \/ ExchangeFails(c)

Next ==
  \/ Untouched \/ \E t \in 1..issued : Expire(t)
  \/ \E p \in Processes : Start(p) \/ Exit(p)
  \/ \E c \in Calls : \/ Resolve(c) \/ Login(c) \/ Logout(c)
                      \/ GiveUp(c) \/ Ask(c) \/ Keep(c) \/ Change(c)
                      \/ Exchanged(c) \/ ExchangeFails(c) \/ Release(c) \/ Touch(c)

Spec == Init /\ [][Next]_vars

(* An exchange is answered or fails, and a running process goes on.          *)
FairSpec == Spec /\ \A c \in Calls : WF_vars(Answered(c)) /\ WF_vars(Release(c))

-------------------------------------------------------------------------------

(* "concurrent requests and processes cannot double-refresh a rotated token" *)
(* (packages/ai/README.md): a token is exchanged by one call, and never      *)
(* again, unless a call lost its lock, died or failed while exchanging it.   *)
NoDoubleRefresh ==
  \A c \in Calls :
    LET token == call[c].seen.token
    IN  Asking(c) /\ token \notin doubtful =>
          /\ token \notin spent
          /\ \A d \in Calls \ {c} : Asking(d) => call[d].seen.token /= token

(* What a call that is done with the file has changed in it: its credential, *)
(* and no removed token comes back by a refresh.                             *)
Respects(c) ==
  /\ call[c].at \in {"locking", "asking"} /\ call'[c].at = "release"
  /\ c \notin robbed \union passed
  => IF call[c].entry = "key" THEN file'.token = file.token
     ELSE /\ file'.key = file.key
          /\ call[c].refresh /\ file.token = 0 => file'.token = 0

(* A call that keeps its lock changes nothing but the credential it is       *)
(* about, whatever other processes have written meanwhile, and a refresh     *)
(* does not undo a logout (modify); unless another call, which has lost its  *)
(* lock and does not know, writes past it.                                   *)
NothingOverwritten == [][\A c \in Calls : Respects(c)]_vars

(* No living process keeps the lock for ever, for its timer would keep       *)
(* everybody else out (the finally of withLockAsync).                        *)
LockIsGivenBack == \A c \in Calls : lock = c ~> lock /= c
===============================================================================
