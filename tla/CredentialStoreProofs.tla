------------------------- MODULE CredentialStoreProofs -------------------------
(***************************************************************************)
(* The inductive invariant of CredentialStore and what follows from it, for*)
(* any number of processes and of calls in each.                           *)
(***************************************************************************)
EXTENDS CredentialStore, TLAPS

Content == [token : Nat, key : Nat]
Call ==
  [at : {"idle", "locking", "asking", "release"}, entry : {"token", "key"}, value : Nat,
   refresh : BOOLEAN, seen : Content]

TypeInv ==
  /\ file \in Content /\ file.token <= issued
  /\ call \in [Calls -> Call]
  /\ lock \in Calls \union {None, Orphan}
  /\ noticed \subseteq robbed
  /\ issued \in Nat /\ spent \subseteq 1..issued
  /\ expired \subseteq Nat \ {0}

Waits(c) == call[c].at \in {"idle", "locking"}
Holds(c) == call[c].at \in {"asking", "release"}
Token(c) == call[c].seen.token

(* Who has the lock, and who believes so.                                   *)
LockInv ==
  /\ lock \in Calls => Holds(lock) /\ lock \notin robbed
  /\ \A c \in Calls : Holds(c) /\ c \notin robbed => lock = c
  /\ \A c \in Calls : Waits(c) => c \notin robbed \union passed

(* Only the token is refreshed.                                             *)
RefreshInv == \A c \in Calls : call[c].refresh => call[c].entry = "token"

(* What a call asks with is a token that it read, and still what is in the  *)
(* file unless its lock did not protect it.                                 *)
AskInv ==
  \A c \in Calls : Asking(c) =>
    /\ call[c].entry = "token"
    /\ Token(c) \in 1..issued
    /\ c \in robbed => Token(c) \in doubtful
    /\ Token(c) \in spent => Token(c) \in doubtful
    /\ c \notin robbed \union passed => call[c].seen = file

(* A login that waits for the lock has a token nobody else has.             *)
Brings(c) == call[c].at = "locking" /\ call[c].entry = "token" /\ call[c].value /= 0

Unused(c) ==
  /\ call[c].value <= issued /\ call[c].value \notin spent
  /\ call[c].value /= file.token
  /\ \A d \in Calls : Asking(d) => Token(d) /= call[c].value
  /\ \A d \in Calls \ {c} : Brings(d) => call[d].value /= call[c].value

LoginInv == \A c \in Calls : Brings(c) => Unused(c)

FileInv == file.token \in spent => file.token \in doubtful

IInv == TypeInv /\ LockInv /\ RefreshInv /\ AskInv /\ LoginInv /\ FileInv

-------------------------------------------------------------------------------

(* The invariant holds at the start: nobody calls, nothing is spent.         *)
LEMMA InitIInv == Init => IInv
<1> SUFFICES ASSUME Init PROVE IInv
  OBVIOUS
<1> USE DEF Init
<1>0. \A c \in Calls : call[c] = Idle
  OBVIOUS
<1>1. TypeInv
  BY LockAssumption DEF TypeInv, Content, Call, Idle, Empty
<1>2. LockInv
  BY <1>0, LockAssumption DEF LockInv, Waits, Holds, Idle
<1>3. RefreshInv /\ AskInv /\ LoginInv /\ FileInv
  BY <1>0 DEF RefreshInv, AskInv, LoginInv, FileInv, Asking, Brings, Idle
<1>q. QED
  BY <1>1, <1>2, <1>3 DEF IInv

(* A step that leaves alone what the invariant is about keeps it.            *)
LEMMA Unchanged ==
  ASSUME IInv,
         UNCHANGED <<file, issued, call, lock, noticed, robbed, passed, spent, expired, doubtful>>
  PROVE  IInv'
BY DEF IInv, TypeInv, LockInv, RefreshInv, AskInv, LoginInv, Unused, FileInv,
       Waits, Holds, Token, Asking, Brings

(* Whoever had the lock and loses it is robbed, and what it was asking with  *)
(* becomes doubtful; nobody is left who holds and is not robbed.             *)
LEMMA Robbing ==
  ASSUME IInv, NEW l, Relock(l)
  PROVE  /\ lock' = l
         /\ robbed \subseteq robbed' /\ doubtful \subseteq doubtful'
         /\ \A c \in Calls : Holds(c) => c \in robbed'
         /\ \A c \in Calls : Waits(c) => c \notin robbed'
         /\ \A c \in Calls : Asking(c) /\ c \in robbed' => Token(c) \in doubtful'
<1> USE DEF Relock
<1>1. lock' = l /\ robbed \subseteq robbed' /\ doubtful \subseteq doubtful'
  OBVIOUS
<1>2. \A c \in Calls : Holds(c) => c \in robbed'
  BY DEF IInv, LockInv
<1>3. \A c \in Calls : Waits(c) => c \notin robbed'
  BY DEF IInv, LockInv, Waits, Holds
<1>4. \A c \in Calls : Asking(c) /\ c \in robbed' => Token(c) \in doubtful'
  BY DEF IInv, AskInv, Token
<1>q. QED
  BY <1>1, <1>2, <1>3, <1>4

-------------------------------------------------------------------------------
(* One lemma per kind of step.                                               *)

(* Only a call whose lock is not there any more notices.                     *)
LEMMA TouchStep ==
  ASSUME IInv, NEW c \in Calls, Touch(c)
  PROVE  IInv'
<1>1. CASE lock = c /\ UNCHANGED noticed
  BY <1>1, Unchanged DEF Touch, tokenVars
<1>2. CASE lock /= c /\ noticed' = noticed \union {c}
  <2>1. Holds(c) /\ c \in robbed
    BY <1>2 DEF Touch, Holds, IInv, LockInv
  <2>2. UNCHANGED <<file, issued, call, lock, robbed, passed, spent, expired, doubtful>>
    BY DEF Touch, tokenVars
  <2>3. TypeInv'
    BY <1>2, <2>1, <2>2 DEF IInv, TypeInv
  <2>q. QED
    BY <2>2, <2>3 DEF IInv, LockInv, RefreshInv, AskInv, LoginInv, Unused, FileInv,
                      Waits, Holds, Token, Asking, Brings
<1>q. QED
  BY <1>1, <1>2 DEF Touch

(* A process that starts may rob the holder of a lock it finds old.         *)
LEMMA StartStep ==
  ASSUME IInv, NEW p \in Processes, Start(p)
  PROVE  IInv'
<1>0. UNCHANGED <<file, call, noticed, passed, expired, spent, issued>>
  BY DEF Start
<1>1. CASE Relock(None)
  <2>1. TypeInv'
    BY <1>0, <1>1, Robbing DEF IInv, TypeInv
  <2>2. LockInv'
    BY <1>0, <1>1, Robbing, LockAssumption DEF IInv, LockInv, Waits, Holds
  <2>3. AskInv'
    BY <1>0, <1>1, Robbing DEF IInv, AskInv, Asking, Token
  <2>4. RefreshInv' /\ LoginInv' /\ FileInv'
    BY <1>0, <1>1, Robbing DEF IInv, RefreshInv, LoginInv, Unused, FileInv, Brings, Asking, Token
  <2>q. QED
    BY <2>1, <2>2, <2>3, <2>4 DEF IInv
<1>2. CASE UNCHANGED <<lock, age, robbed, doubtful>>
  BY <1>0, <1>2, Unchanged
<1>q. QED
  BY <1>1, <1>2 DEF Start

(* What a dead process asked with is doubtful, whether it was exchanged or   *)
(* not.                                                                      *)
LEMMA ExitStep ==
  ASSUME IInv, NEW p \in Processes, Exit(p)
  PROVE  IInv'
<1> DEFINE mine == {c \in Calls : Owner(c) = p}
           tokens == {call[c].seen.token : c \in {d \in mine : Asking(d)}}
<1>1. /\ lock' = IF lock \in mine THEN Orphan ELSE lock
      /\ noticed' = noticed \ mine /\ robbed' = robbed \ mine /\ passed' = passed \ mine
      /\ doubtful' = doubtful \union tokens
      /\ UNCHANGED <<file, expired, issued>>
  BY DEF Exit
<1>2. call' = [c \in Calls |-> IF c \in mine THEN Idle ELSE call[c]]
  BY DEF Exit
<1>3. PICK made \in SUBSET tokens : spent' = spent \union made
  BY DEF Exit
<1>4. \A t \in tokens : \E c \in Calls : Asking(c) /\ t = Token(c)
  BY DEF Token
<1>5. tokens \subseteq 1..issued
  BY <1>4 DEF IInv, AskInv
<1>6. \A c \in Calls : c \notin mine => call'[c] = call[c]
  BY <1>2
<1>7. \A c \in Calls : c \in mine => call'[c] = Idle
  BY <1>2
<1>8. Idle.at = "idle" /\ Idle \in Call /\ Idle.refresh = FALSE
  BY DEF Idle, Empty, Call, Content
<1> HIDE DEF mine, tokens
<1>9. TypeInv'
  <2>1. call' \in [Calls -> Call]
    BY <1>2, <1>8 DEF IInv, TypeInv
  <2>2. spent' \subseteq 1..issued'
    BY <1>1, <1>3, <1>5 DEF IInv, TypeInv
  <2>q. QED
    BY <1>1, <2>1, <2>2 DEF IInv, TypeInv
<1>10. LockInv'
  BY <1>1, <1>6, <1>7, <1>8, LockAssumption DEF IInv, LockInv, Holds, Waits
<1>11. RefreshInv'
  BY <1>6, <1>7, <1>8 DEF IInv, RefreshInv
<1>12. AskInv'
  BY <1>1, <1>3, <1>6, <1>7, <1>8 DEF IInv, AskInv, Asking, Token
<1>13. LoginInv'
  <2> SUFFICES ASSUME NEW c \in Calls, Brings(c)'
               PROVE  Unused(c)'
    BY DEF LoginInv
  <2>1. c \notin mine /\ call'[c] = call[c] /\ Brings(c)
    BY <1>6, <1>7, <1>8 DEF Brings
  <2>2. call[c].value \notin tokens
    BY <1>4, <2>1 DEF IInv, LoginInv, Unused
  <2>q. QED
    BY <1>1, <1>3, <1>6, <1>7, <1>8, <2>1, <2>2 DEF IInv, LoginInv, Unused, Asking, Token, Brings
<1>14. FileInv'
  BY <1>1, <1>3 DEF IInv, FileInv
<1>q. QED
  BY <1>9, <1>10, <1>11, <1>12, <1>13, <1>14 DEF IInv

(* What Begin leaves alone, and the call it begins.                          *)
Begun(c, entry, value) ==
  /\ UNCHANGED <<file, lock, noticed, robbed, passed, expired, spent, doubtful>>
  /\ call[c].at = "idle" /\ call' \in [Calls -> Call]
  /\ call'[c].at = "locking" /\ call'[c].entry = entry
  /\ call'[c].value = value
  /\ call'[c].refresh => call'[c].entry = "token"
  /\ \A d \in Calls \ {c} : call'[d] = call[d]

(* Begin does that.                                                          *)
LEMMA BeginFacts ==
  ASSUME IInv, NEW c \in Calls, NEW entry \in {"token", "key"}, NEW value \in Nat,
         NEW refresh \in BOOLEAN, refresh => entry = "token",
         Begin(c, entry, value, refresh)
  PROVE  Begun(c, entry, value)
<1>1. call \in [Calls -> Call] /\ call[c] = Idle
  BY DEF Begin, IInv, TypeInv
<1>2. call' = [call EXCEPT ![c] = [Idle EXCEPT !.at = "locking", !.entry = entry,
                                               !.value = value, !.refresh = refresh]]
  BY DEF Begin
<1>3. UNCHANGED <<file, lock, noticed, robbed, passed, expired, spent, doubtful>>
  BY DEF Begin, lockVars
<1> DEFINE new == [Idle EXCEPT !.at = "locking", !.entry = entry, !.value = value,
                               !.refresh = refresh]
<1>4. new \in Call
  BY DEF Idle, Empty, Call, Content
<1>5. new.at = "locking" /\ new.entry = entry /\ new.value = value
  BY DEF Idle
<1>6. new.refresh => new.entry = "token"
  BY DEF Idle
<1> HIDE DEF new
<1>7. call' = [call EXCEPT ![c] = new]
  BY <1>2 DEF new
<1>8. call'[c] = new /\ \A d \in Calls \ {c} : call'[d] = call[d]
  BY <1>1, <1>7
<1>9. call' \in [Calls -> Call]
  BY <1>1, <1>4, <1>7
<1>10. call[c].at = "idle"
  BY <1>1 DEF Idle
<1>q. QED
  BY <1>3, <1>5, <1>6, <1>8, <1>9, <1>10 DEF Begun

(* A refresh, a login or a logout begins to wait for the lock; the login has *)
(* a credential that nobody had before.                                      *)
LEMMA BeginStep ==
  ASSUME IInv, NEW c \in Calls, NEW entry \in {"token", "key"}, NEW value \in Nat,
         NEW refresh \in BOOLEAN, refresh => entry = "token",
         Begin(c, entry, value, refresh),
         \/ value = 0 /\ UNCHANGED issued
         \/ value = issued + 1 /\ issued' = issued + 1
  PROVE  IInv'
<1> USE DEF Begun
<1>0. Begun(c, entry, value)
  BY BeginFacts
<1>1. TypeInv /\ issued \in Nat /\ issued' \in Nat /\ issued <= issued'
  BY DEF IInv, TypeInv
<1>2. TypeInv'
  BY <1>1, <1>0 DEF TypeInv, Content
<1>3. LockInv'
  BY <1>0 DEF IInv, LockInv, Holds, Waits
<1>4. RefreshInv'
  BY <1>0 DEF IInv, RefreshInv
<1>5. AskInv'
  BY <1>1, <1>0 DEF IInv, AskInv, Asking, Token
<1>6. LoginInv'
  <2>1. \A d \in Calls : Asking(d)' => Asking(d) /\ Token(d)' = Token(d)
    BY <1>0 DEF Asking, Token
  <2>2. ASSUME NEW d \in Calls \ {c}, Brings(d)'
        PROVE  Unused(d)'
    <3>1. Brings(d) /\ call'[d] = call[d]
      BY <2>2, <1>0 DEF Brings
    <3>2. Unused(d) /\ call[d].value \in Nat /\ call[d].value <= issued /\ call[d].value /= 0
      BY <3>1 DEF IInv, TypeInv, Call, LoginInv, Unused, Brings
    <3>3. call'[c].value /= call[d].value
      BY <3>2, <1>1, <1>0
    <3>q. QED
      BY <1>1, <2>1, <3>1, <3>2, <3>3, <1>0 DEF Unused, Brings
  <2>3. ASSUME Brings(c)' PROVE Unused(c)'
    <3>1. value = issued + 1 /\ issued' = issued + 1 /\ call'[c].value = value
      BY <2>3, <1>0 DEF Brings
    <3>2. value \notin spent /\ value /= file.token
      BY <3>1 DEF IInv, TypeInv, Content
    <3>3. \A d \in Calls : Asking(d) => Token(d) /= value
      BY <3>1, <1>1 DEF IInv, AskInv
    <3>4. ASSUME NEW d \in Calls \ {c}, Brings(d)' PROVE call'[d].value /= value
      <4>1. Brings(d) /\ call'[d] = call[d]
        BY <3>4, <1>0 DEF Brings
      <4>2. call[d].value \in Nat /\ call[d].value <= issued
        BY <4>1 DEF IInv, TypeInv, Call, LoginInv, Unused
      <4>q. QED
        BY <3>1, <4>1, <4>2, <1>1
    <3>q. QED
      BY <1>1, <2>1, <3>1, <3>2, <3>3, <3>4, <1>0 DEF Unused
  <2>q. QED
    BY <2>2, <2>3 DEF LoginInv
<1>7. FileInv'
  BY <1>0 DEF IInv, FileInv
<1>q. QED
  BY <1>2, <1>3, <1>4, <1>5, <1>6, <1>7 DEF IInv

(* A call that gives up is idle again.                                       *)
LEMMA GiveUpStep ==
  ASSUME IInv, NEW c \in Calls, GiveUp(c)
  PROVE  IInv'
<1>1. UNCHANGED <<file, lock, noticed, robbed, passed, expired, spent, doubtful, issued>>
  BY DEF GiveUp, lockVars, tokenVars
<1>2. /\ call[c].at = "locking" /\ call' \in [Calls -> Call]
      /\ call'[c] = Idle /\ \A d \in Calls \ {c} : call'[d] = call[d]
  <2>1. Idle \in Call
    BY DEF Idle, Empty, Call, Content
  <2>q. QED
    BY <2>1 DEF GiveUp, IInv, TypeInv
<1>3. Idle.at = "idle" /\ Idle.refresh = FALSE
  BY DEF Idle
<1>4. TypeInv'
  BY <1>1, <1>2 DEF IInv, TypeInv
<1>5. LockInv'
  BY <1>1, <1>2, <1>3 DEF IInv, LockInv, Holds, Waits
<1>6. RefreshInv' /\ AskInv'
  BY <1>1, <1>2, <1>3 DEF IInv, RefreshInv, AskInv, Asking, Token
<1>7. LoginInv' /\ FileInv'
  BY <1>1, <1>2, <1>3 DEF IInv, LoginInv, Unused, FileInv, Brings, Asking, Token
<1>q. QED
  BY <1>4, <1>5, <1>6, <1>7 DEF IInv

-------------------------------------------------------------------------------

(* A refresh that takes the lock asks with the token that is in the file.    *)
LEMMA AskStep ==
  ASSUME IInv, NEW c \in Calls, Ask(c)
  PROVE  IInv'
<1> USE DEF Current
<1>1. /\ UNCHANGED <<file, noticed, passed, expired, spent, issued>>
      /\ call[c].at = "locking" /\ call[c].refresh /\ file.token \in expired
      /\ Relock(c)
  BY DEF Ask, Lock, NeedsExchange
<1>2. call' = [call EXCEPT ![c].at = "asking", ![c].seen = file]
  BY DEF Ask
<1>3. /\ call \in [Calls -> Call] /\ file \in Content
      /\ call[c].entry = "token" /\ file.token \in 1..issued
      /\ Waits(c) /\ c \notin passed
  BY <1>1 DEF IInv, TypeInv, RefreshInv, LockInv, Content, Waits
<1>4. /\ call' \in [Calls -> Call]
      /\ call'[c].at = "asking" /\ call'[c].seen = file /\ call'[c].entry = "token"
      /\ \A d \in Calls \ {c} : call'[d] = call[d]
  BY <1>2, <1>3 DEF Call
<1>5. /\ lock' = c /\ robbed \subseteq robbed' /\ doubtful \subseteq doubtful'
      /\ \A d \in Calls : Holds(d) => d \in robbed'
      /\ \A d \in Calls : Waits(d) => d \notin robbed'
      /\ \A d \in Calls : Asking(d) /\ d \in robbed' => Token(d) \in doubtful'
  BY <1>1, Robbing
<1>6. TypeInv'
  BY <1>1, <1>4, <1>5 DEF IInv, TypeInv
<1>7. LockInv'
  BY <1>1, <1>3, <1>4, <1>5 DEF IInv, LockInv, Holds, Waits
<1>8. RefreshInv'
  BY <1>4 DEF IInv, RefreshInv
<1>9. AskInv'
  <2>1. ASSUME NEW d \in Calls \ {c}, Asking(d)'
        PROVE  /\ call'[d] = call[d] /\ Asking(d) /\ Holds(d) /\ d \in robbed'
               /\ Token(d)' = Token(d)
    BY <2>1, <1>4, <1>5 DEF Asking, Holds, Token
  <2>2. Token(c)' = file.token
    BY <1>4 DEF Token
  <2>q. QED
    BY <1>1, <1>3, <1>4, <1>5, <2>1, <2>2 DEF IInv, AskInv, FileInv
<1>10. LoginInv'
  <2>1. \A d \in Calls : Brings(d)' => d /= c /\ Brings(d)
    BY <1>4 DEF Brings
  <2>2. \A d \in Calls \ {c} : Asking(d)' => Asking(d) /\ Token(d)' = Token(d)
    BY <1>4 DEF Asking, Token
  <2>3. Token(c)' = file.token
    BY <1>4 DEF Token
  <2>q. QED
    BY <1>1, <1>4, <2>1, <2>2, <2>3 DEF IInv, LoginInv, Unused
<1>11. FileInv'
  BY <1>1, <1>5 DEF IInv, FileInv
<1>q. QED
  BY <1>6, <1>7, <1>8, <1>9, <1>10, <1>11 DEF IInv

(* A refresh that finds nothing to do, a login or a logout takes the lock    *)
(* and is left to release it; a login puts a token in the file that nobody   *)
(* has asked with.                                                           *)
LEMMA ChangeStep ==
  ASSUME IInv, NEW c \in Calls, Keep(c) \/ Change(c)
  PROVE  IInv'
<1>1. /\ UNCHANGED <<noticed, passed, expired, spent, issued>>
      /\ call[c].at = "locking" /\ Relock(c)
      /\ call' = [call EXCEPT ![c].at = "release"]
  BY DEF Keep, Change, Lock, Save, Goes
<1>2. /\ call \in [Calls -> Call] /\ file \in Content /\ issued \in Nat
      /\ Waits(c) /\ c \notin robbed /\ c \notin noticed /\ c \notin passed
  BY <1>1 DEF IInv, TypeInv, LockInv, Waits
<1>3. /\ call' \in [Calls -> Call]
      /\ call'[c].at = "release" /\ call'[c].entry = call[c].entry
      /\ call'[c].refresh = call[c].refresh
      /\ \A d \in Calls \ {c} : call'[d] = call[d]
  BY <1>1, <1>2 DEF Call
<1>4. /\ lock' = c /\ robbed \subseteq robbed' /\ doubtful \subseteq doubtful'
      /\ \A d \in Calls : Holds(d) => d \in robbed'
      /\ \A d \in Calls : Waits(d) => d \notin robbed'
      /\ \A d \in Calls : Asking(d) /\ d \in robbed' => Token(d) \in doubtful'
  BY <1>1, Robbing
<1>5. file' = file \/ file' = [file EXCEPT ![call[c].entry] = call[c].value]
  BY <1>2 DEF Keep, Change, Save, Current
<1>6. /\ file' \in Content
      /\ \/ file'.token = file.token
         \/ file'.token = 0
         \/ Brings(c) /\ file'.token = call[c].value
  <2>1. call[c].value \in Nat /\ call[c].entry \in {"token", "key"}
    BY <1>2 DEF Call
  <2>q. QED
    BY <1>1, <1>2, <1>5, <2>1 DEF Content, Brings
<1>7. file'.token <= issued /\ FileInv'
  <2>1. CASE file'.token = file.token
    BY <1>1, <1>4, <2>1 DEF IInv, TypeInv, FileInv
  <2>2. CASE file'.token = 0
    BY <1>1, <1>2, <2>2 DEF IInv, TypeInv, FileInv
  <2>3. CASE Brings(c) /\ file'.token = call[c].value
    BY <1>1, <2>3 DEF IInv, LoginInv, Unused, FileInv
  <2>q. QED
    BY <1>6, <2>1, <2>2, <2>3
<1>8. TypeInv'
  BY <1>1, <1>3, <1>4, <1>6, <1>7 DEF IInv, TypeInv
<1>9. LockInv'
  BY <1>1, <1>2, <1>3, <1>4 DEF IInv, LockInv, Holds, Waits
<1>10. RefreshInv'
  BY <1>3 DEF IInv, RefreshInv
<1>11. AskInv'
  <2>1. ASSUME NEW d \in Calls, Asking(d)'
        PROVE  /\ call'[d] = call[d] /\ Asking(d) /\ Holds(d) /\ d \in robbed'
               /\ Token(d)' = Token(d)
    BY <2>1, <1>3, <1>4 DEF Asking, Holds, Token
  <2>q. QED
    BY <1>1, <1>4, <2>1 DEF IInv, AskInv
<1>12. LoginInv'
  <2> SUFFICES ASSUME NEW d \in Calls, Brings(d)'
               PROVE  Unused(d)'
    BY DEF LoginInv
  <2>1. d /= c /\ Brings(d) /\ Unused(d) /\ call'[d] = call[d]
    BY <1>3 DEF Brings, IInv, LoginInv
  <2>2. \A e \in Calls : Asking(e)' => Asking(e) /\ Token(e)' = Token(e)
    BY <1>3 DEF Asking, Token
  <2>3. \A e \in Calls : Brings(e)' => Brings(e) /\ call'[e] = call[e]
    BY <1>3 DEF Brings
  <2>4. call[d].value /= file'.token
    BY <1>6, <2>1 DEF Unused, Brings
  <2>q. QED
    BY <1>1, <2>1, <2>2, <2>3, <2>4 DEF Unused
<1>q. QED
  BY <1>7, <1>8, <1>9, <1>10, <1>11, <1>12 DEF IInv

(* An answered exchange spends the token and, unless the timer has found the *)
(* lock lost, puts a new one in the file; a lock it wrote past is passed.    *)
LEMMA ExchangedStep ==
  ASSUME IInv, NEW c \in Calls, Exchanged(c)
  PROVE  IInv'
<1> DEFINE old == Token(c)
           new == issued + 1
<1>1. /\ UNCHANGED <<lock, noticed, robbed, expired, doubtful>>
      /\ Asking(c) /\ old \notin spent /\ spent' = spent \union {old} /\ issued' = new
      /\ file' = IF c \in noticed THEN file ELSE [call[c].seen EXCEPT !.token = new]
      /\ call' = [call EXCEPT ![c].at = "release"]
      /\ passed' = IF c \in robbed \ noticed THEN passed \union ({lock} \intersect Calls)
                   ELSE passed
  BY DEF Exchanged, Save, Goes, Token
<1>2. /\ call \in [Calls -> Call] /\ file \in Content /\ file.token <= issued
      /\ issued \in Nat /\ spent \subseteq 1..issued /\ call[c].seen \in Content
      /\ noticed \subseteq robbed
  BY DEF IInv, TypeInv, Call
<1>3. old \in 1..issued /\ (c \in robbed => old \in doubtful) /\ Holds(c)
  BY <1>1 DEF IInv, AskInv, Asking, Holds
<1>4. /\ call' \in [Calls -> Call]
      /\ call'[c].at = "release" /\ call'[c].entry = call[c].entry
      /\ call'[c].refresh = call[c].refresh
      /\ \A d \in Calls \ {c} : call'[d] = call[d]
  BY <1>1, <1>2 DEF Call
<1>5. \A d \in Calls : Asking(d)' => d /= c /\ Asking(d) /\ Token(d)' = Token(d)
  BY <1>4 DEF Asking, Token
<1>6. \A d \in Calls : Brings(d)' => d /= c /\ Brings(d) /\ call'[d] = call[d]
  BY <1>4 DEF Brings
<1>7. \/ c \in noticed /\ file' = file
      \/ c \notin noticed /\ file' \in Content /\ file'.token = new
  BY <1>1, <1>2 DEF Content
<1> HIDE DEF old, new
<1>8. new = issued + 1 /\ old = Token(c)
  BY DEF old, new
<1>9. TypeInv'
  <2>1. file' \in Content /\ file'.token <= issued'
    BY <1>1, <1>2, <1>7, <1>8 DEF Content
  <2>2. issued' \in Nat /\ spent' \subseteq 1..issued'
    BY <1>1, <1>2, <1>3, <1>8
  <2>q. QED
    BY <1>1, <1>2, <1>4, <2>1, <2>2 DEF IInv, TypeInv
<1>10. LockInv'
  BY <1>1, <1>3, <1>4 DEF IInv, LockInv, Holds, Waits
<1>11. RefreshInv'
  BY <1>4 DEF IInv, RefreshInv
<1>12. AskInv'
  <2> SUFFICES ASSUME NEW d \in Calls, Asking(d)'
               PROVE  /\ call'[d].entry = "token"
                      /\ Token(d)' \in 1..issued'
                      /\ d \in robbed' => Token(d)' \in doubtful'
                      /\ Token(d)' \in spent' => Token(d)' \in doubtful'
                      /\ d \notin robbed' \union passed' => call'[d].seen = file'
    BY DEF AskInv
  <2>1. d /= c /\ Asking(d) /\ call'[d] = call[d] /\ Token(d)' = Token(d) /\ Holds(d)
    BY <1>4, <1>5 DEF Asking, Holds
  <2>2. /\ call[d].entry = "token" /\ Token(d) \in 1..issued
        /\ d \in robbed => Token(d) \in doubtful
        /\ Token(d) \in spent => Token(d) \in doubtful
        /\ d \notin robbed \union passed => call[d].seen = file
    BY <2>1 DEF IInv, AskInv
  <2>3. d \notin robbed => lock = d /\ c \in robbed
    BY <1>3, <2>1 DEF IInv, LockInv
  <2>4. Token(d) \in spent' => Token(d) \in doubtful
    BY <1>1, <1>3, <2>2, <2>3
  <2>5. d \notin robbed \union passed' => c \in noticed /\ d \notin passed
    BY <1>1, <2>3
  <2>q. QED
    BY <1>1, <1>2, <1>7, <1>8, <2>1, <2>2, <2>4, <2>5
<1>13. LoginInv'
  <2> SUFFICES ASSUME NEW d \in Calls, Brings(d)'
               PROVE  Unused(d)'
    BY DEF LoginInv
  <2>1. d /= c /\ Brings(d) /\ Unused(d) /\ call'[d] = call[d]
    BY <1>6 DEF IInv, LoginInv
  <2>2. call[d].value \in Nat /\ call[d].value <= issued /\ call[d].value /= old
    BY <1>1, <1>2, <1>8, <2>1 DEF Unused, Call
  <2>3. call[d].value <= issued' /\ call[d].value \notin spent' /\ call[d].value /= file'.token
    BY <1>1, <1>2, <1>7, <1>8, <2>1, <2>2 DEF Unused
  <2>q. QED
    BY <1>5, <1>6, <2>1, <2>3 DEF Unused
<1>14. FileInv'
  BY <1>1, <1>2, <1>3, <1>7, <1>8 DEF IInv, FileInv
<1>q. QED
  BY <1>9, <1>10, <1>11, <1>12, <1>13, <1>14 DEF IInv

(* A failed exchange may have spent the token, which is doubtful from then.  *)
LEMMA ExchangeFailsStep ==
  ASSUME IInv, NEW c \in Calls, ExchangeFails(c)
  PROVE  IInv'
<1>1. /\ UNCHANGED <<file, lock, noticed, robbed, passed, expired, issued>>
      /\ Asking(c) /\ doubtful' = doubtful \union {Token(c)}
      /\ call' = [call EXCEPT ![c].at = "release"]
      /\ spent \subseteq spent' /\ spent' \subseteq spent \union {Token(c)}
  BY DEF ExchangeFails, Fails, Goes, Token, lockVars
<1>2. call \in [Calls -> Call] /\ Token(c) \in 1..issued /\ spent \subseteq 1..issued
  BY <1>1 DEF IInv, TypeInv, AskInv
<1>3. /\ call' \in [Calls -> Call]
      /\ call'[c].at = "release" /\ call'[c].entry = call[c].entry
      /\ call'[c].refresh = call[c].refresh
      /\ \A d \in Calls \ {c} : call'[d] = call[d]
  BY <1>1, <1>2 DEF Call
<1>4. \A d \in Calls : Asking(d)' => Asking(d) /\ Token(d)' = Token(d) /\ call'[d] = call[d]
  BY <1>3 DEF Asking, Token
<1>5. \A d \in Calls : Brings(d)' => Brings(d) /\ call'[d] = call[d]
  BY <1>3 DEF Brings
<1>6. TypeInv'
  BY <1>1, <1>2, <1>3 DEF IInv, TypeInv
<1>7. LockInv'
  BY <1>1, <1>3 DEF IInv, LockInv, Holds, Waits, Asking
<1>8. RefreshInv'
  BY <1>3 DEF IInv, RefreshInv
<1>9. AskInv'
  BY <1>1, <1>4 DEF IInv, AskInv
<1>10. LoginInv'
  BY <1>1, <1>4, <1>5 DEF IInv, LoginInv, Unused
<1>11. FileInv'
  BY <1>1 DEF IInv, FileInv
<1>q. QED
  BY <1>6, <1>7, <1>8, <1>9, <1>10, <1>11 DEF IInv

(* Who releases a lock that is another's, and does not know, robs it.        *)
LEMMA ReleaseStep ==
  ASSUME IInv, NEW c \in Calls, Release(c)
  PROVE  IInv'
<1> DEFINE victims == IF c \in noticed THEN {} ELSE ({lock} \intersect Calls) \ {c}
           tokens == {call[d].seen.token : d \in {e \in victims : Asking(e)}}
<1>1. /\ UNCHANGED <<file, expired, spent, issued>>
      /\ call[c].at = "release" /\ call' = [call EXCEPT ![c] = Idle]
      /\ noticed' = noticed \ {c} /\ passed' = passed \ {c}
      /\ lock' = IF c \in noticed THEN lock ELSE None
  BY DEF Release
<1>2. robbed' = (robbed \ {c}) \union victims /\ doubtful' = doubtful \union tokens
  BY DEF Release
<1>3. /\ call \in [Calls -> Call] /\ Holds(c) /\ noticed \subseteq robbed
      /\ c \in robbed => lock /= c
  BY <1>1 DEF IInv, TypeInv, LockInv, Holds
<1>4. Idle \in Call /\ Idle.at = "idle" /\ Idle.refresh = FALSE
  BY DEF Idle, Empty, Call, Content
<1>5. /\ call' \in [Calls -> Call] /\ call'[c] = Idle
      /\ \A d \in Calls \ {c} : call'[d] = call[d]
  BY <1>1, <1>3, <1>4
<1>6. \A d \in Calls : Asking(d)' => d /= c /\ Asking(d) /\ Token(d)' = Token(d) /\ call'[d] = call[d]
  BY <1>4, <1>5 DEF Asking, Token
<1>7. \A d \in Calls : Brings(d)' => d /= c /\ Brings(d) /\ call'[d] = call[d]
  BY <1>4, <1>5 DEF Brings
<1>8. \A d \in victims : d /= c /\ d = lock /\ Holds(d) /\ (Asking(d) => Token(d) \in doubtful')
  BY <1>2 DEF IInv, LockInv, Token
<1>9. \A d \in Calls : d = lock /\ d \notin victims => d = c \/ c \in noticed
  OBVIOUS
<1> HIDE DEF victims, tokens
<1>10. TypeInv'
  <2>1. lock' \in Calls \union {None, Orphan}
    BY <1>1 DEF IInv, TypeInv
  <2>2. noticed' \subseteq robbed'
    BY <1>1, <1>2, <1>3
  <2>q. QED
    BY <1>1, <1>5, <2>1, <2>2 DEF IInv, TypeInv
<1>11. LockInv'
  <2>1. lock' \in Calls => Holds(lock)' /\ lock' \notin robbed'
    <3> SUFFICES ASSUME lock' \in Calls PROVE Holds(lock)' /\ lock' \notin robbed'
      OBVIOUS
    <3>1. c \in noticed /\ lock' = lock /\ lock /= c /\ victims = {}
      BY <1>1, <1>3, LockAssumption DEF victims
    <3>q. QED
      BY <1>2, <1>5, <3>1 DEF IInv, LockInv, Holds
  <2>2. ASSUME NEW d \in Calls, Holds(d)', d \notin robbed'
        PROVE  lock' = d
    <3>1. d /= c /\ Holds(d) /\ d \notin robbed /\ d \notin victims
      BY <1>2, <1>4, <1>5, <2>2 DEF Holds
    <3>2. lock = d /\ c \in noticed
      BY <1>9, <3>1 DEF IInv, LockInv
    <3>q. QED
      BY <1>1, <3>2
  <2>3. ASSUME NEW d \in Calls, Waits(d)'
        PROVE  d \notin robbed' \union passed'
    <3>1. CASE d = c
      BY <1>1, <1>2, <1>8, <3>1
    <3>2. CASE d /= c
      <4>1. Waits(d) /\ ~Holds(d)
        BY <1>5, <2>3, <3>2 DEF Waits, Holds
      <4>q. QED
        BY <1>1, <1>2, <1>8, <4>1 DEF IInv, LockInv
    <3>q. QED
      BY <3>1, <3>2
  <2>q. QED
    BY <2>1, <2>2, <2>3 DEF LockInv
<1>12. RefreshInv'
  BY <1>4, <1>5 DEF IInv, RefreshInv
<1>13. AskInv'
  BY <1>1, <1>2, <1>6, <1>8 DEF IInv, AskInv
<1>14. LoginInv'
  BY <1>1, <1>6, <1>7 DEF IInv, LoginInv, Unused
<1>15. FileInv'
  BY <1>1, <1>2 DEF IInv, FileInv
<1>q. QED
  BY <1>10, <1>11, <1>12, <1>13, <1>14, <1>15 DEF IInv

-------------------------------------------------------------------------------

(* Every step keeps the invariant.                                           *)
LEMMA NextIInv == IInv /\ [Next]_vars => IInv'
<1> SUFFICES ASSUME IInv, [Next]_vars PROVE IInv'
  OBVIOUS
<1>1. CASE Untouched
  BY <1>1, Unchanged DEF Untouched, tokenVars
<1>2. ASSUME NEW t \in 1..issued, Expire(t) PROVE IInv'
  <2>1. UNCHANGED <<file, lock, noticed, robbed, passed, call, spent, doubtful, issued>>
    BY <1>2 DEF Expire, lockVars
  <2>2. expired' \subseteq Nat \ {0}
    BY <1>2 DEF IInv, TypeInv, Expire
  <2>3. TypeInv'
    BY <2>1, <2>2 DEF IInv, TypeInv
  <2>q. QED
    BY <2>1, <2>3 DEF IInv, LockInv, RefreshInv, AskInv, LoginInv, Unused, FileInv,
                      Waits, Holds, Token, Asking, Brings
<1>3. ASSUME NEW p \in Processes, Start(p) \/ Exit(p) PROVE IInv'
  BY <1>3, StartStep, ExitStep
<1>4. ASSUME NEW c \in Calls, Resolve(c) \/ Login(c) \/ Logout(c) PROVE IInv'
  <2>1. issued \in Nat
    BY DEF IInv, TypeInv
  <2>2. CASE Resolve(c)
    BY <2>2, BeginStep DEF Resolve
  <2>3. CASE Login(c)
    <3>1. PICK entry \in {"token", "key"} : Begin(c, entry, issued + 1, FALSE)
      BY <2>3 DEF Login
    <3>2. issued' = issued + 1 /\ issued + 1 \in Nat
      BY <2>1, <2>3 DEF Login
    <3>q. QED
      BY <3>1, <3>2, BeginStep
  <2>4. CASE Logout(c)
    BY <2>4, BeginStep DEF Logout
  <2>q. QED
    BY <1>4, <2>2, <2>3, <2>4
<1>5. ASSUME NEW c \in Calls,
             GiveUp(c) \/ Ask(c) \/ Keep(c) \/ Change(c) \/ Touch(c)
      PROVE  IInv'
  BY <1>5, GiveUpStep, AskStep, ChangeStep, TouchStep
<1>6. ASSUME NEW c \in Calls, Exchanged(c) \/ ExchangeFails(c) \/ Release(c)
      PROVE  IInv'
  BY <1>6, ExchangedStep, ExchangeFailsStep, ReleaseStep
<1>7. CASE UNCHANGED vars
  BY <1>7, Unchanged DEF vars, lockVars, tokenVars
<1>q. QED
  BY <1>1, <1>2, <1>3, <1>4, <1>5, <1>6, <1>7 DEF Next

(* The invariant holds in every reachable state, for any number of processes *)
(* that share auth.json and of calls in each.                                *)
THEOREM Invariance == Spec => []IInv
<1>1. Init => IInv
  BY InitIInv
<1>2. IInv /\ [Next]_vars => IInv'
  BY NextIInv
<1>q. QED
  BY <1>1, <1>2, PTL DEF Spec

(* A token is exchanged by one call, and never again: two calls that ask     *)
(* with the same token cannot both have the lock, and the one that was       *)
(* robbed of it has made its token doubtful (resolveStoredOAuth in modify).  *)
THEOREM TokensAreUsedOnce == Spec => []NoDoubleRefresh
<1>1. IInv => NoDoubleRefresh
  <2> SUFFICES ASSUME IInv, NEW c \in Calls, Asking(c), Token(c) \notin doubtful
               PROVE  /\ Token(c) \notin spent
                      /\ \A d \in Calls \ {c} : Asking(d) => Token(d) /= Token(c)
    BY DEF NoDoubleRefresh, Token
  <2>1. Token(c) \notin spent
    BY DEF IInv, AskInv
  <2>2. ASSUME NEW d \in Calls \ {c}, Asking(d), Token(d) = Token(c)
        PROVE  FALSE
    <3>1. c \notin robbed /\ d \notin robbed
      BY <2>2 DEF IInv, AskInv
    <3>2. lock = c /\ lock = d
      BY <2>2, <3>1 DEF IInv, LockInv, Holds, Asking
    <3>q. QED
      BY <3>2
  <2>q. QED
    BY <2>1, <2>2
<1>q. QED
  BY <1>1, Invariance, PTL

-------------------------------------------------------------------------------

(* The step of one call does not end another's work on the file.             *)
LEMMA OthersStay ==
  ASSUME NEW c \in Calls, call'[c] = call[c]
  PROVE  Respects(c)
BY DEF Respects

(* A call that takes the lock changes its own credential in the file as it   *)
(* is then.                                                                  *)
LEMMA ChangeRespects ==
  ASSUME IInv, NEW c \in Calls, Keep(c) \/ Change(c)
  PROVE  Respects(c)
<1>1. file \in Content /\ call[c].entry \in {"token", "key"}
  BY DEF IInv, TypeInv, Call
<1>2. \/ file' = file
      \/ ~call[c].refresh /\ file' = [file EXCEPT ![call[c].entry] = call[c].value]
  BY DEF Keep, Change, Save, Current
<1>q. QED
  BY <1>1, <1>2 DEF Respects, Content

(* An exchange writes what its call read, with the new token: what is in the *)
(* file still, if the lock has protected it.                                 *)
LEMMA ExchangedRespects ==
  ASSUME IInv, NEW c \in Calls, Exchanged(c)
  PROVE  Respects(c)
<1> SUFFICES ASSUME c \notin robbed \union passed PROVE Respects(c)
  BY DEF Respects
<1>1. /\ Asking(c) /\ call[c].entry = "token"
      /\ call[c].seen = file /\ Token(c) \in 1..issued /\ c \notin noticed
  BY DEF Exchanged, IInv, TypeInv, AskInv
<1>2. file \in Content /\ file.token /= 0
  BY <1>1 DEF Token, IInv, TypeInv
<1>3. file' = [file EXCEPT !.token = issued + 1]
  BY <1>1 DEF Exchanged, Save
<1>q. QED
  BY <1>1, <1>2, <1>3 DEF Respects, Content

(* No other step ends a call's work on the file with a change of it.         *)
LEMMA StepRespects ==
  ASSUME IInv, [Next]_vars, NEW c \in Calls
  PROVE  Respects(c)
<1>0. call \in [Calls -> Call]
  BY DEF IInv, TypeInv
<1>1. CASE Untouched \/ \E t \in 1..issued : Expire(t)
  BY <1>1, OthersStay DEF Untouched, Expire
<1>2. ASSUME NEW p \in Processes, Start(p) \/ Exit(p) PROVE Respects(c)
  <2>1. call'[c] = call[c] \/ call'[c] = Idle
    BY <1>0, <1>2 DEF Start, Exit
  <2>q. QED
    BY <2>1, OthersStay DEF Respects, Idle
<1>3. ASSUME NEW d \in Calls, d /= c,
             Keep(d) \/ Change(d) \/ Exchanged(d) \/ ExchangeFails(d)
      PROVE  Respects(c)
  <2>1. call' = [call EXCEPT ![d].at = "release"]
    BY <1>3 DEF Keep, Change, Exchanged, ExchangeFails, Save, Goes
  <2>q. QED
    BY <1>0, <1>3, <2>1, OthersStay
<1>4. CASE Keep(c) \/ Change(c)
  BY <1>4, ChangeRespects
<1>5. CASE Exchanged(c)
  BY <1>5, ExchangedRespects
<1>6. CASE ExchangeFails(c)
  <2>1. UNCHANGED file
    BY <1>6 DEF ExchangeFails, Fails
  <2>q. QED
    BY <2>1 DEF Respects
<1>7. ASSUME NEW d \in Calls, GiveUp(d) \/ Ask(d) \/ Release(d) \/ Touch(d)
      PROVE  Respects(c)
  <2>1. \/ call' = [call EXCEPT ![d] = Idle] \/ call' = call
        \/ call' = [call EXCEPT ![d].at = "asking", ![d].seen = file]
    BY <1>7 DEF GiveUp, Ask, Release, Touch, Current
  <2>2. call'[c] = call[c] \/ call'[c].at \in {"idle", "asking"}
    BY <1>0, <2>1 DEF Idle, Call
  <2>q. QED
    BY <2>2, OthersStay DEF Respects
<1>8. ASSUME NEW d \in Calls, Resolve(d) \/ Login(d) \/ Logout(d)
      PROVE  Respects(c)
  <2>1. UNCHANGED file
    BY <1>8 DEF Resolve, Login, Logout, Begin
  <2>q. QED
    BY <2>1 DEF Respects
<1>9. CASE UNCHANGED vars
  BY <1>9, OthersStay DEF vars
<1>q. QED
  BY <1>1, <1>2, <1>3, <1>4, <1>5, <1>6, <1>7, <1>8, <1>9 DEF Next

(* A call that keeps its lock, and whose lock nobody writes past, changes    *)
(* only its own credential, and no refresh brings a removed token back       *)
(* (modify).                                                                 *)
THEOREM ChangesAreRespected == Spec => NothingOverwritten
<1>1. IInv /\ [Next]_vars => [\A c \in Calls : Respects(c)]_vars
  BY StepRespects
<1>q. QED
  BY <1>1, Invariance, PTL DEF Spec, NothingOverwritten
===============================================================================
