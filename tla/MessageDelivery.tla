--------------------------- MODULE MessageDelivery ---------------------------
(***************************************************************************)
(* What an agent promises about the messages it is handed: each kind of    *)
(* message is delivered to the transcript one at a time, in the order it   *)
(* was handed over and at most once.  Messages may be dropped while they   *)
(* wait, never invented, never reordered.                                  *)
(***************************************************************************)
EXTENDS Naturals, Sequences

CONSTANTS Kinds, Messages

VARIABLES
  waiting,    \* per kind, the messages handed over and not delivered
  delivered   \* per kind, the messages in the transcript

vars == <<waiting, delivered>>

Init ==
  /\ waiting = [k \in Kinds |-> <<>>]
  /\ delivered = [k \in Kinds |-> <<>>]

HandOver(k) ==
  /\ \E m \in Messages : waiting' = [waiting EXCEPT ![k] = Append(@, m)]
  /\ UNCHANGED delivered

(* w is what is left of s after its first d elements are gone, and more of  *)
(* either end may be.                                                       *)
RestOf(w, s, d) == \E lo \in d + 1..Len(s) + 1, hi \in 0..Len(s) : w = SubSeq(s, lo, hi)

(* At most the oldest message of a kind is delivered; others may be dropped.*)
DeliverOrDrop ==
  \A k \in Kinds :
    \E d \in 0..1 :
      /\ d <= Len(waiting[k])
      /\ delivered'[k] = delivered[k] \o SubSeq(waiting[k], 1, d)
      /\ RestOf(waiting'[k], waiting[k], d)

(* The transcript is emptied, and what waits may be dropped.                *)
Forget ==
  /\ delivered' = [k \in Kinds |-> <<>>]
  /\ \A k \in Kinds : RestOf(waiting'[k], waiting[k], 0)

Next ==
  \/ \E k \in Kinds : HandOver(k)
  \/ /\ DeliverOrDrop
     /\ DOMAIN waiting' = Kinds /\ DOMAIN delivered' = Kinds
  \/ Forget

Spec == Init /\ [][Next]_vars
==============================================================================
