------------------------------- MODULE Selection -------------------------------
(* What a loop collects that pushes the elements passing a test: those of a     *)
(* sequence that are in a set, in their order.  A recursive function, and a set *)
(* for the test, because both can be reasoned about; SelectSeq takes an         *)
(* operator.                                                                    *)
EXTENDS Naturals, Sequences

Selected(s, S) ==
  LET f[n \in Nat] ==
        IF n \in DOMAIN s THEN IF s[n] \in S THEN Append(f[n - 1], s[n]) ELSE f[n - 1]
                          ELSE <<>>
  IN  f[Len(s)]
===============================================================================
