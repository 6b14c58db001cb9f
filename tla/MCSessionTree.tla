---------------------------- MODULE MCSessionTree ----------------------------
(* SessionTree with interchangeable managers.                               *)
EXTENDS SessionTree, TLC

ManagerSymmetry == Permutations(Managers)

(* What the shared run continues from.  Writes that fail, a second file and *)
(* the last entry multiply each other; it goes on from states with one of   *)
(* them, and checks the states one step beyond.                             *)
InScope ==
  \/ names <= 1 /\ (faults = 0 \/ ids < MaxEntries)
  \/ faults = 0 /\ ids < MaxEntries
==============================================================================
