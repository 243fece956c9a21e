------------------------------- MODULE Mishaps -------------------------------
(* What may go wrong in a behaviour, and how often: failing calls, lost       *)
(* status patches, restarts and objects that fail for a while all draw on one *)
(* bound, so that each may happen at any step and they may happen together.   *)
EXTENDS Naturals

CONSTANT MaxMishaps
VARIABLE mishaps

ASSUME MishapsAssumption == MaxMishaps \in Nat

\* A step that goes wrong if b holds.
Mishap(b) == IF b THEN mishaps < MaxMishaps /\ mishaps' = mishaps + 1
                  ELSE UNCHANGED mishaps
==============================================================================
