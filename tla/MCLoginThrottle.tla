-------------------------- MODULE MCLoginThrottle ---------------------------
(* Model-checking instance of LoginThrottle.                               *)
EXTENDS LoginThrottle, TLC

\* Addresses, names and slots are interchangeable.
Alike == Permutations(Address) \cup Permutations(Name) \cup Permutations(Slot)
=============================================================================
