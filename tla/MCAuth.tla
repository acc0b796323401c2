------------------------------- MODULE MCAuth -------------------------------
(* Instances of Auth for TLC. *)
EXTENDS Auth, TLC

\* Only safety is checked, and none of these sets has a special element.
Symmetry == Permutations(Replicas) \cup Permutations(Invites)
              \cup Permutations(Requests)
=============================================================================
