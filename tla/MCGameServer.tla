---------------------------- MODULE MCGameServer ----------------------------
(* Instances of GameServerSystem for TLC. *)
EXTENDS GameServerSystem, TLC

CONSTANTS s1, s2, alice, nobody

\* One server of alice.
OneServer == {s1}
OneOwner == [s \in OneServer |-> alice]

\* Two servers of alice.
TwoServers == {s1, s2}
TwoOwners == [s \in TwoServers |-> alice]

\* Exchanging them changes nothing.
Symmetry == Permutations(TwoServers)

\* What users and faults may do: the bounds of the runs.
TwoRequests == {[requests |-> 2, faults |-> 0]}
TwoRequestsAndAFault == {[requests |-> 2, faults |-> 1]}
ThreeRequestsOrAFault == {[requests |-> 3, faults |-> 0],
                          [requests |-> 1, faults |-> 1]}
=============================================================================
