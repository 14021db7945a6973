---------------------------- MODULE MCFleetQueue ----------------------------
(* Instances of FleetQueue for TLC. *)
EXTENDS FleetQueue, TLC

CONSTANTS p1, p2, big, d1, d2

\* Sessions of different size: a torn p2 may be whole or cut short, big is above
\* the payload limit.
MCTornSize == [p \in Payloads |-> IF p = big THEN 3 ELSE IF p = p2 THEN 2 ELSE 1]

=============================================================================
