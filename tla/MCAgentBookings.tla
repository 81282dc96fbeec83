-------------------------- MODULE MCAgentBookings --------------------------
(***************************************************************************)
(* Instances of AgentBookings for TLC: two conversations, of two travelers *)
(* or of one, when Shared.  A lead may be there, made by the first one for *)
(* nobody or for the other traveler.                                       *)
(***************************************************************************)
EXTENDS AgentBookings, TLC

CONSTANTS c1, u1, u2, t1, Shared

Travelers  == [s \in Session |-> IF s = c1 \/ Shared THEN u1 ELSE u2]
Tries      == [s \in Session |-> IF s = c1 THEN 2 ELSE 1]
Intakes    == {[traveler |-> IF Shared THEN None ELSE u2, session |-> c1]}
Capacities == [t \in Trip |-> IF t = t1 THEN 2 ELSE 1]
=============================================================================
