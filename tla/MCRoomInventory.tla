--------------------------- MODULE MCRoomInventory ---------------------------
(* Instances of RoomInventory: one room type, and a group of it whose share is *)
(* configured or not.                                                         *)
EXTENDS RoomInventory, TLC

CONSTANTS Double, Boys

OneDouble == [rooms |-> [p \in {Double} |-> 1], line |-> [p \in {} |-> 0]]
MCDemandPlain == {OneDouble}
MCCapacityPlain == {[p \in {Double} |-> n] : n \in 1..2}

\* One room for boys, or two double rooms for anyone.
MCDemandGroups ==
    {[rooms |-> [p \in {Double, Boys} |-> 1], line |-> [p \in {Boys} |-> 1]],
     [rooms |-> [p \in {Double, Boys} |-> IF p = Double THEN 2 ELSE 0],
      line |-> [p \in {Boys} |-> 0]]}
MCCapacityGroups ==
    {[p \in {Double, Boys} |-> IF p = Double THEN 2 ELSE b] : b \in {None, 0}}

MCSymmetry == Permutations(Employee) \cup Permutations(Traveler)
=============================================================================
