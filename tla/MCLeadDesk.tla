----------------------------- MODULE MCLeadDesk -----------------------------
(***************************************************************************)
(* Two leads of one traveler and two sales employees.                      *)
(***************************************************************************)
EXTENDS LeadDesk, TLC

MCTravelerOf == [l \in Lead |-> "traveler"]
MCSymmetry   == Permutations(Worker) \cup Permutations(Lead)
=============================================================================
