--------------------------- MODULE MCBookingMoney ---------------------------
(***************************************************************************)
(* An instance of BookingMoney for TLC: a room costs 2 in USD and 4 in     *)
(* EGP, so that a refund of 3 is beyond one room in USD unless a fee was   *)
(* paid with it, and within it in EGP.                                     *)
(***************************************************************************)
EXTENDS BookingMoney, TLC

Prices == [c \in Currency |-> IF c = "USD" THEN 2 ELSE 4]

Symmetry == Permutations(Employee)

=============================================================================
