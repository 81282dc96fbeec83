------------------------ MODULE MCBookingConversation ------------------------
(***************************************************************************)
(* Instances of BookingConversation for TLC: a local and an international  *)
(* trip; the second party finds no price on the one, no rooms on the other.*)
(***************************************************************************)
EXTENDS BookingConversation

MCTypeOf == [t \in Trip |-> IF t = "siwa" THEN "local" ELSE "international"]
MCOffer  == [t \in Trip |-> [p \in Party |->
               IF p = "pair" THEN "available"
               ELSE IF t = "siwa" THEN "unpriced" ELSE "soldOut"]]

\* The messages of a customer of the group trips, and of one who may change to
\* a private trip.
GroupTrip   == Message \ {"private", "thanks", "book", "other", "stuck", "human",
                          "cancel"}
PrivateTrip == Message \ {"startOver", "trips", "back", "switch", "rooms",
                          "flight", "revise", "name", "details"}
==============================================================================
