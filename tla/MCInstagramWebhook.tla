------------------------- MODULE MCInstagramWebhook -------------------------
(***************************************************************************)
(* Instances of InstagramWebhook for TLC: r1 and r2 deliver the same       *)
(* event, r3 another event of the same sender (in the same delivery, after *)
(* r1, when Batched).                                                      *)
(***************************************************************************)
EXTENDS InstagramWebhook, TLC

CONSTANTS r1, r3, e1, e2, x1, Batched

Events  == [r \in Request |-> IF r = r3 THEN e2 ELSE e1]
Senders == [e \in Event |-> x1]
Batches == [r \in Request |-> IF Batched /\ r = r3 THEN r1 ELSE None]

=============================================================================
