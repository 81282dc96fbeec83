-------------------------- MODULE AppendOnlyLedger --------------------------
(***************************************************************************)
(* What a money ledger of the CRM promises, whichever table holds it: rows *)
(* are only ever added at the end, a row that carries an idempotency key   *)
(* is added once, and a correction is the mirror image of an earlier row   *)
(* that is not itself a correction.  Nothing is said about who writes, how *)
(* many write at once, or which checks they make first.                    *)
(***************************************************************************)
EXTENDS Naturals, Sequences

CONSTANTS
  Row,            \* everything a ledger row may hold
  SameKey(_, _),  \* two rows carry the same idempotency key
  Target(_),      \* the position a correction reverses, 0 for an original
  Mirrors(_, _)   \* a correction repeats what the row it reverses says

VARIABLE log      \* the rows, in the order of their serial id

Init == log = << >>

Fresh(row) == \A i \in DOMAIN log : ~SameKey(log[i], row)

WellAimed(row) ==
  \/ Target(row) = 0
  \/ /\ Target(row) \in DOMAIN log
     /\ Target(log[Target(row)]) = 0
     /\ Mirrors(row, log[Target(row)])

Record(row) ==
  /\ log' = Append(log, row)
  /\ Fresh(row)
  /\ WellAimed(row)

Next == \E row \in Row : Record(row)

Spec == Init /\ [][Next]_log
=============================================================================
