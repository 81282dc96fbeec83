----------------------- MODULE MCPrivateTripRequests -----------------------
(* Small instances of PrivateTripRequests for TLC. *)
EXTENDS PrivateTripRequests, TLC

CONSTANTS e1, e2, EGP, USD

OneEmployee  == {e1}
TwoEmployees == {e1, e2}

Employees  == Permutations(TwoEmployees)
Currencies == Permutations({EGP, USD})
Symmetry   == Employees \cup Currencies
CurrencySymmetry == Currencies
=============================================================================
