--------------------------- MODULE MCSessionStore ---------------------------
(* Instances of SessionStore for TLC, with requests and sessions as model   *)
(* values; under fairness no symmetry is used.                              *)
EXTENDS SessionStore, TLC
=============================================================================
