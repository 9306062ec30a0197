------------------------- MODULE MCActionAuthority -------------------------
(* Instances of ActionAuthority for TLC. *)
EXTENDS ActionAuthority, TLC

\* No run, action or request is named in the specification.
Interchangeable == Permutations(Actions) \cup Permutations(Requests) \cup Permutations(Runs)
=============================================================================
