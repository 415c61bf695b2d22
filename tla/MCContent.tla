----------------------------- MODULE MCContent -----------------------------
(* Small instances of the content queue: requests are interchangeable.     *)
EXTENDS ContentLifecycle, TLC

RequestSymmetry == Permutations(Requests)
=============================================================================
