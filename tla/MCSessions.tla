----------------------------- MODULE MCSessions -----------------------------
(* Instances of Sessions for TLC.                                          *)
EXTENDS Sessions, TLC

Interchangeable == Permutations(Browsers) \cup Permutations(Attempts) \cup Permutations(Ids)
=============================================================================
