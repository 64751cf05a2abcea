------------------------------ MODULE MCCompose ------------------------------
(* Instances of Compose for TLC.                                           *)
EXTENDS Compose, TLC

Interchangeable == Permutations(Tabs) \cup Permutations(Servers)
=============================================================================
