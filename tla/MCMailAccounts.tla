--------------------------- MODULE MCMailAccounts ---------------------------
(* Instances of MailAccounts for TLC.                                      *)
EXTENDS MailAccountsRefinement, TLC

CONSTANTS v1, v2, k1, k2

\* Every version is deployed with a key of its own.
KeyPerVersion == v1 :> k1 @@ v2 :> k2
OneVersion == v1 :> k1

Interchangeable == Permutations(Requests) \cup Permutations(DEKs) \cup Permutations(Passwords)
=============================================================================
