-------------------------- MODULE MCLoginRateLimiter --------------------------
(* Addresses are interchangeable, and so are accounts.                     *)
EXTENDS LoginRateLimiter, TLC

Symmetry == Permutations(Addresses) \cup Permutations(Accounts)
=============================================================================
