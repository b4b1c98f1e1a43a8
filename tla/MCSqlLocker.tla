----------------------------- MODULE MCSqlLocker ------------------------------
(* TLC instances of SqlLocker. *)
EXTENDS SqlLocker, TLC

Symm == Permutations(Clients) \cup Permutations(Holders)
=============================================================================
