----------------------------- MODULE MCRedisLock -----------------------------
(* Instances of RedisLock for TLC. *)
EXTENDS RedisLock, TLC

Symm == Permutations(Clients) \cup Permutations(Tokens)
=============================================================================
