----------------------- MODULE MCRedisQuotaRecoveryQueue -----------------------
(* Model-checking instance of RedisQuotaRecoveryQueue. *)
EXTENDS RedisQuotaRecoveryQueue, TLC

Symmetry == Permutations(Keys) \cup Permutations(Tokens)
=============================================================================
