---------------------------- MODULE RedisClientMC ----------------------------
(* Three goroutines over a pool of two connections. *)
EXTENDS RedisClient
CONSTANTS k1, k2, k3
==============================================================================
