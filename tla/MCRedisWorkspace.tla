--------------------------- MODULE MCRedisWorkspace ---------------------------
(***************************************************************************)
(* An instance of RedisWorkspace for TLC: the pattern of all keys and one  *)
(* that matches the first only.                                            *)
(***************************************************************************)
EXTENDS RedisWorkspace

MCPatterns == {Keys, {1}}
=============================================================================
