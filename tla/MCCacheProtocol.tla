--------------------------- MODULE MCCacheProtocol ---------------------------
(* CacheProtocol on small instances. *)
EXTENDS CacheProtocol, TLC

Symmetric == Permutations(Proc) \cup Permutations(Bytes) \cup Permutations(Pair)
=============================================================================
