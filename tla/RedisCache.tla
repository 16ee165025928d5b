----------------------------- MODULE RedisCache -----------------------------
(***************************************************************************)
(* The one cache of redis-cache.module.ts: entries with a lifetime, shared  *)
(* by the makeability pages, the MCP tickets and the MCP sessions, and the  *)
(* invalidation that clears it by pattern or, where the store offers no     *)
(* scan or a scan fails, altogether.                                        *)
(***************************************************************************)
EXTENDS Integers, Sequences, FiniteSets

CONSTANTS Keys,      \* the keys in use
          PageKeys,  \* those of them that 'makeability:*' and 'search:*' match
          Null

ASSUME KeysAssumption == PageKeys \subseteq Keys

VARIABLES now,    \* the clock
          cache   \* keys to [val, till], or Null

cacheVars == <<now, cache>>

Get(key) == IF cache[key] # Null /\ cache[key].till > now THEN cache[key].val ELSE Null
Put(key, val, ttl) == [cache EXCEPT ![key] = [val |-> val, till |-> now + ttl]]
Del(key) == [cache EXCEPT ![key] = Null]
\* clearByPatterns(['makeability:*', 'search:*']), or clear().
Invalidated(whole) ==
  [k \in Keys |-> IF whole \/ k \in PageKeys THEN Null ELSE cache[k]]
=============================================================================
