------------------------------ MODULE TTLCache ------------------------------
(***************************************************************************)
(* The in-memory TTL cache (internal/cache/ttl.go) as operators on its     *)
(* entries.  A cache is a function from cache keys to entries; an entry    *)
(* holds a set (the cached rows or principals) and the instant from which  *)
(* it no longer counts.  The Go map deletes a key where the model stores   *)
(* NoEntry, whose instant is 0, so that every Get misses it.  The mutex of *)
(* the cache makes each method one atomic step of the calling goroutine.   *)
(* A TTL of zero stores nothing that a Get could return, as in the code.   *)
(***************************************************************************)
EXTENDS Naturals

Entry(Values) == [value : Values, expiresAt : Nat]

\* A missing map key.
NoEntry == [value |-> {}, expiresAt |-> 0]

EmptyCache(K) == [k \in K |-> NoEntry]

\* Deviation: an entry still hits at the instant it expires.
Live_Inclusive(entry, now) == entry # NoEntry /\ now <= entry.expiresAt

\* Get hits iff now.Before(entry.expiresAt).
Live(entry, now) == now < entry.expiresAt

\* What a Get leaves behind: an entry found expired is deleted.
Get(cache, k, now) ==
    [cache EXCEPT ![k] = IF Live(cache[k], now) THEN cache[k] ELSE NoEntry]

Set(cache, k, v, now, ttl) ==
    [cache EXCEPT ![k] = [value |-> v, expiresAt |-> now + ttl]]

Delete(cache, k) == [cache EXCEPT ![k] = NoEntry]

\* DeleteWhere and, with every key matching, Clear.
DeleteWhere(cache, Matching) ==
    [k \in DOMAIN cache |-> IF k \in Matching THEN NoEntry ELSE cache[k]]

Clear(cache) == [k \in DOMAIN cache |-> NoEntry]
=============================================================================
