-------------------------------- MODULE MCCache --------------------------------
EXTENDS Cache, TLC
CONSTANTS k1, k2, t1, none
MCSize(v) == IF v = 0 THEN 2 ELSE 5
MCPatterns == {{k1, k2}}
MCLoads == {[tags |-> {t1}, ttl |-> TRUE, staleFor |-> TRUE]}
MCWrites == {[tags |-> {}, ttl |-> FALSE, staleFor |-> FALSE]}
Symmetry == Permutations(Keys)

\* Once a snapshot was begun, the run follows what warm() loads, a call at a time.
Snapshots ==
    saves > 0 => /\ inFlight = {} /\ \A f \in Fetches \ {1} : fetch[f] = None
                 /\ \A k \in Keys : staleData[k] = None
                 /\ \A k \in Cached(cache) : cache.entries[k].tags # {}
=============================================================================
