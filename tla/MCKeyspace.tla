------------------------------ MODULE MCKeyspace ------------------------------
EXTENDS Keyspace
CONSTANTS k1, k2, k3, f1, f2, none, nothing
MCCollections == {"hash", "list", "set", "zset"}
MCAdditions == {<<f1>>, <<f2>>, <<f1, f2>>}
MCOne == {<<f1>>}

\* States after an eviction of the key being written are not explored further:
\* they are the subject of Owned.
Whole == "own" \notin ks.slips

\* Nor, where the order of eviction is the question, those with drifted bytes.
Exact == ks.slips = {}

Symmetry == Permutations(Keys) \cup Permutations(Fields)
=============================================================================
