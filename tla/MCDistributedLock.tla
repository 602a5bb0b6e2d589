--------------------------- MODULE MCDistributedLock ---------------------------
(* One key and a waiter.  Mutex acquisitions with and without automatic    *)
(* renewal, so that one can overwrite the expired entry of another; two    *)
(* readers and two writers; two callers of a semaphore of one permit; and  *)
(* one acquisition of each kind, which share the waiters of the key.  One  *)
(* restart at any moment, from any earlier snapshot.                       *)
EXTENDS DistributedLock

CONSTANTS k1, m1, m2, m3, r1, r2, w1, w2, p1, p2, a1, none

MCKeys == {k1}
MCTokens == {m1, m2, m3, r1, r2, w1, w2, p1, p2}
MCKeyOf == [t \in MCTokens |-> k1]
MCKindOf == [t \in MCTokens |->
               IF t \in {m1, m2, m3} THEN "mutex"
               ELSE IF t \in {r1, r2} THEN "read"
               ELSE IF t \in {w1, w2} THEN "write" ELSE "permit"]
MCLimitOf == [t \in MCTokens |-> 1]
MCAutoRenewed == {m1, m2}
MCCasts == {{m1, m2}, {m1, m3}, {r1, r2, w1}, {r1, w1, w2}, {p1, p2}, {m1, w1}}
MCWaiters == {a1}
MCAwaitedBy == [w \in MCWaiters |-> k1]
=============================================================================
