---------------------------- MODULE RateLimiter ----------------------------
(***************************************************************************)
(* src/src/services/RateLimiter.ts: calls counted per key in a window that *)
(* starts with a call.                                                     *)
(***************************************************************************)
EXTENDS Naturals, FiniteSetsExt

CONSTANTS
    LimitKeys,  \* the keys calls are counted under
    Limit,      \* the limit callers pass, the same for every call of a key
    Window,     \* the window they pass
    MaxTick,    \* bound: the clock
    MaxCalls,   \* bound: calls counted in one entry
    MaxImports  \* bound: restarts

ASSUME LimitAssumption == Limit \in Nat \ {0} /\ Window \in Nat \ {0} /\ MaxTick \in Nat

VARIABLES
    limits,   \* [LimitKeys -> count and resetAt], count 0: no entry
    saved,    \* the limits of the latest snapshot
    tick,     \* Date.now()
    allowed,  \* history: [LimitKeys -> [ticks -> calls allowed then]]
    imports   \* history: snapshots imported

limitVars == <<limits, saved, tick, allowed, imports>>

NoEntry == [count |-> 0, resetAt |-> 0]

InitLimits ==
    /\ limits = [k \in LimitKeys |-> NoEntry]
    /\ saved = [k \in LimitKeys |-> NoEntry]
    /\ tick = 0
    /\ allowed = [k \in LimitKeys |-> [t \in 0..MaxTick |-> 0]]
    /\ imports = 0

Expired(k) == limits[k].count = 0 \/ tick > limits[k].resetAt

\* The entry that check() stores: a new window when there is none to count in.
Counted(k) ==
    IF Expired(k) THEN [count |-> 1, resetAt |-> tick + Window]
                  ELSE [limits[k] EXCEPT !.count = @ + 1]

\* check(): a refused call is counted as well.
Check(k) ==
    /\ limits[k].count < MaxCalls
    /\ limits' = [limits EXCEPT ![k] = Counted(k)]
    /\ allowed' = IF limits'[k].count <= Limit THEN [allowed EXCEPT ![k][tick] = @ + 1] ELSE allowed
    /\ UNCHANGED <<saved, tick, imports>>

\* Variant: the pruning looks for windows that are over or about to be.
PrunableEarly == {k \in LimitKeys : tick >= limits[k].resetAt - Window + 1}

Prunable == {k \in LimitKeys : tick > limits[k].resetAt}

\* pruneExpired(), every five minutes.
Prune ==
    /\ limits' = [k \in LimitKeys |-> IF k \in Prunable THEN NoEntry ELSE limits[k]]
    /\ UNCHANGED <<saved, tick, allowed, imports>>

\* The snapshot of the persistence manager takes export().
Saves ==
    /\ saved' = limits
    /\ UNCHANGED <<limits, tick, allowed, imports>>

\* A restart imports the latest snapshot, or finds none it can read.
RestartLimits ==
    /\ imports < MaxImports
    /\ imports' = imports + 1
    /\ limits' \in {saved, [k \in LimitKeys |-> NoEntry]}
    /\ UNCHANGED <<saved, tick, allowed>>

Ticks ==
    /\ tick < MaxTick
    /\ tick' = tick + 1
    /\ UNCHANGED <<limits, saved, allowed, imports>>

NextLimits ==
    \/ \E k \in LimitKeys : Check(k)
    \/ Prune \/ Saves \/ RestartLimits \/ Ticks

LimitSpec == InitLimits /\ [][NextLimits]_limitVars

-----------------------------------------------------------------------------
\* Calls of k allowed in the Window ticks from t on.
AllowedFrom(k, t) ==
    MapThenSumSet(LAMBDA x : allowed[k][x], {x \in 0..MaxTick : t <= x /\ x < t + Window})

(* However calls, prunings and restarts fall, no period as long as the     *)
(* window sees more than twice the limit allowed, and once the limit more  *)
(* for every restart, which goes back to an older count or to none.        *)
WindowBounded ==
    \A k \in LimitKeys, t \in 0..MaxTick :
        AllowedFrom(k, t) <= (2 + imports) * Limit

(* README.md:95 calls the limiter a "sliding window".                      *)
SlidingWindow ==
    \A k \in LimitKeys, t \in 0..MaxTick : imports = 0 => AllowedFrom(k, t) <= Limit
=============================================================================
